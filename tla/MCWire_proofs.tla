---------------------------- MODULE MCWire_proofs ----------------------------
(***************************************************************************)
(* Proofs about what goes over a connection once it is open: datagrams in  *)
(* a stream (PacketStream, the invariant of MCWireOpening_proofs) and      *)
(* through socks5 (Socks5UDP), the switch of a lazily encrypted connection *)
(* to the bare one (TlsLazy), copying below the layers (Copy) and the      *)
(* frames of the transports (Frames).                                      *)
(***************************************************************************)
EXTENDS MCWireOpening_proofs

-----------------------------------------------------------------------------
(* PacketStream.  Every step keeps PacketInv (MCWireOpening_proofs), which *)
(* is what DatagramsKept follows from.                                     *)
LEMMA PacketStart == PacketStream!Init => PacketInv
<1>1. SUFFICES ASSUME PacketStream!Init PROVE PacketInv
  OBVIOUS
<1>2. /\ format \in Formats /\ lc_mutex = None /\ owed = [w \in Downlinks |-> <<>>]
      /\ written = <<>> /\ wire = <<>> /\ bufr = <<>> /\ message = <<>> /\ read = <<>>
      /\ state = "open"
  BY <1>1 DEF PacketStream!Init
<1>3. format \in {"vless0", "vless1", "vless1_multi", "trojan", "simplesocks"}
  BY <1>2, FormatsAssumption
<1>4. <<>> \in Seq(Pieces) /\ <<>> \in Seq(Seq(Pieces)) /\ Len(<<>>) = 0
      /\ <<>> \in Seq([from : PacketStream!Addrs, size : Nat])
      /\ <<>> \in Seq(PacketStream!Datagrams)
  OBVIOUS
<1>5. owed \in [Downlinks -> Seq(Seq(Pieces))]
  BY <1>2, <1>4
<1>6. PacketTypes
  BY <1>2, <1>3, <1>4, <1>5 DEF PacketTypes
<1>7. OwedByHolder
  BY <1>2, <1>4 DEF OwedByHolder
<1>8. ReadAsWritten
  BY <1>2, <1>4 DEF ReadAsWritten
<1>9. WithinOne
  BY <1>2 DEF WithinOne
<1>10. AllUnderWay = <<>>
  <2>1. StillOwed = <<>>
    BY <1>2 DEF StillOwed
  <2>2. <<>> \o <<>> = <<>>
    BY <1>4, ConcatEmptySeq
  <2> QED
    BY <1>2, <2>1, <2>2 DEF AllUnderWay
<1> DEFINE off == [n \in Nat |-> 0]
<1>11. off \in [Nat -> Nat] /\ off[0] = 0
  OBVIOUS
<1> HIDE DEF off
<1>12. 0 \in Nat /\ 0 <= 0 /\ 0 - 0 = 0 /\ \A i \in (0 + 1)..0 : FALSE
  OBVIOUS
<1>13. \A i \in 0..0 : \A j \in i..0 : off[i] <= off[j]
  BY <1>11
<1>14. Woven(<<>>, 0, 0, AllFields, off)
  BY <1>4, <1>11, <1>12, <1>13 DEF Woven
<1>15. \E o \in [Nat -> Nat] : Woven(AllUnderWay, Len(read), Len(written), AllFields, o)
  BY <1>2, <1>4, <1>10, <1>11, <1>14
<1> QED
  BY <1>2, <1>6, <1>7, <1>8, <1>9, <1>15 DEF PacketInv

(* What a step must show that neither starts a datagram nor completes one. *)
LEMMA SameFields ==
  UNCHANGED <<format, written>> => AllFields' = AllFields
BY DEF AllFields, Fields, HeadFields, PacketStream!HeadOf

LEMMA SameStream ==
  /\ PacketInv /\ PacketTypes' /\ OwedByHolder'
  /\ UNCHANGED <<format, written, read>>
  /\ state' = "open" => state = "open" /\ WithinOne' /\ AllUnderWay' = AllUnderWay
  => PacketInv'
<1>1. SUFFICES ASSUME PacketInv, PacketTypes', OwedByHolder',
                      format' = format, written' = written, read' = read,
                      state' = "open" =>
                        state = "open" /\ WithinOne' /\ AllUnderWay' = AllUnderWay
               PROVE  PacketInv'
  OBVIOUS
<1>2. ReadAsWritten'
  BY <1>1 DEF PacketInv, ReadAsWritten, PacketStream!Carried
<1>3. ASSUME state' = "open"
      PROVE  (\E off \in [Nat -> Nat] :
                Woven(AllUnderWay, Len(read), Len(written), AllFields, off))'
  <2>1. \E off \in [Nat -> Nat] :
          Woven(AllUnderWay, Len(read), Len(written), AllFields, off)
    BY <1>1, <1>3 DEF PacketInv
  <2>2. AllFields' = AllFields
    BY <1>1, SameFields
  <2> QED
    BY <1>1, <1>3, <2>1, <2>2
<1> QED
  BY <1>1, <1>2, <1>3 DEF PacketInv

LEMMA PacketUnlocks ==
  ASSUME PacketInv, NEW w \in Downlinks, PacketStream!Unlock(w)
  PROVE  PacketInv'
<1>1. /\ lc_mutex = w /\ owed[w] = <<>> /\ lc_mutex' = None
      /\ UNCHANGED <<format, owed, written, wire, bufr, message, read, state>>
  BY DEF PacketStream!Unlock
<1>2. PacketTypes /\ OwedByHolder
  BY DEF PacketInv
<1>3. PacketTypes'
  BY <1>1, <1>2 DEF PacketTypes
<1>4. OwedByHolder'
  BY <1>1, <1>2 DEF OwedByHolder
<1>5. StillOwed' = StillOwed
  <2>1. StillOwed = <<>>
    BY <1>1 DEF StillOwed, Owing
  <2>2. StillOwed' = <<>>
    BY <1>1 DEF StillOwed
  <2> QED
    BY <2>1, <2>2
<1>6. AllUnderWay' = AllUnderWay
  BY <1>1, <1>5 DEF AllUnderWay
<1>7. state = "open" => WithinOne'
  <2>1. AllFields' = AllFields
    BY <1>1, SameFields
  <2> QED
    BY <1>1, <2>1 DEF PacketInv, WithinOne
<1> QED
  BY <1>1, <1>3, <1>4, <1>6, <1>7, SameStream

LEMMA PacketWritesRest ==
  ASSUME PacketInv, NEW w \in Downlinks, PacketStream!WriteRest(w)
  PROVE  PacketInv'
<1>1. /\ owed[w] # <<>> /\ wire' = wire \o owed[w][1]
      /\ owed' = [owed EXCEPT ![w] = Tail(owed[w])]
      /\ UNCHANGED <<format, lc_mutex, written, bufr, message, read, state>>
  BY DEF PacketStream!WriteRest
<1>2. PacketTypes /\ OwedByHolder
  BY DEF PacketInv
<1>3. /\ owed \in [Downlinks -> Seq(Seq(Pieces))] /\ wire \in Seq(Pieces)
      /\ bufr \in Seq(Pieces) /\ message \in Seq(Pieces)
  BY <1>2 DEF PacketTypes
<1>4. lc_mutex = w /\ lc_mutex # None /\ Len(owed[w]) <= 1
  BY <1>1, <1>2, DownlinksAssumption DEF OwedByHolder
<1>5. owed[w] \in Seq(Seq(Pieces))
  BY <1>3
<1> DEFINE s == owed[w]
<1>6. /\ Len(s) = 1 /\ s[1] \in Seq(Pieces) /\ Tail(s) = <<>>
  <2> HIDE DEF s
  <2>1. s # <<>> /\ s \in Seq(Seq(Pieces)) /\ Len(s) <= 1
    BY <1>1, <1>4, <1>5 DEF s
  <2>7. \A t \in Seq(Seq(Pieces)) : t # <<>> => Len(t) \in Nat \ {0}
    BY EmptySeq
  <2>2. Len(s) = 1
    <3>1. Len(s) \in Nat \ {0} /\ Len(s) <= 1
      BY <2>1, <2>7
    <3>2. \A n \in Nat \ {0} : n <= 1 => n = 1
      OBVIOUS
    <3> QED
      BY <3>1, <3>2
  <2>3. 1 \in 1..Len(s)
    BY <2>2
  <2>4. s[1] \in Seq(Pieces)
    BY <2>1, <2>3, ElementOfSeq
  <2>5. Tail(s) \in Seq(Seq(Pieces)) /\ Len(Tail(s)) = Len(s) - 1
    BY <2>1, HeadTailProperties
  <2>6. Tail(s) = <<>>
    <3>1. 1 - 1 \notin Nat \ {0}
      OBVIOUS
    <3> QED
      BY <2>2, <2>5, <2>7, <3>1
  <2> QED
    BY <2>2, <2>4, <2>6
<1>7. owed' = [owed EXCEPT ![w] = <<>>]
  BY <1>1, <1>6
<1>8. wire' \in Seq(Pieces)
  BY <1>1, <1>3, <1>6, JoinedStream
<1>9. owed' \in [Downlinks -> Seq(Seq(Pieces))]
  BY <1>3, <1>7
<1>10. PacketTypes'
  BY <1>1, <1>2, <1>8, <1>9 DEF PacketTypes
<1>11. OwedByHolder'
  <2>1. \A v \in Downlinks : v # w => owed'[v] = owed[v]
    BY <1>3, <1>7
  <2>2. owed'[w] = <<>> /\ Len(<<>>) <= 1
    BY <1>3, <1>7
  <2> QED
    BY <1>1, <1>2, <2>1, <2>2 DEF OwedByHolder
<1>12. StillOwed = s[1] /\ StillOwed' = <<>>
  <2>1. StillOwed = s[1]
    BY <1>1, <1>4 DEF StillOwed, Owing
  <2>2. owed'[w] = <<>>
    BY <1>3, <1>7
  <2>3. StillOwed' = <<>>
    BY <1>1, <1>4, <2>2 DEF StillOwed, Owing
  <2> QED
    BY <2>1, <2>3
<1>13. AllUnderWay' = AllUnderWay
  <2>1. wire' \o <<>> = wire'
    BY <1>8, ConcatEmptySeq
  <2> QED
    BY <1>1, <1>12, <2>1 DEF AllUnderWay
<1>14. state = "open" => WithinOne'
  <2>1. AllFields' = AllFields
    BY <1>1, SameFields
  <2> QED
    BY <1>1, <2>1 DEF PacketInv, WithinOne
<1> QED
  BY <1>1, <1>10, <1>11, <1>13, <1>14, SameStream

LEMMA PacketFills ==
  ASSUME PacketInv, PacketStream!Fill
  PROVE  PacketInv'
<1>1. PICK n \in 1..Len(wire) :
        /\ bufr' = SubSeq(wire, 1, n)
        /\ wire' = SubSeq(wire, n + 1, Len(wire))
  BY DEF PacketStream!Fill
<1>2. /\ state = "open" /\ bufr = <<>>
      /\ UNCHANGED <<format, lc_mutex, owed, written, message, read, state>>
  BY DEF PacketStream!Fill
<1>3. PacketTypes /\ OwedByHolder
  BY DEF PacketInv
<1>4. wire \in Seq(Pieces) /\ message \in Seq(Pieces)
  BY <1>3 DEF PacketTypes
<1>5. bufr' \in Seq(Pieces) /\ wire' \in Seq(Pieces) /\ bufr' \o wire' = wire
  BY <1>1, <1>4, TakenApart
<1>6. PacketTypes'
  BY <1>2, <1>3, <1>5 DEF PacketTypes
<1>7. OwedByHolder'
  BY <1>2, <1>3 DEF OwedByHolder
<1>8. StillOwed' = StillOwed /\ StillOwed \in Seq(Pieces)
  BY <1>2, <1>3, StillOwedIs DEF StillOwed, Owing
<1>9. AllUnderWay' = AllUnderWay
  <2> DEFINE m == message
             b == bufr'
             v == wire'
             o == StillOwed
  <2>0. m \in Seq(Pieces) /\ b \in Seq(Pieces) /\ v \in Seq(Pieces) /\ o \in Seq(Pieces)
    BY <1>4, <1>5, <1>8
  <2>1. AllUnderWay' = (m \o b) \o (v \o o)
    BY <1>2, <1>8 DEF AllUnderWay
  <2>2. AllUnderWay = (m \o <<>>) \o ((b \o v) \o o)
    BY <1>2, <1>5 DEF AllUnderWay
  <2> HIDE DEF m, b, v, o
  <2>3. m \o <<>> = m
    BY <2>0, ConcatEmptySeq
  <2>4. (b \o v) \o o = b \o (v \o o)
    BY <2>0, Regrouped, SMTT(30)
  <2>5. v \o o \in Seq(Pieces)
    BY <2>0, JoinedStream
  <2>6. (m \o b) \o (v \o o) = m \o (b \o (v \o o))
    BY <2>0, <2>5, Regrouped, ZenonT(40)
  <2> QED
    BY <2>1, <2>2, <2>3, <2>4, <2>6
<1>10. WithinOne'
  <2>1. AllFields' = AllFields
    BY <1>2, SameFields
  <2> QED
    BY <1>2, <2>1 DEF PacketInv, WithinOne
<1> QED
  BY <1>2, <1>6, <1>7, <1>9, <1>10, SameStream

(* One piece more is read: ReadField and ReadFull.                         *)
LEMMA PacketTakes ==
  ASSUME PacketInv, state = "open", bufr # <<>>, Begun, Len(message) < Len(InHand),
         PacketStream!Take(1),
         UNCHANGED <<format, lc_mutex, owed, written, wire, read, state>>
  PROVE  PacketInv'
<1>1. /\ message' = message \o SubSeq(bufr, 1, 1)
      /\ bufr' = SubSeq(bufr, 1 + 1, Len(bufr))
  BY DEF PacketStream!Take
<1>2. /\ format' = format /\ lc_mutex' = lc_mutex /\ owed' = owed /\ written' = written
      /\ wire' = wire /\ read' = read /\ state' = state
  OBVIOUS
<1>3. PacketTypes /\ OwedByHolder
  BY DEF PacketInv
<1>4. wire \in Seq(Pieces) /\ message \in Seq(Pieces) /\ bufr \in Seq(Pieces)
  BY <1>3 DEF PacketTypes
<1>5. 1 \in 1..Len(bufr)
  <2>1. Len(bufr) \in Nat \ {0}
    BY <1>4, EmptySeq
  <2> QED
    BY <2>1
<1>6. /\ SubSeq(bufr, 1, 1) \in Seq(Pieces) /\ Len(SubSeq(bufr, 1, 1)) = 1
      /\ bufr' \in Seq(Pieces) /\ SubSeq(bufr, 1, 1) \o bufr' = bufr
  BY <1>1, <1>4, <1>5, TakenApart
<1>7. /\ message' \in Seq(Pieces) /\ Len(message') = Len(message) + 1
      /\ Len(message) \in Nat
  BY <1>1, <1>4, <1>6, JoinedStream
<1>8. PacketTypes'
  BY <1>2, <1>3, <1>4, <1>6, <1>7 DEF PacketTypes
<1>9. OwedByHolder'
  BY <1>2, <1>3 DEF OwedByHolder
<1>10. StillOwed' = StillOwed /\ StillOwed \in Seq(Pieces)
  BY <1>2, <1>3, StillOwedIs DEF StillOwed, Owing
<1>11. AllUnderWay' = AllUnderWay
  <2> DEFINE m == message
             f == SubSeq(bufr, 1, 1)
             b == bufr'
             o == wire \o StillOwed
  <2>1. m \in Seq(Pieces) /\ f \in Seq(Pieces) /\ b \in Seq(Pieces)
    BY <1>4, <1>6
  <2>2. AllUnderWay' = ((m \o f) \o b) \o o
    BY <1>1, <1>2, <1>10 DEF AllUnderWay
  <2>3. AllUnderWay = (m \o (f \o b)) \o o
    BY <1>6 DEF AllUnderWay
  <2> HIDE DEF m, f, b, o
  <2>4. (m \o f) \o b = m \o (f \o b)
    BY <2>1, Regrouped
  <2> QED
    BY <2>2, <2>3, <2>4
<1>12. WithinOne'
  <2>1. AllFields' = AllFields
    BY <1>2, SameFields
  <2>2. AllFields[Len(read) + 1] = InHand
    <3>1. Len(read) + 1 \in 1..Len(written)
      BY DEF Begun
    <3> QED
      BY <1>3, <3>1, AllFieldsAre DEF InHand
  <2>3. Len(InHand) \in Nat /\ Len(read) < Len(written) /\ Len(message) < Len(InHand)
    BY DEF Begun
  <2>4. Len(message') <= Len(InHand)
    BY <1>7, <2>3
  <2> QED
    BY <1>2, <2>1, <2>2, <2>3, <2>4 DEF WithinOne
<1> QED
  BY <1>2, <1>8, <1>9, <1>11, <1>12, SameStream

LEMMA PacketBreaks ==
  ASSUME PacketInv, state' = "broken",
         UNCHANGED <<format, lc_mutex, owed, written, wire, bufr, message, read>>
  PROVE  PacketInv'
<1>1. PacketTypes'
  BY DEF PacketInv, PacketTypes
<1>2. OwedByHolder'
  BY DEF PacketInv, OwedByHolder
<1> QED
  BY <1>1, <1>2, SameStream

LEMMA HeadNotRead ==
  PacketTypes /\ Begun =>
    /\ ~PacketStream!HeadRead => Len(message) < Len(HeadInHand)
    /\ PacketStream!HeadRead => Len(message) >= Len(HeadInHand) /\ message # <<>>
    /\ Len(HeadInHand) \in Nat /\ Len(HeadInHand) >= 1
    /\ Len(InHand) = Len(HeadInHand) + written[Len(read) + 1].size
    /\ \A k \in 1..Len(HeadInHand) : InHand[k] = HeadInHand[k]
    /\ \A k \in 1..written[Len(read) + 1].size : InHand[Len(HeadInHand) + k] = "data"
    /\ written[Len(read) + 1].size \in Nat
<1>1. SUFFICES ASSUME PacketTypes, Begun
      PROVE  /\ ~PacketStream!HeadRead => Len(message) < Len(HeadInHand)
             /\ PacketStream!HeadRead => Len(message) >= Len(HeadInHand) /\ message # <<>>
             /\ Len(HeadInHand) \in Nat /\ Len(HeadInHand) >= 1
             /\ Len(InHand) = Len(HeadInHand) + written[Len(read) + 1].size
             /\ \A k \in 1..Len(HeadInHand) : InHand[k] = HeadInHand[k]
             /\ \A k \in 1..written[Len(read) + 1].size : InHand[Len(HeadInHand) + k] = "data"
             /\ written[Len(read) + 1].size \in Nat
  OBVIOUS
<1>2. format \in {"vless0", "vless1", "vless1_multi", "trojan", "simplesocks"}
  BY <1>1 DEF PacketTypes
<1>3. /\ Len(message) \in Nat /\ Len(read) + 1 \in Nat
      /\ written[Len(read) + 1] \in PacketStream!Datagrams
  BY <1>1 DEF Begun
<1>4. /\ Len(HeadInHand) \in Nat /\ Len(HeadInHand) >= 1
      /\ Len(InHand) = Len(HeadInHand) + written[Len(read) + 1].size
      /\ \A k \in 1..Len(HeadInHand) : InHand[k] = HeadInHand[k]
      /\ \A k \in 1..written[Len(read) + 1].size : InHand[Len(HeadInHand) + k] = "data"
      /\ written[Len(read) + 1].size \in Nat
  BY <1>2, <1>3, FieldsAre, HeadsAre DEF InHand, HeadInHand
<1>5. /\ Len(message) < Len(HeadInHand) =>
           HeadInHand[Len(message) + 1] \in PacketStream!NextFields
      /\ Len(message) >= Len(HeadInHand) => PacketStream!NextFields = {} /\ message # <<>>
  BY <1>1, WhatComesNext
<1>6. Len(message) < Len(HeadInHand) \/ Len(message) >= Len(HeadInHand)
  BY <1>3, <1>4
<1>7. Len(message) >= Len(HeadInHand) => PacketStream!HeadRead
  BY <1>5 DEF PacketStream!HeadRead
<1>8. Len(message) < Len(HeadInHand) => ~PacketStream!HeadRead
  BY <1>5 DEF PacketStream!HeadRead
<1>9. PacketStream!HeadRead => message # <<>>
  BY DEF PacketStream!HeadRead
<1> QED
  BY <1>4, <1>6, <1>7, <1>8, <1>9

LEMMA FirstPiece ==
  PacketTypes /\ Begun /\ message # <<>> =>
    message[1] = [of |-> Len(read) + 1, field |-> InHand[1]]
<1>1. SUFFICES ASSUME PacketTypes, Begun, message # <<>>
               PROVE  message[1] = [of |-> Len(read) + 1, field |-> InHand[1]]
  OBVIOUS
<1>2. 1 \in 1..Len(message)
  <2>1. Len(message) \in Nat /\ Len(message) >= 1
    BY <1>1, UnderWayIs
  <2> QED
    BY <2>1
<1> QED
  BY <1>1, <1>2 DEF Begun

LEMMA PacketReadsField ==
  ASSUME PacketInv, PacketStream!ReadField
  PROVE  PacketInv'
<1>1. /\ state = "open" /\ bufr # <<>> /\ ~PacketStream!HeadRead
      /\ UNCHANGED <<format, lc_mutex, owed, written, wire, read>>
  BY DEF PacketStream!ReadField
<1>2. PacketTypes
  BY DEF PacketInv
<1>3. Begun
  BY <1>1, HasBegun
<1>4. /\ Len(message) < Len(HeadInHand) /\ Len(HeadInHand) \in Nat
      /\ Len(InHand) = Len(HeadInHand) + written[Len(read) + 1].size
      /\ \A k \in 1..Len(HeadInHand) : InHand[k] = HeadInHand[k]
      /\ written[Len(read) + 1].size \in Nat
  BY <1>1, <1>2, <1>3, HeadNotRead
<1>5. Len(message) \in Nat
  BY <1>3 DEF Begun
<1>6. Len(message) < Len(InHand)
  BY <1>4, <1>5
<1>7. bufr[1] = [of |-> Len(read) + 1, field |-> InHand[Len(message) + 1]]
  BY <1>1, <1>3, <1>6 DEF Begun
<1>8. InHand[Len(message) + 1] = HeadInHand[Len(message) + 1]
  <2>1. Len(message) + 1 \in 1..Len(HeadInHand)
    BY <1>4, <1>5
  <2> QED
    BY <1>4, <2>1
<1>9. bufr[1].field \in PacketStream!NextFields
  <2>1. HeadInHand[Len(message) + 1] \in PacketStream!NextFields
    BY <1>2, <1>3, <1>4, WhatComesNext
  <2>2. bufr[1].field = InHand[Len(message) + 1]
    BY <1>7
  <2> QED
    BY <1>8, <2>1, <2>2
<1>10. message # <<>> => message[1].of = bufr[1].of
  <2>1. bufr[1].of = Len(read) + 1
    BY <1>7
  <2>2. message # <<>> => message[1] = [of |-> Len(read) + 1, field |-> InHand[1]]
    BY <1>2, <1>3, FirstPiece
  <2> QED
    BY <2>1, <2>2
<1>11. \/ state' = "broken" /\ UNCHANGED <<message, bufr>>
       \/ PacketStream!Take(1) /\ UNCHANGED state
  BY <1>9, <1>10 DEF PacketStream!ReadField
<1>12. CASE state' = "broken" /\ UNCHANGED <<message, bufr>>
  BY <1>1, <1>12, PacketBreaks
<1>13. CASE PacketStream!Take(1) /\ UNCHANGED state
  BY <1>1, <1>3, <1>6, <1>13, PacketTakes
<1> QED
  BY <1>11, <1>12, <1>13

LEMMA PacketReadsFull ==
  ASSUME PacketInv, PacketStream!ReadFull
  PROVE  PacketInv'
<1>1. /\ state = "open" /\ bufr # <<>> /\ PacketStream!HeadRead
      /\ PacketStream!DataRead < PacketStream!SizeRead
      /\ UNCHANGED <<format, lc_mutex, owed, written, wire, read>>
  BY DEF PacketStream!ReadFull
<1>2. PacketTypes
  BY DEF PacketInv
<1>3. Begun
  BY <1>1, HasBegun
<1> DEFINE d == written[Len(read) + 1]
<1>4. /\ Len(message) >= Len(HeadInHand) /\ message # <<>> /\ Len(HeadInHand) \in Nat
      /\ Len(InHand) = Len(HeadInHand) + d.size
      /\ \A k \in 1..d.size : InHand[Len(HeadInHand) + k] = "data"
      /\ d.size \in Nat
  BY <1>1, <1>2, <1>3, HeadNotRead
<1>5. Len(message) \in Nat
  BY <1>3 DEF Begun
<1>6. message[1].of = Len(read) + 1
  <2>1. message[1] = [of |-> Len(read) + 1, field |-> InHand[1]]
    BY <1>2, <1>3, <1>4, FirstPiece
  <2> QED
    BY <2>1
<1>7. PacketStream!SizeRead = d.size /\ PacketStream!DataRead = Len(message) - Len(HeadInHand)
  <2>1. read \in Seq([from : PacketStream!Addrs, size : Nat])
    BY <1>2 DEF PacketTypes
  <2>2. PacketStream!HeadOf(d, read = <<>>) = HeadInHand
    BY <2>1, HeadsHere DEF HeadInHand
  <2> QED
    BY <1>6, <2>2 DEF PacketStream!SizeRead, PacketStream!DataRead
<1>8. \E k \in 1..d.size : Len(message) + 1 = Len(HeadInHand) + k
  <2>1. \A n, h, z \in Nat :
          n >= h /\ n - h < z => (n - h) + 1 \in 1..z /\ n + 1 = h + ((n - h) + 1)
    OBVIOUS
  <2>2. /\ (Len(message) - Len(HeadInHand)) + 1 \in 1..d.size
        /\ Len(message) + 1 = Len(HeadInHand) + ((Len(message) - Len(HeadInHand)) + 1)
    BY <1>1, <1>4, <1>5, <1>7, <2>1
  <2> QED
    BY <2>2
<1>9. InHand[Len(message) + 1] = "data"
  BY <1>4, <1>8
<1>10. Len(message) < Len(InHand)
  BY <1>1, <1>4, <1>5, <1>7
<1>11. bufr[1] = [of |-> Len(read) + 1, field |-> InHand[Len(message) + 1]]
  BY <1>1, <1>3, <1>10 DEF Begun
<1>12. bufr[1].field = "data" /\ bufr[1].of = message[1].of
  BY <1>6, <1>9, <1>11
<1>13. PacketStream!Take(1) /\ UNCHANGED state
  BY <1>12 DEF PacketStream!ReadFull
<1> QED
  BY <1>1, <1>3, <1>10, <1>13, PacketTakes

LEMMA PlacesChanged ==
  ASSUME NEW off \in [Nat -> Nat], NEW i \in Nat, NEW m \in Nat, NEW n \in Nat
  PROVE  [off EXCEPT ![i] = m + n] \in [Nat -> Nat]
OBVIOUS

LEMMA PacketWrites ==
  ASSUME PacketInv, NEW w \in Downlinks, PacketStream!WriteMsg(w)
  PROVE  PacketInv'
<1> DEFINE c == Len(written)
           r == Len(read)
<1>1. PICK d \in PacketStream!Datagrams :
        /\ written' = Append(written, d)
        /\ owed' = [owed EXCEPT ![w] = Tail(PacketStream!Writes(d, c + 1))]
        /\ wire' = wire \o PacketStream!Writes(d, c + 1)[1]
  BY DEF PacketStream!WriteMsg
<1>2. /\ lc_mutex = None /\ lc_mutex' = w
      /\ format' = format /\ bufr' = bufr /\ message' = message /\ read' = read
      /\ state' = state
  BY DEF PacketStream!WriteMsg, PacketStream!Lock
<1>3. PacketTypes /\ OwedByHolder /\ ReadAsWritten
  BY DEF PacketInv
<1>4. /\ format \in {"vless0", "vless1", "vless1_multi", "trojan", "simplesocks"}
      /\ owed \in [Downlinks -> Seq(Seq(Pieces))]
      /\ written \in Seq(PacketStream!Datagrams)
      /\ wire \in Seq(Pieces) /\ bufr \in Seq(Pieces) /\ message \in Seq(Pieces)
  BY <1>3 DEF PacketTypes
<1>5. c \in Nat /\ c + 1 \in Nat
  BY <1>4
<1> DEFINE f == PacketStream!Writes(d, c + 1)[1]
           o == Tail(PacketStream!Writes(d, c + 1))
           g == Fields(d, c + 1)
           t == PacketStream!Tokens(c + 1, g)
<1>6. /\ f \in Seq(Pieces) /\ o \in Seq(Seq(Pieces)) /\ Len(o) <= 1
      /\ Owing(o) \in Seq(Pieces) /\ f \o Owing(o) = t
  BY <1>4, <1>5, WritesAre
<1>7. g \in Seq(FieldNames)
  BY <1>4, <1>5, FieldsAre
<1>8. /\ written' \in Seq(PacketStream!Datagrams) /\ Len(written') = c + 1
      /\ \A i \in 1..c : written'[i] = written[i]
      /\ written'[c + 1] = d
  BY <1>1, <1>4, AppendProperties
<1>9. owed' = [owed EXCEPT ![w] = o] /\ wire' = wire \o f
  BY <1>1
<1>10. AllFields' = [i \in 1..Len(written') |-> Fields(written'[i], i)]
  BY <1>2 DEF AllFields, Fields, HeadFields, PacketStream!HeadOf
<1> HIDE DEF f, o, g, t
<1>11. wire' \in Seq(Pieces)
  BY <1>4, <1>6, <1>9, JoinedStream
<1>12. PacketTypes'
  <2>1. owed' \in [Downlinks -> Seq(Seq(Pieces))]
    BY <1>4, <1>6, <1>9
  <2> QED
    BY <1>2, <1>3, <1>8, <1>11, <2>1 DEF PacketTypes
<1>13. OwedByHolder'
  <2>1. owed'[w] = o
    BY <1>4, <1>9
  <2>2. \A v \in Downlinks : v # w => owed'[v] = owed[v]
    BY <1>4, <1>9
  <2>3. \A v \in Downlinks : Len(owed[v]) <= 1 /\ owed[v] = <<>>
    BY <1>2, <1>3, DownlinksAssumption DEF OwedByHolder
  <2> QED
    BY <1>2, <1>6, <2>1, <2>2, <2>3 DEF OwedByHolder
<1>14. ReadAsWritten'
  <2>1. r \in Nat /\ r <= c
    <3>1. read \in Seq([from : PacketStream!Addrs, size : Nat])
      BY <1>3 DEF PacketTypes
    <3> QED
      BY <1>3, <3>1, LenProperties DEF ReadAsWritten
  <2>2. r <= c + 1 /\ \A i \in 1..r : i \in 1..c
    BY <1>5, <2>1
  <2> HIDE DEF c
  <2>3. \A i \in 1..r : read[i] = PacketStream!Carried(written'[i])
    BY <1>3, <1>8, <2>2 DEF ReadAsWritten
  <2>4. \A e : PacketStream!Carried(e)' = PacketStream!Carried(e')
    BY <1>2 DEF PacketStream!Carried
  <2> QED
    BY <1>2, <1>8, <2>2, <2>3 DEF ReadAsWritten, PacketStream!Carried
<1>15. ASSUME state = "open"
       PROVE  /\ WithinOne'
              /\ (\E off \in [Nat -> Nat] :
                    Woven(AllUnderWay, Len(read), Len(written), AllFields, off))'
  <2>1. WithinOne
    BY <1>15 DEF PacketInv
  <2>2. PICK off \in [Nat -> Nat] : Woven(AllUnderWay, r, c, AllFields, off)
    BY <1>15 DEF PacketInv
  <2>3. /\ AllUnderWay \in Seq(Pieces)
        /\ \A i \in 1..c : AllFields[i] = Fields(written[i], i) /\ Len(AllFields[i]) \in Nat
    BY <1>3, UnderWayIs, AllFieldsAre
  <2>4. /\ \A i \in 1..c : AllFields'[i] = AllFields[i]
        /\ AllFields'[c + 1] = g
    <3>1. \A i \in 1..c : i \in 1..c + 1
      BY <1>5
    <3>2. c + 1 \in 1..c + 1
      BY <1>5
    <3>3. \A i \in 1..c : AllFields'[i] = Fields(written[i], i)
      BY <1>8, <1>10, <3>1
    <3>4. AllFields'[c + 1] = Fields(d, c + 1)
      BY <1>8, <1>10, <3>2
    <3> QED
      BY <2>3, <3>3, <3>4 DEF g
  <2>5. AllUnderWay' = AllUnderWay \o t
    <3> DEFINE a == message \o bufr
               v == wire
               q == Owing(o)
    <3>1. StillOwed = <<>> /\ StillOwed' = q
      <4>1. StillOwed = <<>>
        BY <1>2 DEF StillOwed
      <4>2. owed'[w] = o
        BY <1>4, <1>9
      <4>3. lc_mutex' # None /\ owed'[lc_mutex'] = o
        BY <1>2, <4>2, DownlinksAssumption
      <4>4. StillOwed' = q
        BY <4>3 DEF StillOwed, Owing
      <4> QED
        BY <4>1, <4>4
    <3>2. a \in Seq(Pieces) /\ v \in Seq(Pieces) /\ q \in Seq(Pieces) /\ f \in Seq(Pieces)
          /\ f \o q = t
      BY <1>4, <1>6, JoinedStream
    <3>3. AllUnderWay = a \o (v \o <<>>) /\ AllUnderWay' = a \o ((v \o f) \o q)
      BY <1>2, <1>9, <3>1 DEF AllUnderWay
    <3> HIDE DEF a, v, q
    <3>4. v \o <<>> = v
      BY <3>2, ConcatEmptySeq
    <3>5. (v \o f) \o q = v \o (f \o q)
      BY <3>2, Regrouped
    <3>6. f \o q \in Seq(Pieces)
      BY <3>2, JoinedStream
    <3>7. (a \o v) \o (f \o q) = a \o (v \o (f \o q))
      BY <3>2, <3>6, Regrouped, ZenonT(40)
    <3> QED
      BY <3>2, <3>3, <3>4, <3>5, <3>7
  <2> DEFINE of2 == [off EXCEPT ![c + 1] = off[c] + Len(g)]
             x == AllUnderWay
             fs == AllFields
             es == AllFields'
  <2>6. Woven(x \o t, r, c + 1, es, of2)
    <3>1. /\ Woven(x, r, c, fs, off) /\ x \in Seq(Pieces) /\ g \in Seq(FieldNames)
          /\ \A i \in 1..c : Len(fs[i]) \in Nat /\ es[i] = fs[i]
          /\ es[c + 1] = g
      BY <1>7, <2>2, <2>3, <2>4
    <3> HIDE DEF x, fs, es, c, r
    <3>2. Woven(x \o PacketStream!Tokens(c + 1, g), r, c + 1, es,
                [off EXCEPT ![c + 1] = off[c] + Len(g)])
      BY <3>1, WovenExtended
    <3> QED
      BY <3>2 DEF t
  <2>7. of2 \in [Nat -> Nat]
    <3>1. Len(g) \in Nat
      BY <1>7, LenProperties
    <3>2. off[c] \in Nat
      BY <1>5
    <3>3. c + 1 \in Nat
      BY <1>5
    <3> HIDE DEF c, g
    <3> QED
      BY <3>1, <3>2, <3>3, PlacesChanged
  <2>8. Woven(AllUnderWay', Len(read'), Len(written'), AllFields', of2)
    BY <1>2, <1>8, <2>5, <2>6
  <2>9. WithinOne'
    <3>1. ASSUME message # <<>>
          PROVE  r < c + 1 /\ Len(message) <= Len(AllFields'[r + 1])
      <4>1. r < c /\ Len(message) <= Len(AllFields[r + 1])
        BY <2>1, <3>1 DEF WithinOne
      <4>2. r \in Nat
        BY <2>2 DEF Woven
      <4>3. r < c + 1 /\ r + 1 \in 1..c
        <5>1. \A i, k \in Nat : i < k => i < k + 1 /\ i + 1 \in 1..k
          OBVIOUS
        <5>2. c \in Nat /\ r \in Nat /\ r < c
          BY <1>5, <4>1, <4>2
        <5> HIDE DEF c, r
        <5> QED
          BY <5>1, <5>2
      <4> QED
        BY <2>4, <4>1, <4>3
    <3> QED
      BY <1>2, <1>8, <3>1 DEF WithinOne
  <2> HIDE DEF of2
  <2> QED
    BY <2>7, <2>8, <2>9
<1> QED
  BY <1>2, <1>12, <1>13, <1>14, <1>15 DEF PacketInv

LEMMA PacketReads ==
  ASSUME PacketInv, PacketStream!ReadMsg
  PROVE  PacketInv'
<1> DEFINE c == Len(written)
           r == Len(read)
           n == Len(message)
           d == written[r + 1]
           e == [from |-> PacketStream!From(message), size |-> PacketStream!DataRead]
<1>1. /\ state = "open" /\ PacketStream!HeadRead
      /\ PacketStream!DataRead = PacketStream!SizeRead
      /\ read' = Append(read, e)
      /\ message' = <<>>
      /\ format' = format /\ lc_mutex' = lc_mutex /\ owed' = owed /\ written' = written
      /\ wire' = wire /\ bufr' = bufr /\ state' = state
  BY DEF PacketStream!ReadMsg
<1>2. PacketTypes /\ OwedByHolder /\ ReadAsWritten
  BY DEF PacketInv
<1>3. message # <<>>
  BY <1>1 DEF PacketStream!HeadRead
<1>4. Begun
  BY <1>1, <1>3, HasBegun
<1>5. /\ n >= Len(HeadInHand) /\ Len(HeadInHand) \in Nat /\ Len(HeadInHand) >= 1
      /\ Len(InHand) = Len(HeadInHand) + d.size
      /\ \A k \in 1..Len(HeadInHand) : InHand[k] = HeadInHand[k]
      /\ \A k \in 1..d.size : InHand[Len(HeadInHand) + k] = "data"
      /\ d.size \in Nat
  BY <1>1, <1>2, <1>4, HeadNotRead
<1>6. /\ n \in Nat /\ r \in Nat /\ c \in Nat /\ r < c /\ r + 1 \in 1..c /\ r + 1 \in Nat
      /\ d \in PacketStream!Datagrams
      /\ \A k \in 1..n : message[k] = [of |-> r + 1, field |-> InHand[k]]
  BY <1>4 DEF Begun
<1>7. message[1] = [of |-> r + 1, field |-> InHand[1]]
  BY <1>2, <1>3, <1>4, FirstPiece
<1>8. PacketStream!SizeRead = d.size /\ PacketStream!DataRead = n - Len(HeadInHand)
  <2>1. read \in Seq([from : PacketStream!Addrs, size : Nat])
    BY <1>2 DEF PacketTypes
  <2>2. PacketStream!HeadOf(d, read = <<>>) = HeadInHand
    BY <2>1, HeadsHere DEF HeadInHand
  <2>3. message[1].of = r + 1
    BY <1>7
  <2> QED
    BY <2>2, <2>3 DEF PacketStream!SizeRead, PacketStream!DataRead
<1>9. n = Len(InHand)
  <2>1. \A a, b, z \in Nat : a - b = z => a = b + z
    OBVIOUS
  <2> QED
    BY <1>1, <1>5, <1>6, <1>8, <2>1
<1>10. /\ format \in {"vless0", "vless1", "vless1_multi", "trojan", "simplesocks"}
       /\ read \in Seq([from : PacketStream!Addrs, size : Nat])
       /\ wire \in Seq(Pieces) /\ bufr \in Seq(Pieces) /\ message \in Seq(Pieces)
  BY <1>2 DEF PacketTypes
<1>11. (\E k \in 1..n : message[k].field = "addr")
         <=> \E k \in 1..Len(HeadInHand) : HeadInHand[k] = "addr"
  <2>1. ASSUME NEW k \in 1..n, message[k].field = "addr"
        PROVE  \E j \in 1..Len(HeadInHand) : HeadInHand[j] = "addr"
    <3>1. InHand[k] = "addr"
      <4>1. message[k] = [of |-> r + 1, field |-> InHand[k]]
        BY <1>6
      <4> QED
        BY <2>1, <4>1
    <3>2. k \in 1..Len(HeadInHand)
      <4>1. CASE k \notin 1..Len(HeadInHand)
        <5>1. \A h, z \in Nat : \A l \in 1..h + z : l \notin 1..h =>
                l - h \in 1..z /\ h + (l - h) = l
          OBVIOUS
        <5>2. k \in 1..Len(HeadInHand) + d.size
          BY <1>5, <1>9
        <5>3. k - Len(HeadInHand) \in 1..d.size /\ Len(HeadInHand) + (k - Len(HeadInHand)) = k
          BY <1>5, <4>1, <5>1, <5>2
        <5>4. InHand[k] = "data"
          BY <1>5, <5>3
        <5>5. "data" # "addr"
          OBVIOUS
        <5> QED
          BY <3>1, <5>4, <5>5
      <4> QED
        BY <4>1
    <3> QED
      BY <1>5, <3>1, <3>2
  <2>2. ASSUME NEW k \in 1..Len(HeadInHand), HeadInHand[k] = "addr"
        PROVE  \E j \in 1..n : message[j].field = "addr"
    <3>1. k \in 1..n
      BY <1>5, <1>6
    <3>2. message[k] = [of |-> r + 1, field |-> InHand[k]]
      BY <1>6, <3>1
    <3>3. InHand[k] = "addr"
      BY <1>5, <2>2
    <3>4. message[k].field = "addr"
      BY <3>2, <3>3
    <3> QED
      BY <3>1, <3>4
  <2> QED
    BY <2>1, <2>2
<1>12. /\ (\E k \in 1..Len(HeadInHand) : HeadInHand[k] = "addr")
            \/ (/\ format = "vless0" \/ d.from = "target"
                /\ \A k \in 1..Len(HeadInHand) : HeadInHand[k] # "addr")
       /\ (\E k \in 1..Len(HeadInHand) : HeadInHand[k] = "addr") => format # "vless0"
  BY <1>6, <1>10, HeadsAre DEF HeadInHand
<1>13. e = [from |-> PacketStream!From(message), size |-> d.size]
  BY <1>1, <1>8
<1>14. d = [from |-> d.from, size |-> d.size] /\ d.from \in PacketStream!Addrs
  BY <1>6 DEF PacketStream!Datagrams
<1>15. e = PacketStream!Carried(d) /\ e \in [from : PacketStream!Addrs, size : Nat]
  <2>1. message[1].of = r + 1
    BY <1>7
  <2>2. CASE \E k \in 1..Len(HeadInHand) : HeadInHand[k] = "addr"
    <3>1. \E k \in 1..n : message[k].field = "addr"
      BY <1>11, <2>2
    <3>2. PacketStream!From(message) = d.from
      BY <2>1, <3>1 DEF PacketStream!From
    <3>3. format # "vless0"
      BY <1>12, <2>2
    <3>4. PacketStream!Carried(d) = d
      BY <3>3 DEF PacketStream!Carried
    <3> HIDE DEF d, e
    <3> QED
      BY <1>5, <1>13, <1>14, <3>2, <3>4
  <2>3. CASE ~\E k \in 1..Len(HeadInHand) : HeadInHand[k] = "addr"
    <3>1. ~\E k \in 1..n : message[k].field = "addr"
      BY <1>11, <2>3
    <3>2. PacketStream!From(message) = "target" /\ "target" \in PacketStream!Addrs
      BY <3>1 DEF PacketStream!From, PacketStream!Addrs
    <3>3. format = "vless0" \/ d.from = "target"
      BY <1>12, <2>3
    <3>4. PacketStream!Carried(d) = [from |-> "target", size |-> d.size]
      <4>1. CASE format = "vless0"
        <5>1. PacketStream!Carried(d) = [d EXCEPT !.from = "target"]
          BY <4>1 DEF PacketStream!Carried
        <5> HIDE DEF d
        <5> QED
          BY <1>14, <5>1
      <4>2. CASE format # "vless0"
        <5>1. PacketStream!Carried(d) = d
          BY <4>2 DEF PacketStream!Carried
        <5> HIDE DEF d
        <5> QED
          BY <1>14, <3>3, <4>2, <5>1
      <4> QED
        BY <4>1, <4>2
    <3> HIDE DEF d, e
    <3> QED
      BY <1>5, <1>13, <3>2, <3>4
  <2> QED
    BY <2>2, <2>3
<1> HIDE DEF e
<1>16. /\ read' \in Seq([from : PacketStream!Addrs, size : Nat]) /\ Len(read') = r + 1
       /\ \A i \in 1..r : read'[i] = read[i]
       /\ read'[r + 1] = e
  BY <1>1, <1>10, <1>15, AppendProperties
<1>17. PacketTypes'
  <2>1. <<>> \in Seq(Pieces)
    OBVIOUS
  <2> QED
    BY <1>1, <1>2, <1>16, <2>1 DEF PacketTypes
<1>18. OwedByHolder'
  BY <1>1, <1>2 DEF OwedByHolder
<1>19. ReadAsWritten'
  <2>1. r + 1 <= c
    BY <1>6
  <2>2. ASSUME NEW i \in 1..r + 1 PROVE read'[i] = PacketStream!Carried(written[i])
    <3>1. CASE i = r + 1
      BY <1>15, <1>16, <3>1
    <3>2. CASE i # r + 1
      <4>1. i \in 1..r
        BY <1>6, <3>2
      <4> QED
        BY <1>2, <1>16, <4>1 DEF ReadAsWritten
    <3> QED
      BY <3>1, <3>2
  <2> QED
    BY <1>1, <1>16, <2>1, <2>2 DEF ReadAsWritten, PacketStream!Carried
<1>20. WithinOne'
  BY <1>1 DEF WithinOne
<1>21. (\E off \in [Nat -> Nat] :
          Woven(AllUnderWay, Len(read), Len(written), AllFields, off))'
  <2>1. PICK off \in [Nat -> Nat] : Woven(AllUnderWay, r, c, AllFields, off)
    BY <1>1 DEF PacketInv
  <2> DEFINE m == message
             y == bufr \o (wire \o StillOwed)
  <2>2. wire \o StillOwed \in Seq(Pieces)
    BY <1>2, <1>10, StillOwedIs, JoinedStream
  <2>3. y \in Seq(Pieces)
    BY <1>10, <2>2, JoinedStream
  <2>4. AllUnderWay = m \o y
    BY <1>10, <2>2, Regrouped DEF AllUnderWay
  <2>5. AllUnderWay' = y
    <3>1. <<>> \o bufr = bufr
      BY <1>10, ConcatEmptySeq
    <3>2. StillOwed' = StillOwed
      BY <1>1 DEF StillOwed, Owing
    <3> QED
      BY <1>1, <3>1, <3>2 DEF AllUnderWay
  <2>6. \A i \in 1..c : AllFields[i] = Fields(written[i], i) /\ Len(AllFields[i]) \in Nat
    BY <1>2, AllFieldsAre
  <2>7. Len(m) = Len(AllFields[r + 1])
    BY <1>6, <1>9, <2>6 DEF InHand
  <2>8. AllFields' = AllFields
    BY <1>1, SameFields
  <2> DEFINE fs == AllFields
  <2>9. /\ Woven(m \o y, r, c, fs, off) /\ m \in Seq(Pieces) /\ y \in Seq(Pieces)
        /\ r < c /\ Len(m) = Len(fs[r + 1]) /\ \A i \in 1..c : Len(fs[i]) \in Nat
    BY <1>6, <1>10, <2>1, <2>3, <2>4, <2>6, <2>7
  <2> HIDE DEF m, y, fs
  <2>10. Woven(y, r + 1, c, fs, off)
    <3> HIDE DEF r, c
    <3> QED
      BY <2>9, WovenRest
  <2>11. Woven(AllUnderWay', Len(read'), Len(written'), AllFields', off)
    BY <1>1, <1>16, <2>5, <2>8, <2>10 DEF fs
  <2> QED
    BY <2>11
<1> QED
  BY <1>17, <1>18, <1>19, <1>20, <1>21 DEF PacketInv

LEMMA PacketStep == PacketInv /\ PacketStream!Next => PacketInv'
BY PacketWrites, PacketWritesRest, PacketUnlocks, PacketFills, PacketReadsField,
   PacketReadsFull, PacketReads DEF PacketStream!Next

LEMMA PacketsKept == PacketInv => PacketStream!DatagramsKept
BY DEF PacketInv, PacketTypes, ReadAsWritten, PacketStream!DatagramsKept

-----------------------------------------------------------------------------
(* Socks5UDP.  A datagram under way, or read, is that of the request or    *)
(* reply whose number it has; the client is supposed to be where the       *)
(* request that was read last came from.                                   *)
Bytes ==
  {"rsv", "frag", "atyp_ip4", "atyp_ip6", "atyp_name", "len", "zero", "a1", "a2", "a3",
   "p1", "p2", "data"}

SocksRequests == [source : Sources, addr : Socks5UDP!Targets, size : Nat]
SocksReplies == [addr : Socks5UDP!Remotes, size : Nat, asker : Sources]

SocksTypes ==
  /\ requests \in Seq(SocksRequests)
  /\ replies \in Seq(SocksReplies)
  /\ served \in Seq([of : Nat, msg : {Socks5UDP!Meant(r) : r \in SocksRequests}])
  /\ answers \in Seq([of : Nat, at : Sources,
                      msg : {Socks5UDP!Parsed(Socks5UDP!ReplyBytes(r)) : r \in SocksReplies}])

ServedOnce(i) ==
  /\ served[i].of \in 1..Len(requests)
  /\ served[i].msg = Socks5UDP!Meant(requests[served[i].of])

Answered(i) ==
  /\ answers[i].of \in 1..Len(replies)
  /\ answers[i].at = replies[answers[i].of].asker
  /\ answers[i].msg = Socks5UDP!Parsed(Socks5UDP!ReplyBytes(replies[answers[i].of]))

SocksInv ==
  /\ SocksTypes
  /\ association # "established" => requests = <<>>
  /\ \A d \in toServer :
       /\ d.of \in 1..Len(requests)
       /\ d.from = requests[d.of].source
       /\ d.bytes = Socks5UDP!RequestBytes(requests[d.of])
  /\ \A i \in 1..Len(served) : ServedOnce(i)
  /\ served # <<>> => supposed = requests[served[Len(served)].of].source
  /\ \A d \in toClient :
       /\ d.of \in 1..Len(replies)
       /\ d.to = replies[d.of].asker
       /\ d.bytes = Socks5UDP!ReplyBytes(replies[d.of])
  /\ \A i \in 1..Len(answers) : Answered(i)

-----------------------------------------------------------------------------
(* TlsLazy.  As long as the receiver has not met the command, what has not *)
(* come out yet (in rawInput and in net) is: c whole records of the        *)
(* stream, the record of the command when it was sent, then bare tokens;   *)
(* e[j] is the last token of the j-th record, e[0] the last that came out. *)
(* What is still to be written of a packet would be one more record.  As   *)
(* long as no packet was cut, the two sniffers count the same: the         *)
(* receiver will say of each of these records what the sender said, so it  *)
(* still sniffs when it meets the command.  And when the last read of the  *)
(* raw connection begins with that record, it is all that the TLS of the   *)
(* receiver has left.                                                      *)
Chunk(a, b) == [i \in 1..(b - a) |-> a + i]
Token(kind, p) == [part |-> kind, carries |-> p]
Tokens == [part : {"head", "tail", "bare"}, carries : Seq(Nat)]

Verdict(d, a, b, n) ==
  CASE n > MaxPackets -> "plain"
    [] n = 0 /\ n <= MaxPackets ->
         IF d = "down" /\ a = 0 /\ b > 1 THEN "sniffing" ELSE "plain"
    [] n \in 1..MaxPackets ->
         IF a = 4 \/ (d = "up" /\ a = 2) THEN "raw" ELSE "sniffing"

(* room is that of the record of the command                               *)
Laid(q, base, t, room, c, e) ==
  /\ c \in Nat /\ e \in [Nat -> Nat] /\ e[0] = base /\ e[c] <= t
  /\ \A j \in 1..c :
       /\ e[j - 1] < e[j] /\ e[j] <= t
       /\ q[2 * j - 1] = Token("head", Chunk(e[j - 1], e[j]))
       /\ q[2 * j] = Token("tail", Chunk(e[j - 1], e[j]))
  /\ room = 2 =>
       q[2 * c + 1] = Token("head", <<0>>) /\ q[2 * c + 2] = Token("tail", <<0>>)
  /\ Len(q) = 2 * c + room + (t - e[c])
  /\ \A i \in 1..(t - e[c]) : q[2 * c + room + i] = Token("bare", <<e[c] + i>>)

Apart(s, t, room, c, e) ==
  /\ s # "raw" => room = 0 /\ t = e[c]
  /\ s = "raw" => t > e[c]

(* s and r are what the sender and the receiver do, sc and gc their counts *)
Synced(d, s, sc, r, gc, t, room, c, e) ==
  /\ Apart(s, t, room, c, e)
  /\ r = "plain" => s = "plain"
  /\ r = "sniffing" /\ s # "plain" =>
       /\ \A j \in 1..c : Verdict(d, e[j - 1], e[j], gc + j - 1) = "sniffing"
       /\ s = "sniffing" => sc = gc + c
       /\ s = "raw" => gc + c \in 1..MaxPackets
  /\ r = "sniffing" /\ s = "plain" =>
       \E k \in 1..c :
         /\ Verdict(d, e[k - 1], e[k], gc + k - 1) = "plain"
         /\ \A j \in 1..(k - 1) : Verdict(d, e[j - 1], e[j], gc + j - 1) = "sniffing"

LazyTypes ==
  /\ dir \in {"up", "down"}
  /\ known \in BOOLEAN /\ announced \in BOOLEAN
  /\ taken \in 0..6
  /\ writing \in Seq(Nat) /\ cut \in BOOLEAN
  /\ sender \in {"sniffing", "raw", "plain"}
  /\ receiver \in {"sniffing", "raw", "plain", "closed"}
  /\ sentCount \in Nat /\ gotCount \in Nat
  /\ net \in Seq(Tokens) /\ rawInput \in Seq(Tokens) /\ last \in Seq(Tokens)
  /\ found \in {"none", "first", "elsewhere", "missed"}

InOrder == forwarded \in Seq(Nat) /\ \A k \in 1..Len(forwarded) : forwarded[k] = k

Room == IF announced THEN 2 ELSE 0

LastIsLeft ==
  Len(last) > 1 /\ last[1] = Token("head", <<0>>) => rawInput = last

WrittenTo == taken - Len(writing)

Pending ==
  /\ sender = "raw" => writing = <<>>
  /\ WrittenTo \in Nat
  /\ writing = <<>> => WrittenTo = taken
  /\ writing # <<>> => WrittenTo < taken /\ writing = Chunk(WrittenTo, taken)

Counted(c, e) ==
  IF writing = <<>>
  THEN Synced(dir, sender, sentCount, receiver, gotCount, taken, Room, c, e)
  ELSE Synced(dir, sender, sentCount, receiver, gotCount, taken, Room, c + 1,
              [e EXCEPT ![c + 1] = taken])

Under ==
  /\ receiver \in {"sniffing", "plain"}
  /\ LastIsLeft
  /\ \E c \in Nat : \E e \in [Nat -> Nat] :
       /\ Laid(rawInput \o net, Len(forwarded), WrittenTo, Room, c, e)
       /\ Apart(sender, WrittenTo, Room, c, e)
       /\ ~cut => Counted(c, e)

GivenUp == receiver = "closed" /\ sender = "raw" /\ ~announced

Switched ==
  /\ receiver = "raw" /\ sender = "raw" /\ announced
  /\ Len(forwarded) + Len(net) = taken
  /\ \A i \in 1..Len(net) : net[i] = Token("bare", <<Len(forwarded) + i>>)

LazyInv ==
  /\ LazyTypes
  /\ Pending
  /\ found = "none" => InOrder /\ (Under \/ GivenUp)
  /\ found = "first" => InOrder /\ Switched
  /\ found = "elsewhere" => receiver \in {"raw", "closed"}
  /\ found = "missed" => cut /\ receiver \in {"plain", "closed"}

-----------------------------------------------------------------------------
(* Datagrams through socks5: what is read of the bytes is what was written *)
(* when the kind of the address tells the length of the address.           *)
LEMMA OneByte ==
  ASSUME NEW x \in Bytes
  PROVE  <<x>> \in Seq(Bytes) /\ Len(<<x>>) = 1 /\ <<x>>[1] = x
OBVIOUS

LEMMA FixedParts ==
  /\ Socks5UDP!Start \in Seq(Bytes) /\ Len(Socks5UDP!Start) = 3
  /\ Socks5UDP!Port \in Seq(Bytes) /\ Len(Socks5UDP!Port) = 2
<1>1. "rsv" \in Bytes /\ "frag" \in Bytes /\ "p1" \in Bytes /\ "p2" \in Bytes
  BY DEF Bytes
<1> QED
  BY <1>1 DEF Socks5UDP!Start, Socks5UDP!Port

LEMMA DataPart ==
  ASSUME NEW n \in Nat
  PROVE  /\ Socks5UDP!Data(n) \in Seq(Bytes) /\ Len(Socks5UDP!Data(n)) = n
         /\ \A i \in 1..n : Socks5UDP!Data(n)[i] = "data"
<1>1. Socks5UDP!Data(n) \in Seq(Bytes)
  <2>1. "data" \in Bytes
    BY DEF Bytes
  <2> QED
    BY <2>1, IsASeq DEF Socks5UDP!Data
<1>2. DOMAIN Socks5UDP!Data(n) = 1..n /\ \A i \in 1..n : Socks5UDP!Data(n)[i] = "data"
  BY DEF Socks5UDP!Data
<1> QED
  BY <1>1, <1>2, LenProperties

LEMMA Joined ==
  ASSUME NEW a \in Seq(Bytes), NEW b \in Seq(Bytes)
  PROVE  /\ a \o b \in Seq(Bytes) /\ Len(a \o b) = Len(a) + Len(b)
         /\ Len(a) \in Nat /\ Len(b) \in Nat
         /\ \A i \in 1..Len(a) : (a \o b)[i] = a[i]
         /\ \A i \in 1..Len(b) : (a \o b)[Len(a) + i] = b[i]
<1>1. /\ a \o b \in Seq(Bytes) /\ Len(a \o b) = Len(a) + Len(b)
      /\ Len(a) \in Nat /\ Len(b) \in Nat
      /\ \A i \in 1..Len(a) + Len(b) :
           (a \o b)[i] = IF i <= Len(a) THEN a[i] ELSE b[i - Len(a)]
  BY ConcatProperties, LenProperties
<1>2. ASSUME NEW i \in 1..Len(a) PROVE (a \o b)[i] = a[i]
  BY <1>1
<1>3. ASSUME NEW i \in 1..Len(b) PROVE (a \o b)[Len(a) + i] = b[i]
  <2>1. Len(a) + i \in 1..Len(a) + Len(b) /\ ~(Len(a) + i <= Len(a))
        /\ (Len(a) + i) - Len(a) = i
    BY <1>1
  <2> QED
    BY <1>1, <2>1
<1> QED
  BY <1>1, <1>2, <1>3

LEMMA ParsedAsWritten ==
  ASSUME NEW t \in Bytes, NEW ip \in Seq(Bytes), NEW n \in Nat,
         Socks5UDP!AddrBytes(t) = Len(ip)
  PROVE  Socks5UDP!Parsed(Socks5UDP!Start \o (<<t>> \o ip) \o Socks5UDP!Port
                            \o Socks5UDP!Data(n))
           = [addr |-> ip, port |-> Socks5UDP!Port, data |-> Socks5UDP!Data(n)]
<1> DEFINE a == <<t>> \o ip
           start == Socks5UDP!Start
           port == Socks5UDP!Port
           text == Socks5UDP!Data(n)
           k == Len(ip)
<1>1. /\ a \in Seq(Bytes) /\ Len(a) = 1 + k /\ k \in Nat
      /\ a[1] = t /\ \A i \in 1..k : a[1 + i] = ip[i]
  <2>1. <<t>> \in Seq(Bytes) /\ Len(<<t>>) = 1 /\ <<t>>[1] = t /\ 1 \in 1..1
    BY OneByte
  <2>2. /\ a \in Seq(Bytes) /\ Len(a) = Len(<<t>>) + Len(ip) /\ Len(ip) \in Nat
        /\ \A i \in 1..Len(<<t>>) : a[i] = <<t>>[i]
        /\ \A i \in 1..Len(ip) : a[Len(<<t>>) + i] = ip[i]
    BY <2>1, Joined
  <2> HIDE DEF a
  <2> QED
    BY <2>1, <2>2
<1> HIDE DEF a, k
<1> DEFINE h == start \o a
<1>2. /\ h \in Seq(Bytes) /\ Len(h) = 4 + k
      /\ h[4] = t /\ \A i \in 1..k : h[4 + i] = ip[i]
  <2>1. /\ start \in Seq(Bytes) /\ Len(start) = 3
    BY FixedParts
  <2>2. /\ h \in Seq(Bytes) /\ Len(h) = 3 + (1 + k)
        /\ \A i \in 1..1 + k : h[3 + i] = a[i]
    <3>1. /\ h \in Seq(Bytes) /\ Len(h) = Len(start) + Len(a)
          /\ \A i \in 1..Len(a) : h[Len(start) + i] = a[i]
      BY <1>1, <2>1, Joined
    <3> HIDE DEF h, start
    <3> QED
      BY <1>1, <2>1, <3>1
  <2>3. 3 + (1 + k) = 4 + k /\ 1 \in 1..1 + k /\ 3 + 1 = 4
        /\ \A i \in 1..k : 1 + i \in 1..1 + k /\ 3 + (1 + i) = 4 + i
    BY <1>1
  <2> HIDE DEF h, start
  <2> QED
    BY <1>1, <2>2, <2>3
<1> HIDE DEF h
<1> DEFINE hp == h \o port
<1>3. /\ hp \in Seq(Bytes) /\ Len(hp) = 6 + k
      /\ hp[4] = t /\ \A i \in 1..k : hp[4 + i] = ip[i]
      /\ hp[5 + k] = port[1] /\ hp[6 + k] = port[2]
  <2>1. port \in Seq(Bytes) /\ Len(port) = 2
    BY FixedParts
  <2>2. /\ hp \in Seq(Bytes) /\ Len(hp) = (4 + k) + 2
        /\ \A i \in 1..4 + k : hp[i] = h[i]
        /\ \A i \in 1..2 : hp[(4 + k) + i] = port[i]
    <3>1. /\ hp \in Seq(Bytes) /\ Len(hp) = Len(h) + Len(port)
          /\ \A i \in 1..Len(h) : hp[i] = h[i]
          /\ \A i \in 1..Len(port) : hp[Len(h) + i] = port[i]
      BY <1>2, <2>1, Joined
    <3> HIDE DEF hp, port
    <3> QED
      BY <1>2, <2>1, <3>1
  <2>3. /\ (4 + k) + 2 = 6 + k /\ 4 \in 1..4 + k /\ (4 + k) + 1 = 5 + k
        /\ 1 \in 1..2 /\ 2 \in 1..2
        /\ \A i \in 1..k : 4 + i \in 1..4 + k
    BY <1>1
  <2> HIDE DEF hp, port
  <2> QED
    BY <1>2, <2>2, <2>3
<1> HIDE DEF hp
<1> DEFINE bytes == hp \o text
<1>4. /\ bytes \in Seq(Bytes) /\ Len(bytes) = 6 + k + n
      /\ bytes[4] = t /\ \A i \in 1..k : bytes[4 + i] = ip[i]
      /\ bytes[5 + k] = port[1] /\ bytes[6 + k] = port[2]
      /\ \A i \in 1..n : bytes[6 + k + i] = text[i]
  <2>1. text \in Seq(Bytes) /\ Len(text) = n
    BY DataPart
  <2>2. /\ bytes \in Seq(Bytes) /\ Len(bytes) = (6 + k) + n
        /\ \A i \in 1..6 + k : bytes[i] = hp[i]
        /\ \A i \in 1..n : bytes[(6 + k) + i] = text[i]
    <3>1. /\ bytes \in Seq(Bytes) /\ Len(bytes) = Len(hp) + Len(text)
          /\ \A i \in 1..Len(hp) : bytes[i] = hp[i]
          /\ \A i \in 1..Len(text) : bytes[Len(hp) + i] = text[i]
      BY <1>3, <2>1, Joined
    <3> HIDE DEF bytes, text
    <3> QED
      BY <1>3, <2>1, <3>1
  <2>3. 4 \in 1..6 + k /\ 5 + k \in 1..6 + k /\ 6 + k \in 1..6 + k
        /\ \A i \in 1..k : 4 + i \in 1..6 + k
    BY <1>1
  <2> HIDE DEF bytes, text, port
  <2> QED
    BY <1>3, <2>2, <2>3
<1> HIDE DEF bytes
<1>5. Socks5UDP!Part(bytes, 5, k) = ip
  <2> DEFINE p == Socks5UDP!Part(bytes, 5, k)
  <2>1. p = [i \in 1..k |-> IF 5 + i - 1 <= Len(bytes) THEN bytes[5 + i - 1] ELSE "zero"]
    BY DEF Socks5UDP!Part
  <2>2. DOMAIN ip = 1..k /\ ip = [i \in 1..k |-> ip[i]]
    BY LenProperties DEF k
  <2>3. \A i \in 1..k : 5 + i - 1 = 4 + i /\ 5 + i - 1 <= Len(bytes)
    BY <1>1, <1>4
  <2>4. \A i \in 1..k : p[i] = ip[i]
    BY <1>4, <2>1, <2>3
  <2> QED
    BY <2>1, <2>2, <2>4
<1>6. Socks5UDP!Part(bytes, 5 + k, 2) = port
  <2> DEFINE p == Socks5UDP!Part(bytes, 5 + k, 2)
  <2>1. p = [i \in 1..2 |-> IF 5 + k + i - 1 <= Len(bytes) THEN bytes[5 + k + i - 1]
                            ELSE "zero"]
    BY DEF Socks5UDP!Part
  <2>2. port \in [1..2 -> Bytes]
    BY FixedParts, LenProperties
  <2>3. /\ 5 + k + 1 - 1 = 5 + k /\ 5 + k + 2 - 1 = 6 + k
        /\ 5 + k <= Len(bytes) /\ 6 + k <= Len(bytes) /\ \A i \in 1..2 : i = 1 \/ i = 2
    BY <1>1, <1>4
  <2>4. \A i \in 1..2 : p[i] = port[i]
    BY <1>4, <2>1, <2>3
  <2> HIDE DEF port
  <2> QED
    BY <2>1, <2>2, <2>4
<1>7. SubSeq(bytes, 7 + k, Len(bytes)) = text
  <2> DEFINE s == SubSeq(bytes, 7 + k, Len(bytes))
  <2>1. /\ 7 + k \in Int /\ Len(bytes) \in Int
        /\ \A i \in 7 + k .. Len(bytes) : i \in 1..Len(bytes)
    BY <1>1, <1>4
  <2>2. \A i \in 7 + k .. Len(bytes) : bytes[i] \in Bytes
    BY <1>4, <2>1, ElementOfSeq
  <2>3. /\ s \in Seq(Bytes)
        /\ Len(s) = IF 7 + k <= Len(bytes) THEN Len(bytes) - (7 + k) + 1 ELSE 0
        /\ \A i \in 1 .. Len(bytes) - (7 + k) + 1 : s[i] = bytes[7 + k + i - 1]
    BY <2>1, <2>2, SubSeqProperties
  <2>4. /\ Len(bytes) - (7 + k) + 1 = n
        /\ 7 + k <= Len(bytes) \/ n = 0
        /\ \A i \in 1..n : 7 + k + i - 1 = 6 + k + i
    BY <1>1, <1>4
  <2> HIDE DEF s
  <2>5. Len(s) = n /\ \A i \in 1..n : s[i] = text[i]
    BY <1>4, <2>3, <2>4, ZenonT(40)
  <2>6. text \in Seq(Bytes) /\ Len(text) = n
    BY DataPart
  <2> HIDE DEF text
  <2>7. s = text
    BY <2>3, <2>5, <2>6, SeqEqual
  <2> QED
    BY <2>7 DEF s
<1>8. Socks5UDP!AddrBytes(bytes[4]) = k
  BY <1>4 DEF k
<1>9. Socks5UDP!Parsed(bytes) = [addr |-> ip, port |-> port, data |-> text]
  <2> HIDE DEF port, text
  <2> QED
    BY <1>5, <1>6, <1>7, <1>8 DEF Socks5UDP!Parsed
<1> QED
  BY <1>9 DEF bytes, hp, h, a

LEMMA AddressesFit ==
  /\ Socks5UDP!IPBytes("ip4") \in Seq(Bytes) /\ Len(Socks5UDP!IPBytes("ip4")) = 2
  /\ Socks5UDP!IPBytes("ip6") \in Seq(Bytes) /\ Len(Socks5UDP!IPBytes("ip6")) = 3
  /\ Socks5UDP!IPBytes("mapped") \in Seq(Bytes) /\ Len(Socks5UDP!IPBytes("mapped")) = 3
  /\ Socks5UDP!AddrBytes("atyp_ip4") = 2 /\ Socks5UDP!AddrBytes("atyp_ip6") = 3
  /\ Socks5UDP!AddrBytes("atyp_name") = 2
<1>1. {"zero", "a1", "a2", "a3"} \subseteq Bytes
  BY DEF Bytes
<1>2. /\ Socks5UDP!IPBytes("ip4") = <<"a1", "a2">>
      /\ Socks5UDP!IPBytes("ip6") = <<"a1", "a2", "a3">>
      /\ Socks5UDP!IPBytes("mapped") = <<"zero", "a1", "a2">>
  BY DEF Socks5UDP!IPBytes
<1>3. /\ <<"a1", "a2">> \in Seq(Bytes) /\ Len(<<"a1", "a2">>) = 2
      /\ <<"a1", "a2", "a3">> \in Seq(Bytes) /\ Len(<<"a1", "a2", "a3">>) = 3
      /\ <<"zero", "a1", "a2">> \in Seq(Bytes) /\ Len(<<"zero", "a1", "a2">>) = 3
  BY <1>1
<1>4. /\ Socks5UDP!AddrBytes("atyp_ip4") = 2 /\ Socks5UDP!AddrBytes("atyp_ip6") = 3
      /\ Socks5UDP!AddrBytes("atyp_name") = 2
  BY DEF Socks5UDP!AddrBytes
<1> QED
  BY <1>2, <1>3, <1>4

LEMMA RequestsAreKept ==
  ASSUME NEW r \in SocksRequests
  PROVE  Socks5UDP!Parsed(Socks5UDP!RequestBytes(r)) = Socks5UDP!Meant(r)
<1>1. r.size \in Nat /\ r.addr \in {"ip4", "ip6", "name"}
  BY DEF SocksRequests, Socks5UDP!Targets
<1>2. CASE r.addr = "name"
  <2> DEFINE name == <<"len", "a1">>
  <2>1. "atyp_name" \in Bytes /\ "len" \in Bytes /\ "a1" \in Bytes
    BY DEF Bytes
  <2>2. name \in Seq(Bytes) /\ Len(name) = 2 /\ name[1] = "len" /\ name[2] = "a1"
    BY <2>1
  <2>3. <<"atyp_name">> \in Seq(Bytes) /\ Len(<<"atyp_name">>) = 1
        /\ <<"atyp_name">>[1] = "atyp_name"
    BY <2>1
  <2> DEFINE head == <<"atyp_name">>
  <2> HIDE DEF name, head
  <2>4. /\ head \o name \in Seq(Bytes) /\ Len(head \o name) = Len(head) + Len(name)
        /\ \A i \in 1..Len(head) : (head \o name)[i] = head[i]
        /\ \A i \in 1..Len(name) : (head \o name)[Len(head) + i] = name[i]
    BY <2>2, <2>3, Joined DEF head
  <2>5. /\ Len(head \o name) = 3 /\ (head \o name)[1] = "atyp_name"
        /\ (head \o name)[2] = "len" /\ (head \o name)[3] = "a1"
    <3>1. Len(head) = 1 /\ head[1] = "atyp_name"
      BY <2>3 DEF head
    <3>2. 1 \in 1..1 /\ 1 \in 1..2 /\ 2 \in 1..2 /\ 1 + 1 = 2 /\ 1 + 2 = 3
      OBVIOUS
    <3> QED
      BY <2>2, <2>4, <3>1, <3>2
  <2> DEFINE all == <<"atyp_name", "len", "a1">>
             both == head \o name
  <2>6. /\ all \in Seq(Bytes) /\ Len(all) = 3
        /\ all[1] = "atyp_name" /\ all[2] = "len" /\ all[3] = "a1"
    BY <2>1
  <2>7. both \in Seq(Bytes) /\ Len(both) = 3
        /\ both[1] = "atyp_name" /\ both[2] = "len" /\ both[3] = "a1"
    BY <2>4, <2>5
  <2> HIDE DEF all, both
  <2>8. \A i \in 1..3 : all[i] = both[i]
    BY <2>6, <2>7
  <2>9. all = both
    BY <2>6, <2>7, <2>8, SeqEqual
  <2>10. Socks5UDP!RequestBytes(r)
           = Socks5UDP!Start \o (<<"atyp_name">> \o name) \o Socks5UDP!Port
               \o Socks5UDP!Data(r.size)
    BY <1>2, <2>9 DEF Socks5UDP!RequestBytes, all, both, head
  <2>11. Socks5UDP!AddrBytes("atyp_name") = Len(name)
    BY <2>2, AddressesFit
  <2>12. Socks5UDP!Parsed(Socks5UDP!RequestBytes(r))
           = [addr |-> name, port |-> Socks5UDP!Port, data |-> Socks5UDP!Data(r.size)]
    BY <1>1, <2>1, <2>2, <2>10, <2>11, ParsedAsWritten
  <2> QED
    BY <1>2, <2>12 DEF Socks5UDP!Meant, name
<1>3. ASSUME r.addr = "ip4" \/ r.addr = "ip6"
      PROVE  Socks5UDP!Parsed(Socks5UDP!RequestBytes(r)) = Socks5UDP!Meant(r)
  <2> DEFINE ip == Socks5UDP!IPBytes(r.addr)
             t == IF r.addr = "ip4" THEN "atyp_ip4" ELSE "atyp_ip6"
  <2>1. t \in Bytes /\ ip \in Seq(Bytes) /\ Socks5UDP!AddrBytes(t) = Len(ip)
    <3>1. "atyp_ip4" \in Bytes /\ "atyp_ip6" \in Bytes /\ "ip6" # "ip4"
      BY DEF Bytes
    <3>2. CASE r.addr = "ip4"
      BY <3>1, <3>2, AddressesFit
    <3>3. CASE r.addr = "ip6"
      BY <3>1, <3>3, AddressesFit
    <3> QED
      BY <1>3, <3>2, <3>3
  <2>2. r.addr # "name"
    BY <1>3
  <2>3. Socks5UDP!RequestBytes(r)
          = Socks5UDP!Start \o (<<t>> \o ip) \o Socks5UDP!Port \o Socks5UDP!Data(r.size)
    BY <2>2 DEF Socks5UDP!RequestBytes
  <2> HIDE DEF t, ip
  <2>4. Socks5UDP!Parsed(Socks5UDP!RequestBytes(r))
          = [addr |-> ip, port |-> Socks5UDP!Port, data |-> Socks5UDP!Data(r.size)]
    BY <1>1, <2>1, <2>3, ParsedAsWritten
  <2> QED
    BY <2>2, <2>4 DEF Socks5UDP!Meant, ip
<1> QED
  BY <1>1, <1>2, <1>3

LEMMA RepliesAreKept ==
  ASSUME NEW r \in SocksReplies, r.addr # "name"
  PROVE  Socks5UDP!Parsed(Socks5UDP!ReplyBytes(r)) = Socks5UDP!Meant(r)
<1>1. r.size \in Nat /\ (r.addr = "ip4" \/ r.addr = "ip6" \/ r.addr = "mapped")
  BY DEF SocksReplies, Socks5UDP!Remotes
<1> DEFINE ip == Socks5UDP!IPBytes(r.addr)
           t == IF Len(ip) > 2 THEN "atyp_ip6" ELSE "atyp_ip4"
<1>2. t \in Bytes /\ ip \in Seq(Bytes) /\ Socks5UDP!AddrBytes(t) = Len(ip)
  <2>1. "atyp_ip4" \in Bytes /\ "atyp_ip6" \in Bytes /\ ~(2 > 2) /\ 3 > 2
    BY DEF Bytes
  <2>2. CASE r.addr = "ip4"
    BY <2>1, <2>2, AddressesFit
  <2>3. CASE r.addr = "ip6"
    BY <2>1, <2>3, AddressesFit
  <2>4. CASE r.addr = "mapped"
    BY <2>1, <2>4, AddressesFit
  <2> QED
    BY <1>1, <2>2, <2>3, <2>4
<1>3. Socks5UDP!ReplyBytes(r)
        = Socks5UDP!Start \o <<t>> \o ip \o Socks5UDP!Port \o Socks5UDP!Data(r.size)
  BY DEF Socks5UDP!ReplyBytes
<1> HIDE DEF t, ip
<1>4. Socks5UDP!Start \o <<t>> \o ip = Socks5UDP!Start \o (<<t>> \o ip)
  BY <1>2, FixedParts, OneByte, ConcatAssociative
<1>5. Socks5UDP!Parsed(Socks5UDP!ReplyBytes(r))
        = [addr |-> ip, port |-> Socks5UDP!Port, data |-> Socks5UDP!Data(r.size)]
  BY <1>1, <1>2, <1>3, <1>4, ParsedAsWritten
<1> QED
  BY <1>5 DEF Socks5UDP!Meant, ip

-----------------------------------------------------------------------------
LEMMA SocksStart ==
  ASSUME Socks5UDP!Init
  PROVE  SocksInv
<1>1. \A S : <<>> \in Seq(S) /\ Len(<<>>) = 0
  BY EmptySeq
<1> QED
  BY <1>1 DEF Socks5UDP!Init, SocksInv, SocksTypes

LEMMA Appended ==
  ASSUME NEW S, NEW s \in Seq(S), NEW x \in S
  PROVE  /\ Append(s, x) \in Seq(S) /\ Len(Append(s, x)) = Len(s) + 1
         /\ Len(s) \in Nat
         /\ Append(s, x)[Len(s) + 1] = x
         /\ \A i \in 1..Len(s) : Append(s, x)[i] = s[i]
         /\ \A i \in 1..Len(s) + 1 : i \in 1..Len(s) \/ i = Len(s) + 1
BY AppendProperties, LenProperties

LEMMA SocksStep ==
  ASSUME SocksInv, Socks5UDP!Next
  PROVE  SocksInv'
<1>1. SocksTypes
  BY DEF SocksInv
<1>2. /\ Len(requests) \in Nat /\ Len(replies) \in Nat /\ Len(served) \in Nat
      /\ Len(answers) \in Nat
  BY <1>1, LenProperties DEF SocksTypes
<1>3. ASSUME NEW a \in Sources \cup {None}, Socks5UDP!Associate(a)
      PROVE  SocksInv'
  <2>1. /\ UNCHANGED <<requests, toServer, served, replies, toClient, answers>>
        /\ association = "none"
    BY <1>3 DEF Socks5UDP!Associate, Socks5UDP!data
  <2>2. Len(requests) = 0
    BY <2>1, EmptySeq DEF SocksInv
  <2>3. Len(served) = 0
    <3>1. ASSUME Len(served) # 0 PROVE FALSE
      <4>1. 1 \in 1..Len(served)
        BY <1>2, <3>1
      <4>2. served[1].of \in 1..Len(requests)
        BY <4>1 DEF SocksInv, ServedOnce
      <4> QED
        BY <2>2, <4>2
    <3> QED
      BY <3>1
  <2>4. served = <<>>
    BY <1>1, <2>3, EmptySeq DEF SocksTypes
  <2>5. requests = <<>>
    BY <2>1 DEF SocksInv
  <2> QED
    BY <2>1, <2>4, <2>5 DEF SocksInv, SocksTypes, ServedOnce, Answered
<1>4. ASSUME Socks5UDP!EstablishUDPChannel PROVE SocksInv'
  <2>1. /\ UNCHANGED <<supposed, requests, toServer, served, replies, toClient, answers>>
        /\ association' = "established"
    BY <1>4 DEF Socks5UDP!EstablishUDPChannel, Socks5UDP!data
  <2> QED
    BY <2>1 DEF SocksInv, SocksTypes, ServedOnce, Answered
<1>5. ASSUME NEW s \in Sources, NEW a \in Socks5UDP!Targets, NEW n \in 0..MaxData,
             Socks5UDP!RequestUDP(s, a, n)
      PROVE  SocksInv'
  <2> DEFINE k == Len(requests) + 1
             r == [source |-> s, addr |-> a, size |-> n]
  <2>1. /\ requests' = Append(requests, r) /\ association = "established"
        /\ toServer' = toServer \cup
             {[of |-> k, from |-> s, bytes |-> Socks5UDP!RequestBytes(r)]}
        /\ UNCHANGED <<association, supposed, served, replies, toClient, answers>>
    BY <1>5 DEF Socks5UDP!RequestUDP
  <2>2. r \in SocksRequests /\ r.source = s
    BY DataAssumption DEF SocksRequests
  <2> HIDE DEF r
  <2>3. /\ requests' \in Seq(SocksRequests) /\ Len(requests') = k /\ requests'[k] = r
        /\ \A i \in 1..Len(requests) : requests'[i] = requests[i]
    BY <1>1, <2>1, <2>2, Appended DEF SocksTypes
  <2>4. k \in 1..k /\ \A i \in 1..Len(requests) : i \in 1..k
    BY <1>2
  <2> HIDE DEF k
  <2>5. SocksTypes'
    BY <1>1, <2>1, <2>3 DEF SocksTypes
  <2>6. \A d \in toServer' :
          /\ d.of \in 1..Len(requests')
          /\ d.from = requests'[d.of].source
          /\ d.bytes = Socks5UDP!RequestBytes(requests'[d.of])
    BY <2>1, <2>2, <2>3, <2>4 DEF SocksInv
  <2>7. \A i \in 1..Len(served) : ServedOnce(i)'
    BY <2>1, <2>3, <2>4 DEF SocksInv, ServedOnce
  <2>8. served' # <<>> => supposed' = requests'[served'[Len(served')].of].source
    <3>1. SUFFICES ASSUME served # <<>>
                   PROVE  supposed = requests'[served[Len(served)].of].source
      BY <2>1
    <3>2. Len(served) \in 1..Len(served)
      BY <1>1, <1>2, <3>1, EmptySeq DEF SocksTypes
    <3>3. served[Len(served)].of \in 1..Len(requests)
      BY <3>2 DEF SocksInv, ServedOnce
    <3> QED
      BY <2>3, <3>1, <3>3 DEF SocksInv
  <2>9. \A i \in 1..Len(answers) : Answered(i)'
    BY <2>1 DEF SocksInv, Answered
  <2> QED
    BY <2>1, <2>5, <2>6, <2>7, <2>8, <2>9 DEF SocksInv
<1>6. ASSUME NEW d \in toServer, Socks5UDP!ReadMsg(d) PROVE SocksInv'
  <2> DEFINE x == [of |-> d.of, msg |-> Socks5UDP!Parsed(d.bytes)]
             k == Len(served) + 1
  <2>1. /\ toServer' = toServer \ {d} /\ served' = Append(served, x) /\ supposed' = d.from
        /\ UNCHANGED <<association, requests, replies, toClient, answers>>
    BY <1>6 DEF Socks5UDP!ReadMsg
  <2>2. /\ d.of \in 1..Len(requests) /\ d.from = requests[d.of].source
        /\ d.bytes = Socks5UDP!RequestBytes(requests[d.of])
    BY DEF SocksInv
  <2>3. requests[d.of] \in SocksRequests
    BY <1>1, <2>2, ElementOfSeq DEF SocksTypes
  <2>4. Socks5UDP!Parsed(d.bytes) = Socks5UDP!Meant(requests[d.of])
    BY <2>2, <2>3, RequestsAreKept
  <2>5. /\ x \in [of : Nat, msg : {Socks5UDP!Meant(r) : r \in SocksRequests}]
        /\ x.of = d.of /\ x.msg = Socks5UDP!Meant(requests[d.of])
    BY <1>2, <2>2, <2>3, <2>4
  <2> HIDE DEF x
  <2>6. /\ served' \in Seq([of : Nat, msg : {Socks5UDP!Meant(r) : r \in SocksRequests}])
        /\ Len(served') = k /\ served'[k] = x
        /\ \A i \in 1..Len(served) : served'[i] = served[i]
        /\ \A i \in 1..k : i \in 1..Len(served) \/ i = k
    BY <1>1, <2>1, <2>5, Appended DEF SocksTypes
  <2>7. k \in 1..k
    BY <1>2
  <2> HIDE DEF k
  <2>8. SocksTypes'
    BY <1>1, <2>1, <2>6 DEF SocksTypes
  <2>9. \A i \in 1..k : ServedOnce(i)'
    BY <2>1, <2>2, <2>5, <2>6 DEF SocksInv, ServedOnce
  <2>10. supposed' = requests[served'[k].of].source
    BY <2>1, <2>2, <2>5, <2>6
  <2>11. \A i \in 1..Len(answers) : Answered(i)'
    BY <2>1 DEF SocksInv, Answered
  <2> QED
    BY <2>1, <2>6, <2>8, <2>9, <2>10, <2>11 DEF SocksInv
<1>7. ASSUME NEW a \in Socks5UDP!Remotes, NEW n \in 0..MaxData, Socks5UDP!WriteMsg(a, n)
      PROVE  SocksInv'
  <2> DEFINE k == Len(replies) + 1
             r == [addr |-> a, size |-> n]
             asker == requests[served[Len(served)].of].source
             full == [addr |-> a, size |-> n, asker |-> asker]
  <2>1. /\ served # <<>> /\ replies' = Append(replies, full)
        /\ toClient' = toClient \cup
             {[of |-> k, to |-> supposed, bytes |-> Socks5UDP!ReplyBytes(r)]}
        /\ UNCHANGED <<association, supposed, requests, toServer, served, answers>>
    BY <1>7 DEF Socks5UDP!WriteMsg
  <2>2. asker \in Sources /\ supposed = asker
    <3>1. Len(served) \in 1..Len(served)
      BY <1>1, <1>2, <2>1, EmptySeq DEF SocksTypes
    <3>2. served[Len(served)].of \in 1..Len(requests)
      BY <3>1 DEF SocksInv, ServedOnce
    <3>3. requests[served[Len(served)].of] \in SocksRequests
      BY <1>1, <3>2, ElementOfSeq DEF SocksTypes
    <3> QED
      BY <2>1, <3>3 DEF SocksInv, SocksRequests
  <2> HIDE DEF asker
  <2>3. full \in SocksReplies /\ full.asker = asker
    BY <2>2, DataAssumption DEF SocksReplies
  <2>4. Socks5UDP!ReplyBytes(r) = Socks5UDP!ReplyBytes(full)
    BY DEF Socks5UDP!ReplyBytes
  <2> HIDE DEF full, r
  <2>5. /\ replies' \in Seq(SocksReplies) /\ Len(replies') = k /\ replies'[k] = full
        /\ \A i \in 1..Len(replies) : replies'[i] = replies[i]
    BY <1>1, <2>1, <2>3, Appended DEF SocksTypes
  <2>6. k \in 1..k /\ \A i \in 1..Len(replies) : i \in 1..k
    BY <1>2
  <2> HIDE DEF k
  <2>7. SocksTypes'
    BY <1>1, <2>1, <2>5 DEF SocksTypes
  <2>8. \A d \in toClient' :
          /\ d.of \in 1..Len(replies')
          /\ d.to = replies'[d.of].asker
          /\ d.bytes = Socks5UDP!ReplyBytes(replies'[d.of])
    BY <2>1, <2>2, <2>3, <2>4, <2>5, <2>6 DEF SocksInv
  <2>9. \A i \in 1..Len(answers) : Answered(i)'
    BY <2>1, <2>5, <2>6 DEF SocksInv, Answered
  <2>10. \A i \in 1..Len(served) : ServedOnce(i)'
    BY <2>1 DEF SocksInv, ServedOnce
  <2> QED
    BY <2>1, <2>7, <2>8, <2>9, <2>10 DEF SocksInv
<1>8. ASSUME NEW d \in toClient, Socks5UDP!ReadUDPResponse(d) PROVE SocksInv'
  <2> DEFINE x == [of |-> d.of, at |-> d.to, msg |-> Socks5UDP!Parsed(d.bytes)]
             k == Len(answers) + 1
  <2>1. /\ toClient' = toClient \ {d} /\ answers' = Append(answers, x)
        /\ UNCHANGED <<association, supposed, requests, toServer, served, replies>>
    BY <1>8 DEF Socks5UDP!ReadUDPResponse
  <2>2. /\ d.of \in 1..Len(replies) /\ d.to = replies[d.of].asker
        /\ d.bytes = Socks5UDP!ReplyBytes(replies[d.of])
    BY DEF SocksInv
  <2>3. replies[d.of] \in SocksReplies
    BY <1>1, <2>2, ElementOfSeq DEF SocksTypes
  <2>4. replies[d.of].asker \in Sources
    BY <2>3 DEF SocksReplies
  <2> DEFINE S == [of : Nat, at : Sources,
                   msg : {Socks5UDP!Parsed(Socks5UDP!ReplyBytes(r)) : r \in SocksReplies}]
  <2>5. /\ x \in S /\ x.of = d.of /\ x.at = d.to /\ x.msg = Socks5UDP!Parsed(d.bytes)
    BY <1>2, <2>2, <2>3, <2>4
  <2> HIDE DEF x
  <2>6. /\ answers' \in Seq(S) /\ Len(answers') = k /\ answers'[k] = x
        /\ \A i \in 1..Len(answers) : answers'[i] = answers[i]
        /\ \A i \in 1..k : i \in 1..Len(answers) \/ i = k
    BY <1>1, <2>1, <2>5, Appended DEF SocksTypes
  <2> HIDE DEF k
  <2>7. SocksTypes'
    BY <1>1, <2>1, <2>6 DEF SocksTypes
  <2>8. \A i \in 1..k : Answered(i)'
    BY <2>1, <2>2, <2>5, <2>6 DEF SocksInv, Answered
  <2>9. \A i \in 1..Len(served) : ServedOnce(i)'
    BY <2>1 DEF SocksInv, ServedOnce
  <2> QED
    BY <2>1, <2>6, <2>7, <2>8, <2>9 DEF SocksInv
<1>9. ASSUME Socks5UDP!Lose PROVE SocksInv'
  <2>1. /\ UNCHANGED <<association, supposed, requests, served, replies, answers>>
        /\ toServer' \subseteq toServer /\ toClient' \subseteq toClient
    BY <1>9 DEF Socks5UDP!Lose
  <2>2. SocksTypes'
    BY <2>1 DEF SocksInv, SocksTypes
  <2> QED
    BY <2>1, <2>2 DEF SocksInv, ServedOnce, Answered
<1> QED
  BY <1>3, <1>4, <1>5, <1>6, <1>7, <1>8, <1>9 DEF Socks5UDP!Next

LEMMA SocksKeeps ==
  ASSUME SocksInv
  PROVE  Socks5UDP!DatagramsKept
<1>1. \A i \in 1..Len(answers) : replies[answers[i].of] \in SocksReplies
  BY ElementOfSeq DEF SocksInv, SocksTypes, Answered
<1>2. \A i \in 1..Len(answers) :
        LET r == replies[answers[i].of]
        IN answers[i].at = r.asker /\ (r.addr # "name" => answers[i].msg = Socks5UDP!Meant(r))
  BY <1>1, RepliesAreKept DEF SocksInv, Answered
<1> QED
  BY <1>2 DEF SocksInv, ServedOnce, Socks5UDP!DatagramsKept

-----------------------------------------------------------------------------
LEMMA ChunksAreSeqs ==
  ASSUME NEW a \in Nat, NEW b \in Nat, a < b
  PROVE  /\ Chunk(a, b) \in Seq(Nat) /\ Len(Chunk(a, b)) = b - a
         /\ \A i \in 1..(b - a) : Chunk(a, b)[i] = a + i
<1>1. b - a \in Nat /\ \A i \in 1..(b - a) : a + i \in Nat
  OBVIOUS
<1>2. Chunk(a, b) \in Seq(Nat)
  BY <1>1, IsASeq DEF Chunk
<1>3. DOMAIN Chunk(a, b) = 1..(b - a) /\ \A i \in 1..(b - a) : Chunk(a, b)[i] = a + i
  BY DEF Chunk
<1> QED
  BY <1>1, <1>2, <1>3, LenProperties

(* A packet that is written in two parts. *)
LEMMA ChunkParts ==
  ASSUME NEW a \in Nat, NEW b \in Nat, a < b, NEW n \in 1..(b - a)
  PROVE  /\ SubSeq(Chunk(a, b), 1, n) = Chunk(a, a + n)
         /\ n < b - a => SubSeq(Chunk(a, b), n + 1, b - a) = Chunk(a + n, b)
         /\ n = b - a => SubSeq(Chunk(a, b), n + 1, b - a) = <<>>
<1> DEFINE w == Chunk(a, b)
<1>1. /\ w \in Seq(Nat) /\ Len(w) = b - a
      /\ \A i \in 1..(b - a) : w[i] = a + i
  BY ChunksAreSeqs
<1>2. \A i \in 1..(b - a) : w[i] \in Nat
  BY <1>1
<1> HIDE DEF w
<1>3. SubSeq(w, 1, n) = Chunk(a, a + n)
  <2> DEFINE u == SubSeq(w, 1, n)
             v == Chunk(a, a + n)
  <2>1. /\ 1 \in Int /\ n \in Int /\ 1 <= n /\ n - 1 + 1 = n /\ a < a + n /\ a + n \in Nat
        /\ (a + n) - a = n /\ \A i \in 1..n : i \in 1..(b - a) /\ 1 + i - 1 = i
    OBVIOUS
  <2>2. \A i \in 1..n : w[i] \in Nat
    BY <1>2, <2>1
  <2>3. /\ u \in Seq(Nat) /\ Len(u) = IF 1 <= n THEN n - 1 + 1 ELSE 0
        /\ \A i \in 1..(n - 1 + 1) : u[i] = w[1 + i - 1]
    BY <2>1, <2>2, SubSeqProperties
  <2>4. v \in Seq(Nat) /\ Len(v) = n /\ \A i \in 1..n : v[i] = a + i
    BY <2>1, ChunksAreSeqs
  <2> HIDE DEF u, v
  <2>7. Len(u) = n /\ \A i \in 1..n : u[i] = w[i]
    <3>1. (IF 1 <= n THEN n - 1 + 1 ELSE 0) = n
      BY <2>1
    <3> QED
      BY <2>1, <2>3, <3>1
  <2>5. Len(u) = n /\ \A i \in 1..n : u[i] = v[i]
    BY <1>1, <2>1, <2>4, <2>7
  <2>6. u = v
    BY <2>3, <2>4, <2>5, SeqEqual
  <2> QED
    BY <2>6 DEF u, v
<1>4. ASSUME n < b - a
      PROVE  SubSeq(w, n + 1, b - a) = Chunk(a + n, b)
  <2> DEFINE l == b - a
             u == SubSeq(w, n + 1, l)
             v == Chunk(a + n, b)
  <2>1. /\ n + 1 \in Int /\ l \in Int /\ n + 1 <= l /\ l - (n + 1) + 1 = l - n
        /\ a + n < b /\ a + n \in Nat /\ b - (a + n) = l - n
        /\ \A i \in (n + 1)..l : i \in 1..(b - a)
        /\ \A i \in 1..(l - n) : n + i \in 1..(b - a) /\ (n + 1) + i - 1 = n + i
                              /\ a + (n + i) = (a + n) + i
    BY <1>4
  <2>2. \A i \in (n + 1)..l : w[i] \in Nat
    BY <1>2, <2>1
  <2>3. /\ u \in Seq(Nat) /\ Len(u) = IF n + 1 <= l THEN l - (n + 1) + 1 ELSE 0
        /\ \A i \in 1..(l - (n + 1) + 1) : u[i] = w[(n + 1) + i - 1]
    BY <2>1, <2>2, SubSeqProperties
  <2>4. v \in Seq(Nat) /\ Len(v) = l - n /\ \A i \in 1..(l - n) : v[i] = (a + n) + i
    BY <2>1, ChunksAreSeqs
  <2> HIDE DEF u, v
  <2>5. Len(u) = l - n /\ \A i \in 1..(l - n) : u[i] = v[i]
    BY <1>1, <2>1, <2>3, <2>4
  <2>6. u = v
    BY <2>3, <2>4, <2>5, SeqEqual
  <2> QED
    BY <2>6 DEF u, v
<1>5. ASSUME n = b - a
      PROVE  SubSeq(w, n + 1, b - a) = <<>>
  <2> DEFINE l == b - a
             u == SubSeq(w, n + 1, l)
  <2>1. n + 1 \in Int /\ l \in Int /\ ~(n + 1 <= l) /\ (n + 1)..l = {}
    BY <1>5
  <2>2. \A i \in (n + 1)..l : w[i] \in Nat
    BY <2>1
  <2>3. u \in Seq(Nat) /\ Len(u) = IF n + 1 <= l THEN l - (n + 1) + 1 ELSE 0
    BY <2>1, <2>2, SubSeqProperties
  <2> HIDE DEF u
  <2>4. Len(u) = 0
    BY <2>1, <2>3
  <2>5. u = <<>>
    BY <2>3, <2>4, EmptySeq
  <2> QED
    BY <2>5 DEF u
<1> QED
  BY <1>3, <1>4, <1>5 DEF w

LEMMA TokensAre ==
  ASSUME NEW kind \in {"head", "tail", "bare"}, NEW p \in Seq(Nat)
  PROVE  /\ Token(kind, p) \in Tokens
         /\ Token(kind, p).part = kind /\ Token(kind, p).carries = p
BY DEF Token, Tokens

LEMMA CommandIs == <<0>> \in Seq(Nat) /\ <<0>>[1] = 0 /\ TlsLazy!Command = 0
BY DEF TlsLazy!Command

LEMMA JoinedTokens ==
  ASSUME NEW a \in Seq(Tokens), NEW b \in Seq(Tokens)
  PROVE  /\ a \o b \in Seq(Tokens) /\ Len(a \o b) = Len(a) + Len(b)
         /\ Len(a) \in Nat /\ Len(b) \in Nat
         /\ \A i \in 1..Len(a) : (a \o b)[i] = a[i]
         /\ \A i \in 1..Len(b) : (a \o b)[Len(a) + i] = b[i]
<1>1. /\ a \o b \in Seq(Tokens) /\ Len(a \o b) = Len(a) + Len(b)
      /\ Len(a) \in Nat /\ Len(b) \in Nat
      /\ \A i \in 1..Len(a) + Len(b) :
           (a \o b)[i] = IF i <= Len(a) THEN a[i] ELSE b[i - Len(a)]
  BY ConcatProperties, LenProperties
<1>2. ASSUME NEW i \in 1..Len(a) PROVE (a \o b)[i] = a[i]
  BY <1>1
<1>3. ASSUME NEW i \in 1..Len(b) PROVE (a \o b)[Len(a) + i] = b[i]
  <2>1. Len(a) + i \in 1..Len(a) + Len(b) /\ ~(Len(a) + i <= Len(a))
        /\ (Len(a) + i) - Len(a) = i
    BY <1>1
  <2> QED
    BY <1>1, <2>1
<1> QED
  BY <1>1, <1>2, <1>3

(* What CommonDetect says of a packet of the stream, of either end, and of *)
(* the command.                                                            *)
LEMMA SameVerdict ==
  ASSUME dir \in {"up", "down"}, NEW a \in Nat, NEW b \in Nat, a < b, b <= 6,
         NEW n \in Nat, NEW r \in BOOLEAN
  PROVE  TlsLazy!CommonDetect(Chunk(a, b), n, r) = Verdict(dir, a, b, n)
<1> DEFINE p == Chunk(a, b)
<1>1. Len(p) = b - a /\ p[1] = a + 1
  BY ChunksAreSeqs
<1> HIDE DEF p
<1>2. CASE n > MaxPackets
  BY <1>2, DataAssumption DEF TlsLazy!CommonDetect, Verdict, p
<1>3. p[1] # TlsLazy!Command
  BY <1>1, CommandIs
<1>4. TlsLazy!FirstKind(p) = TlsLazy!Stream[a + 1]
  BY <1>1, <1>3 DEF TlsLazy!FirstKind
<1>5. a \in {0, 1, 2, 3, 4, 5}
  OBVIOUS
<1>6. /\ (TlsLazy!FirstKind(p) = "hello") = (dir = "down" /\ a = 0)
      /\ (TlsLazy!FirstKind(p) = "data") = (a = 4 \/ (dir = "up" /\ a = 2))
      /\ TlsLazy!FirstKind(p) # "command"
  <2>1. CASE dir = "up"
    <3>1. TlsLazy!Stream = <<"handshake", "rest", "data", "rest", "data", "rest">>
      BY <2>1 DEF TlsLazy!Stream
    <3> QED
      BY <1>4, <1>5, <2>1, <3>1
  <2>2. CASE dir = "down"
    <3>1. TlsLazy!Stream = <<"hello", "rest", "handshake", "rest", "data", "rest">>
      BY <2>2 DEF TlsLazy!Stream
    <3> QED
      BY <1>4, <1>5, <2>2, <3>1
  <2> QED
    BY <2>1, <2>2
<1>7. CASE n = 0 /\ n <= MaxPackets
  <2>1. ~(n > MaxPackets) /\ n \notin 1..MaxPackets
    BY <1>7, DataAssumption
  <2>2. a = 0 => (Len(p) > 1) = (b > 1)
    BY <1>1
  <2> QED
    BY <1>6, <1>7, <2>1, <2>2 DEF TlsLazy!CommonDetect, Verdict, p
<1>8. CASE n \in 1..MaxPackets
  <2>1. ~(n > MaxPackets) /\ n # 0
    BY <1>8, DataAssumption
  <2> QED
    BY <1>6, <1>8, <2>1 DEF TlsLazy!CommonDetect, Verdict, p
<1> QED
  BY <1>2, <1>7, <1>8, DataAssumption

LEMMA CommandVerdict ==
  ASSUME NEW n \in 1..MaxPackets
  PROVE  TlsLazy!CommonDetect(<<0>>, n, TRUE) = "raw"
<1>1. ~(n > MaxPackets) /\ n # 0
  BY DataAssumption
<1>2. TlsLazy!FirstKind(<<0>>) = "command"
  BY CommandIs DEF TlsLazy!FirstKind
<1> QED
  BY <1>1, <1>2 DEF TlsLazy!CommonDetect

LEMMA CommandVerdicts ==
  ASSUME NEW n \in Nat
  PROVE  TlsLazy!CommonDetect(<<0>>, n, TRUE) \in {"raw", "plain"}
<1>1. CASE n \in 1..MaxPackets
  BY <1>1, CommandVerdict
<1>2. CASE n > MaxPackets
  BY <1>2, DataAssumption DEF TlsLazy!CommonDetect
<1>3. CASE n = 0 /\ n <= MaxPackets
  <2>1. ~(n > MaxPackets) /\ n \notin 1..MaxPackets
    BY <1>3, DataAssumption
  <2>2. TlsLazy!FirstKind(<<0>>) # "hello"
    BY CommandIs DEF TlsLazy!FirstKind
  <2> QED
    BY <1>3, <2>1, <2>2 DEF TlsLazy!CommonDetect
<1>4. n \in 1..MaxPackets \/ n > MaxPackets \/ (n = 0 /\ n <= MaxPackets)
  BY DataAssumption
<1> QED
  BY <1>1, <1>2, <1>3, <1>4

LEMMA VerdictsAre ==
  ASSUME NEW d, NEW a \in Nat, NEW b \in Nat, NEW n \in Nat
  PROVE  /\ Verdict(d, a, b, n) \in {"sniffing", "plain", "raw"}
         /\ Verdict(d, a, b, n) = "raw" => n \in 1..MaxPackets
         /\ Verdict(d, a, b, n) = "sniffing" => ~(n > MaxPackets)
<1>1. CASE n > MaxPackets
  BY <1>1, DataAssumption DEF Verdict
<1>2. CASE n = 0 /\ n <= MaxPackets
  <2>1. ~(n > MaxPackets) /\ n \notin 1..MaxPackets
    BY <1>2, DataAssumption
  <2> QED
    BY <1>2, <2>1 DEF Verdict
<1>3. CASE n \in 1..MaxPackets
  <2>1. ~(n > MaxPackets) /\ n # 0
    BY <1>3, DataAssumption
  <2> QED
    BY <1>3, <2>1 DEF Verdict
<1> QED
  BY <1>1, <1>2, <1>3, DataAssumption

-----------------------------------------------------------------------------
LEMMA RecordsAre ==
  ASSUME NEW p \in Seq(Nat)
  PROVE  /\ TlsLazy!Record(p) \in Seq(Tokens) /\ Len(TlsLazy!Record(p)) = 2
         /\ TlsLazy!Record(p)[1] = Token("head", p)
         /\ TlsLazy!Record(p)[2] = Token("tail", p)
<1>1. TlsLazy!Record(p) = <<Token("head", p), Token("tail", p)>>
  BY DEF TlsLazy!Record, Token
<1>2. Token("head", p) \in Tokens /\ Token("tail", p) \in Tokens
  BY TokensAre
<1> QED
  BY <1>1, <1>2

LEMMA BareAre ==
  ASSUME NEW a \in Nat, NEW b \in Nat, a < b
  PROVE  /\ TlsLazy!Bare(Chunk(a, b)) \in Seq(Tokens)
         /\ Len(TlsLazy!Bare(Chunk(a, b))) = b - a
         /\ \A i \in 1..(b - a) :
              TlsLazy!Bare(Chunk(a, b))[i] = Token("bare", <<a + i>>)
<1> DEFINE p == Chunk(a, b)
           q == TlsLazy!Bare(p)
<1>1. Len(p) = b - a /\ b - a \in Nat /\ \A i \in 1..(b - a) : p[i] = a + i
  BY ChunksAreSeqs
<1>2. DOMAIN q = 1..(b - a)
      /\ \A i \in 1..(b - a) : q[i] = Token("bare", <<a + i>>)
  <2> HIDE DEF p
  <2> QED
    BY <1>1 DEF TlsLazy!Bare, Token
<1>3. \A i \in 1..(b - a) : q[i] \in Tokens
  <2>1. ASSUME NEW i \in 1..(b - a) PROVE q[i] \in Tokens
    <3>1. a + i \in Nat
      BY <1>1
    <3> DEFINE m == a + i
    <3>2. m \in Nat
      BY <3>1
    <3> HIDE DEF m
    <3>3. <<m>> \in Seq(Nat)
      BY <3>2
    <3>4. Token("bare", <<m>>) \in Tokens
      BY <3>3, TokensAre
    <3> QED
      BY <1>2, <3>4 DEF m
  <2> QED
    BY <2>1
<1>4. q \in Seq(Tokens)
  <2>1. q = [i \in 1..(b - a) |-> [part |-> "bare", carries |-> <<p[i]>>]]
    <3> HIDE DEF p
    <3> QED
      BY <1>1 DEF TlsLazy!Bare
  <2>2. \A i \in 1..(b - a) : [part |-> "bare", carries |-> <<p[i]>>] \in Tokens
    <3> HIDE DEF p
    <3> QED
      BY <1>2, <1>3, <2>1
  <2> HIDE DEF p
  <2>3. [i \in 1..(b - a) |-> [part |-> "bare", carries |-> <<p[i]>>]] \in Seq(Tokens)
    BY <1>1, <2>2, IsASeq
  <2> QED
    BY <2>1, <2>3
<1> HIDE DEF q
<1>5. Len(q) = b - a
  BY <1>1, <1>2, <1>4, LenProperties
<1> QED
  BY <1>2, <1>4, <1>5 DEF q, p

(* The two parts of a record, one behind the other.                        *)
LEMMA RecordIsLaid ==
  ASSUME NEW q, NEW base, NEW t, NEW n, NEW c, NEW e
  PROVE  /\ q \in Seq(Tokens) /\ t \in Nat /\ n \in Nat \ {0}
         /\ Laid(q, base, t, 0, c, e) /\ t = e[c]
         => Laid(q \o TlsLazy!Record(Chunk(t, t + n)), base, t + n, 0, c + 1,
                 [e EXCEPT ![c + 1] = t + n])
<1> DEFINE p == Chunk(t, t + n)
           r == TlsLazy!Record(p)
           f == [e EXCEPT ![c + 1] = t + n]
           w == q \o r
<1>1. SUFFICES ASSUME q \in Seq(Tokens), t \in Nat, n \in Nat \ {0},
                      Laid(q, base, t, 0, c, e), t = e[c]
               PROVE  Laid(w, base, t + n, 0, c + 1, f)
  OBVIOUS
<1>2. t \in Nat /\ n \in Nat \ {0} /\ t < t + n /\ t + n \in Nat
  BY <1>1
<1>3. c \in Nat /\ c + 1 \in Nat
  BY <1>1 DEF Laid
<1>4. e \in [Nat -> Nat] /\ e[0] = base
  BY <1>1 DEF Laid
<1>5. \A j \in 1..c :
        /\ e[j - 1] < e[j] /\ e[j] <= t
        /\ q[2 * j - 1] = Token("head", Chunk(e[j - 1], e[j]))
        /\ q[2 * j] = Token("tail", Chunk(e[j - 1], e[j]))
  BY <1>1 DEF Laid
<1>6. Len(q) = 2 * c
  <2>1. Len(q) = 2 * c + 0 + (t - e[c])
    BY <1>1 DEF Laid
  <2>2. t - e[c] = 0
    BY <1>1, <1>2
  <2> QED
    BY <1>3, <2>1, <2>2
<1>7. p \in Seq(Nat)
  BY <1>2, ChunksAreSeqs
<1>8. /\ r \in Seq(Tokens) /\ Len(r) = 2
      /\ r[1] = Token("head", p) /\ r[2] = Token("tail", p)
  BY <1>7, RecordsAre
<1> HIDE DEF r
<1>9. /\ Len(w) = Len(q) + Len(r)
      /\ \A i \in 1..Len(q) : w[i] = q[i]
      /\ \A i \in 1..Len(r) : w[Len(q) + i] = r[i]
  BY <1>1, <1>8, JoinedTokens
<1> HIDE DEF w, p
<1>10. /\ Len(w) = 2 * c + 2
       /\ w[2 * c + 1] = Token("head", p) /\ w[2 * c + 2] = Token("tail", p)
       /\ \A i \in 1..(2 * c) : w[i] = q[i]
  BY <1>6, <1>8, <1>9
<1>11. f \in [Nat -> Nat] /\ f[c + 1] = t + n /\ \A j \in Nat : j # c + 1 => f[j] = e[j]
  BY <1>2, <1>3, <1>4
<1> HIDE DEF f
<1>12. ASSUME NEW j \in 1..(c + 1)
       PROVE  /\ f[j - 1] < f[j] /\ f[j] <= t + n
              /\ w[2 * j - 1] = Token("head", Chunk(f[j - 1], f[j]))
              /\ w[2 * j] = Token("tail", Chunk(f[j - 1], f[j]))
  <2>1. CASE j = c + 1
    <3>1. 2 * j - 1 = 2 * c + 1 /\ 2 * j = 2 * c + 2 /\ j - 1 = c /\ c # c + 1
      BY <1>3, <2>1
    <3>2. f[j] = t + n /\ f[j - 1] = t
      BY <1>1, <1>3, <1>11, <2>1, <3>1
    <3> QED
      BY <1>2, <1>10, <3>1, <3>2 DEF p
  <2>2. CASE j # c + 1
    <3>1. j \in 1..c /\ j \in Nat /\ j - 1 \in Nat /\ j - 1 # c + 1
      BY <1>3, <2>2
    <3>2. f[j] = e[j] /\ f[j - 1] = e[j - 1]
      BY <1>11, <2>2, <3>1
    <3>3. 2 * j - 1 \in 1..(2 * c) /\ 2 * j \in 1..(2 * c)
      BY <1>3, <3>1
    <3>4. e[j] <= t + n
      <4>1. e[j] \in Nat /\ e[j] <= t
        BY <1>4, <1>5, <3>1
      <4> QED
        BY <1>2, <4>1
    <3> QED
      BY <1>5, <1>10, <3>1, <3>2, <3>3, <3>4
  <2> QED
    BY <2>1, <2>2
<1>13. f[0] = base
  BY <1>3, <1>4, <1>11
<1>14. /\ Len(w) = 2 * (c + 1) + 0 + ((t + n) - f[c + 1])
       /\ f[c + 1] <= t + n
       /\ \A i \in 1..((t + n) - f[c + 1]) :
            w[2 * (c + 1) + 0 + i] = Token("bare", <<f[c + 1] + i>>)
  <2>1. (t + n) - f[c + 1] = 0 /\ f[c + 1] <= t + n /\ 1..0 = {}
    BY <1>2, <1>11
  <2> QED
    BY <1>3, <1>10, <2>1
<1>15. 0 = 2 => /\ w[2 * (c + 1) + 1] = Token("head", <<0>>)
                /\ w[2 * (c + 1) + 2] = Token("tail", <<0>>)
  OBVIOUS
<1> QED
  BY <1>3, <1>11, <1>12, <1>13, <1>14, <1>15 DEF Laid

(* Bare tokens behind all that.                                            *)
LEMMA BareIsLaid ==
  ASSUME NEW q, NEW base, NEW t, NEW n, NEW room, NEW c, NEW e
  PROVE  /\ q \in Seq(Tokens) /\ t \in Nat /\ n \in Nat \ {0} /\ room \in {0, 2}
         /\ Laid(q, base, t, room, c, e)
         => Laid(q \o TlsLazy!Bare(Chunk(t, t + n)), base, t + n, room, c, e)
<1> DEFINE r == TlsLazy!Bare(Chunk(t, t + n))
           w == q \o r
           k == 2 * c + room
<1>1. SUFFICES ASSUME q \in Seq(Tokens), t \in Nat, n \in Nat \ {0}, room \in {0, 2},
                      Laid(q, base, t, room, c, e)
               PROVE  Laid(w, base, t + n, room, c, e)
  OBVIOUS
<1>2. t \in Nat /\ n \in Nat \ {0} /\ t < t + n /\ t + n \in Nat /\ (t + n) - t = n
  BY <1>1
<1>3. c \in Nat /\ e \in [Nat -> Nat] /\ e[0] = base
  BY <1>1 DEF Laid
<1>4. \A j \in 1..c :
        /\ e[j - 1] < e[j] /\ e[j] <= t
        /\ q[2 * j - 1] = Token("head", Chunk(e[j - 1], e[j]))
        /\ q[2 * j] = Token("tail", Chunk(e[j - 1], e[j]))
  BY <1>1 DEF Laid
<1>5. /\ room = 2 => q[2 * c + 1] = Token("head", <<0>>) /\ q[2 * c + 2] = Token("tail", <<0>>)
      /\ \A i \in 1..(t - e[c]) : q[2 * c + room + i] = Token("bare", <<e[c] + i>>)
  BY <1>1 DEF Laid
<1>6. e[c] \in Nat /\ e[c] <= t /\ t - e[c] \in Nat
  <2>1. e[c] \in Nat
    BY <1>3
  <2>2. e[c] <= t
    BY <1>1 DEF Laid
  <2> QED
    BY <1>2, <2>1, <2>2
<1>7. room \in Nat /\ k \in Nat /\ k >= 2 * c /\ (room = 2 => k = 2 * c + 2)
  <2>1. room \in {0, 2} /\ c \in Nat
    BY <1>1, <1>3
  <2> QED
    BY <2>1
<1>8. Len(q) = k + (t - e[c])
  BY <1>1 DEF Laid
<1>9. /\ r \in Seq(Tokens) /\ Len(r) = n
      /\ \A i \in 1..n : r[i] = Token("bare", <<t + i>>)
  BY <1>2, BareAre
<1> HIDE DEF r
<1>10. /\ Len(w) = Len(q) + Len(r)
       /\ \A i \in 1..Len(q) : w[i] = q[i]
       /\ \A i \in 1..Len(r) : w[Len(q) + i] = r[i]
  BY <1>1, <1>9, JoinedTokens
<1> HIDE DEF w
<1>11. Len(w) = 2 * c + room + ((t + n) - e[c])
  <2>1. Len(w) = (k + (t - e[c])) + n
    BY <1>8, <1>9, <1>10
  <2> QED
    BY <1>2, <1>3, <1>6, <1>7, <2>1, SMTT(40)
<1> HIDE DEF k
<1>12. ASSUME NEW i \in 1..((t + n) - e[c])
       PROVE  w[k + i] = Token("bare", <<e[c] + i>>)
  <2>1. CASE i <= t - e[c]
    <3>1. i \in 1..(t - e[c])
      BY <1>2, <1>6, <2>1
    <3>2. k + i \in 1..(k + (t - e[c]))
      BY <1>6, <1>7, <3>1
    <3>3. w[k + i] = q[k + i]
      BY <1>8, <1>10, <3>2
    <3> QED
      BY <1>5, <3>1, <3>3 DEF k
  <2>2. CASE ~(i <= t - e[c])
    <3> DEFINE m == i - (t - e[c])
    <3>1. m \in 1..n /\ k + i = (k + (t - e[c])) + m /\ t + m = e[c] + i
      BY <1>2, <1>6, <1>7, <2>2
    <3> HIDE DEF m
    <3> QED
      BY <1>8, <1>9, <1>10, <3>1
  <2> QED
    BY <2>1, <2>2
<1>13. \A i \in 1..k : w[i] = q[i]
  <2>1. \A i \in 1..k : i \in 1..(k + (t - e[c]))
    BY <1>6, <1>7
  <2> QED
    BY <1>8, <1>10, <2>1
<1>14. ASSUME NEW j \in 1..c
       PROVE  /\ e[j - 1] < e[j] /\ e[j] <= t + n
              /\ w[2 * j - 1] = Token("head", Chunk(e[j - 1], e[j]))
              /\ w[2 * j] = Token("tail", Chunk(e[j - 1], e[j]))
  <2>1. 2 * j - 1 \in 1..k /\ 2 * j \in 1..k /\ j \in Nat
    BY <1>3, <1>7
  <2>2. e[j] <= t + n
    <3>1. e[j] \in Nat /\ e[j] <= t
      BY <1>3, <1>4, <2>1
    <3> QED
      BY <1>2, <3>1
  <2> QED
    BY <1>4, <1>13, <2>1, <2>2
<1>15. room = 2 => w[2 * c + 1] = Token("head", <<0>>) /\ w[2 * c + 2] = Token("tail", <<0>>)
  <2>1. room = 2 => 2 * c + 1 \in 1..k /\ 2 * c + 2 \in 1..k
    BY <1>3, <1>7
  <2> QED
    BY <1>5, <1>13, <2>1
<1>16. e[c] <= t + n
  BY <1>2, <1>6
<1> QED
  BY <1>3, <1>11, <1>12, <1>14, <1>15, <1>16 DEF Laid, k

(* The record of the command behind the records of the stream.             *)
LEMMA CommandIsLaid ==
  ASSUME NEW q, NEW base, NEW t, NEW c, NEW e
  PROVE  /\ q \in Seq(Tokens) /\ t \in Nat /\ Laid(q, base, t, 0, c, e) /\ t = e[c]
         => Laid(q \o TlsLazy!Record(<<0>>), base, t, 2, c, e)
<1> DEFINE r == TlsLazy!Record(<<0>>)
           w == q \o r
<1>1. SUFFICES ASSUME q \in Seq(Tokens), t \in Nat, Laid(q, base, t, 0, c, e), t = e[c]
               PROVE  Laid(w, base, t, 2, c, e)
  OBVIOUS
<1>2. c \in Nat /\ e \in [Nat -> Nat] /\ e[0] = base /\ e[c] <= t
  BY <1>1 DEF Laid
<1>3. \A j \in 1..c :
        /\ e[j - 1] < e[j] /\ e[j] <= t
        /\ q[2 * j - 1] = Token("head", Chunk(e[j - 1], e[j]))
        /\ q[2 * j] = Token("tail", Chunk(e[j - 1], e[j]))
  BY <1>1 DEF Laid
<1>4. c \in Nat
  BY <1>2
<1>5. t - e[c] = 0
  <2>1. t \in Nat /\ t = e[c]
    BY <1>1
  <2> QED
    BY <2>1
<1>6. Len(q) = 2 * c
  <2>1. Len(q) = 2 * c + 0 + (t - e[c])
    BY <1>1 DEF Laid
  <2> QED
    BY <1>4, <1>5, <2>1
<1>7. /\ r \in Seq(Tokens) /\ Len(r) = 2
      /\ r[1] = Token("head", <<0>>) /\ r[2] = Token("tail", <<0>>)
  BY CommandIs, RecordsAre
<1> HIDE DEF r
<1>8. /\ Len(w) = Len(q) + Len(r)
      /\ \A i \in 1..Len(q) : w[i] = q[i]
      /\ \A i \in 1..Len(r) : w[Len(q) + i] = r[i]
  BY <1>1, <1>7, JoinedTokens
<1> HIDE DEF w
<1>9. /\ Len(w) = 2 * c + 2
      /\ w[2 * c + 1] = Token("head", <<0>>) /\ w[2 * c + 2] = Token("tail", <<0>>)
      /\ \A i \in 1..(2 * c) : w[i] = q[i]
  BY <1>6, <1>7, <1>8
<1>10. ASSUME NEW j \in 1..c
       PROVE  /\ e[j - 1] < e[j] /\ e[j] <= t
              /\ w[2 * j - 1] = Token("head", Chunk(e[j - 1], e[j]))
              /\ w[2 * j] = Token("tail", Chunk(e[j - 1], e[j]))
  <2>1. 2 * j - 1 \in 1..(2 * c) /\ 2 * j \in 1..(2 * c)
    BY <1>4
  <2> QED
    BY <1>3, <1>9, <2>1
<1>11. /\ Len(w) = 2 * c + 2 + (t - e[c])
       /\ \A i \in 1..(t - e[c]) : w[2 * c + 2 + i] = Token("bare", <<e[c] + i>>)
  <2>1. 1..0 = {}
    OBVIOUS
  <2> QED
    BY <1>4, <1>5, <1>9, <2>1
<1> QED
  BY <1>2, <1>9, <1>10, <1>11 DEF Laid

(* Without its first record.                                               *)
LEMMA RecordIsTaken ==
  ASSUME NEW q, NEW base, NEW t, NEW room, NEW c, NEW e
  PROVE  /\ q \in Seq(Tokens) /\ t \in Nat /\ room \in {0, 2} /\ c # 0
         /\ Laid(q, base, t, room, c, e)
         => Laid(SubSeq(q, 3, Len(q)), e[1], t, room, c - 1, [n \in Nat |-> e[n + 1]])
<1> DEFINE w == SubSeq(q, 3, Len(q))
           f == [n \in Nat |-> e[n + 1]]
           k == 2 * c + room
<1>1. SUFFICES ASSUME q \in Seq(Tokens), t \in Nat, room \in {0, 2}, c # 0,
                      Laid(q, base, t, room, c, e)
               PROVE  Laid(w, e[1], t, room, c - 1, f)
  OBVIOUS
<1>2. e \in [Nat -> Nat]
  BY <1>1 DEF Laid
<1>3. c \in Nat /\ c - 1 \in Nat /\ c >= 1
  <2>1. c \in Nat /\ c # 0
    BY <1>1 DEF Laid
  <2> QED
    BY <2>1
<1>4. \A j \in 1..c :
        /\ e[j - 1] < e[j] /\ e[j] <= t
        /\ q[2 * j - 1] = Token("head", Chunk(e[j - 1], e[j]))
        /\ q[2 * j] = Token("tail", Chunk(e[j - 1], e[j]))
  BY <1>1 DEF Laid
<1>5. /\ room = 2 => q[2 * c + 1] = Token("head", <<0>>) /\ q[2 * c + 2] = Token("tail", <<0>>)
      /\ \A i \in 1..(t - e[c]) : q[2 * c + room + i] = Token("bare", <<e[c] + i>>)
  BY <1>1 DEF Laid
<1>6. e[c] \in Nat /\ e[c] <= t /\ t - e[c] \in Nat
  <2>1. e[c] \in Nat
    BY <1>2, <1>3
  <2>2. e[c] <= t /\ t \in Nat
    BY <1>1 DEF Laid
  <2> QED
    BY <2>1, <2>2
<1>7. room \in Nat /\ k \in Nat /\ k >= 2 * c /\ k >= 2 /\ (room = 2 => k = 2 * c + 2)
  <2>1. room \in {0, 2}
    BY <1>1
  <2> QED
    BY <1>3, <2>1
<1>8. Len(q) = k + (t - e[c])
  BY <1>1 DEF Laid
<1>9. Len(q) \in Nat /\ Len(q) >= 2 /\ Len(q) >= k
  BY <1>6, <1>7, <1>8
<1>10. \A i \in 1..Len(q) : q[i] \in Tokens
  BY <1>1, ElementOfSeq
<1>11. \A i \in 3..Len(q) : q[i] \in Tokens
  <2>1. \A i \in 3..Len(q) : i \in 1..Len(q)
    BY <1>9
  <2> QED
    BY <1>10, <2>1
<1>12. /\ w \in Seq(Tokens)
       /\ Len(w) = IF 3 <= Len(q) THEN Len(q) - 3 + 1 ELSE 0
       /\ \A i \in 1..(Len(q) - 3 + 1) : w[i] = q[3 + i - 1]
  <2>1. 3 \in Int /\ Len(q) \in Int
    BY <1>9
  <2> QED
    BY <1>11, <2>1, SubSeqProperties
<1> HIDE DEF w
<1>13. Len(w) = Len(q) - 2 /\ \A i \in 1..(Len(q) - 2) : w[i] = q[i + 2]
  <2>1. \A i \in 1..(Len(q) - 2) : i \in 1..(Len(q) - 3 + 1) /\ 3 + i - 1 = i + 2
    BY <1>9
  <2>2. \A m \in Nat : m >= 2 => (IF 3 <= m THEN m - 3 + 1 ELSE 0) = m - 2
    OBVIOUS
  <2>3. (IF 3 <= Len(q) THEN Len(q) - 3 + 1 ELSE 0) = Len(q) - 2
    BY <1>9, <2>2
  <2> QED
    BY <1>12, <2>1, <2>3
<1>14. f \in [Nat -> Nat] /\ \A n \in Nat : f[n] = e[n + 1]
  BY <1>2
<1> HIDE DEF f
<1>15. f[c - 1] = e[c] /\ f[0] = e[1]
  <2>1. (c - 1) + 1 = c /\ 0 + 1 = 1 /\ 0 \in Nat
    BY <1>3
  <2> QED
    BY <1>3, <1>14, <2>1
<1>16. ASSUME NEW j \in 1..(c - 1)
       PROVE  /\ f[j - 1] < f[j] /\ f[j] <= t
              /\ w[2 * j - 1] = Token("head", Chunk(f[j - 1], f[j]))
              /\ w[2 * j] = Token("tail", Chunk(f[j - 1], f[j]))
  <2>1. j + 1 \in 1..c /\ j \in Nat /\ j - 1 \in Nat /\ (j - 1) + 1 = (j + 1) - 1
    BY <1>3
  <2>2. f[j] = e[j + 1] /\ f[j - 1] = e[(j + 1) - 1]
    BY <1>14, <2>1
  <2>3. /\ 2 * j - 1 \in 1..(k - 2) /\ 2 * j \in 1..(k - 2)
        /\ (2 * j - 1) + 2 = 2 * (j + 1) - 1 /\ 2 * j + 2 = 2 * (j + 1)
    BY <1>3, <1>7, <2>1
  <2>4. 2 * j - 1 \in 1..(Len(q) - 2) /\ 2 * j \in 1..(Len(q) - 2)
    BY <1>7, <1>9, <2>3
  <2>5. w[2 * j - 1] = q[2 * (j + 1) - 1] /\ w[2 * j] = q[2 * (j + 1)]
    BY <1>13, <2>3, <2>4
  <2> QED
    BY <1>4, <2>1, <2>2, <2>5
<1>17. room = 2 => /\ w[2 * (c - 1) + 1] = Token("head", <<0>>)
                   /\ w[2 * (c - 1) + 2] = Token("tail", <<0>>)
  <2>1. room = 2 =>
          /\ 2 * (c - 1) + 1 \in 1..(k - 2) /\ 2 * (c - 1) + 2 \in 1..(k - 2)
          /\ (2 * (c - 1) + 1) + 2 = 2 * c + 1 /\ (2 * (c - 1) + 2) + 2 = 2 * c + 2
    BY <1>3, <1>7
  <2>2. \A i \in 1..(k - 2) : i \in 1..(Len(q) - 2)
    BY <1>7, <1>9
  <2> QED
    BY <1>5, <1>13, <2>1, <2>2
<1>18. ASSUME NEW i \in 1..(t - f[c - 1])
       PROVE  w[2 * (c - 1) + room + i] = Token("bare", <<f[c - 1] + i>>)
  <2>1. i \in 1..(t - e[c])
    BY <1>15
  <2>2. /\ 2 * (c - 1) + room + i \in 1..((k + (t - e[c])) - 2)
        /\ (2 * (c - 1) + room + i) + 2 = 2 * c + room + i
    BY <1>3, <1>6, <1>7, <2>1
  <2> QED
    BY <1>5, <1>8, <1>13, <1>15, <2>1, <2>2
<1>19. Len(w) = 2 * (c - 1) + room + (t - f[c - 1])
  <2>1. (k + (t - e[c])) - 2 = 2 * (c - 1) + room + (t - e[c])
    BY <1>3, <1>6, <1>7
  <2> QED
    BY <1>8, <1>13, <1>15, <2>1
<1>20. f[c - 1] <= t
  BY <1>6, <1>15
<1> QED
  BY <1>3, <1>14, <1>15, <1>16, <1>17, <1>18, <1>19, <1>20 DEF Laid

-----------------------------------------------------------------------------
(* How the counts of the two ends stay together: a record is sent, with a  *)
(* verdict on it or without; the sender changes to bare tokens; the        *)
(* receiver takes a record.                                                *)
LEMMA SyncedAfterRecord ==
  ASSUME NEW d, NEW s, NEW sc, NEW r, NEW gc, NEW t, NEW n, NEW c, NEW e, NEW s2, NEW sc2
  PROVE  /\ t \in Nat /\ n \in Nat \ {0} /\ c \in Nat /\ e \in [Nat -> Nat]
         /\ sc \in Nat /\ gc \in Nat
         /\ t = e[c]
         /\ Synced(d, s, sc, r, gc, t, 0, c, e)
         /\ \/ s = "sniffing" /\ s2 = Verdict(d, t, t + n, sc) /\ s2 # "raw"
            \/ s = "plain" /\ s2 = "plain"
         /\ s2 = "sniffing" => sc2 = sc + 1
         => Synced(d, s2, sc2, r, gc, t + n, 0, c + 1, [e EXCEPT ![c + 1] = t + n])
<1> DEFINE f == [e EXCEPT ![c + 1] = t + n]
<1>1. SUFFICES ASSUME t \in Nat, n \in Nat \ {0}, c \in Nat, e \in [Nat -> Nat],
                      sc \in Nat, gc \in Nat, t = e[c],
                      Synced(d, s, sc, r, gc, t, 0, c, e),
                      \/ s = "sniffing" /\ s2 = Verdict(d, t, t + n, sc) /\ s2 # "raw"
                      \/ s = "plain" /\ s2 = "plain",
                      s2 = "sniffing" => sc2 = sc + 1
               PROVE  Synced(d, s2, sc2, r, gc, t + n, 0, c + 1, f)
  OBVIOUS
<1>2. t \in Nat /\ n \in Nat \ {0} /\ t + n \in Nat /\ sc \in Nat /\ gc \in Nat
  BY <1>1
<1>3. c \in Nat /\ c + 1 \in Nat /\ c + 1 \in 1..(c + 1)
  BY <1>1
<1>4. f[c + 1] = t + n /\ \A j \in Nat : j # c + 1 => f[j] = e[j]
  BY <1>1, <1>2, <1>3
<1>5. f[(c + 1) - 1] = t
  <2>1. (c + 1) - 1 = c /\ c # c + 1
    BY <1>3
  <2> QED
    BY <1>1, <1>3, <1>4, <2>1
<1> HIDE DEF f
<1>6. ASSUME NEW j \in 1..c
      PROVE  /\ j \in 1..(c + 1)
             /\ Verdict(d, f[j - 1], f[j], gc + j - 1) = Verdict(d, e[j - 1], e[j], gc + j - 1)
  <2>1. j \in 1..(c + 1) /\ j \in Nat /\ j - 1 \in Nat /\ j # c + 1 /\ j - 1 # c + 1
    BY <1>3
  <2> QED
    BY <1>4, <2>1
<1>7. r = "plain" => s2 = "plain"
  <2>1. r = "plain" => s = "plain"
    BY <1>1 DEF Synced, Apart
  <2> QED
    BY <1>1, <2>1
<1>8. s2 # "raw"
  BY <1>1
<1>9. CASE s = "plain"
  <2>1. s2 = "plain"
    BY <1>1, <1>9
  <2>2. ASSUME r = "sniffing"
        PROVE  \E k \in 1..(c + 1) :
                 /\ Verdict(d, f[k - 1], f[k], gc + k - 1) = "plain"
                 /\ \A j \in 1..(k - 1) :
                      Verdict(d, f[j - 1], f[j], gc + j - 1) = "sniffing"
    <3>1. PICK k \in 1..c :
            /\ Verdict(d, e[k - 1], e[k], gc + k - 1) = "plain"
            /\ \A j \in 1..(k - 1) : Verdict(d, e[j - 1], e[j], gc + j - 1) = "sniffing"
      BY <1>1, <1>9, <2>2 DEF Synced, Apart
    <3>2. \A j \in 1..(k - 1) : j \in 1..c
      BY <1>3
    <3> QED
      BY <1>6, <3>1, <3>2
  <2> QED
    BY <1>4, <2>1, <2>2 DEF Synced, Apart
<1>10. CASE s = "sniffing"
  <2>1. r = "sniffing" =>
          /\ \A j \in 1..c : Verdict(d, e[j - 1], e[j], gc + j - 1) = "sniffing"
          /\ sc = gc + c
    BY <1>1, <1>10 DEF Synced, Apart
  <2>2. r = "sniffing" => Verdict(d, f[(c + 1) - 1], f[c + 1], gc + (c + 1) - 1) = s2
    <3>1. gc + (c + 1) - 1 = gc + c
      BY <1>2, <1>3
    <3> QED
      BY <1>1, <1>4, <1>5, <1>10, <2>1, <3>1
  <2>3. s2 \in {"sniffing", "plain"}
    <3>1. Verdict(d, t, t + n, sc) \in {"sniffing", "plain", "raw"}
      BY <1>2, VerdictsAre
    <3> QED
      BY <1>1, <1>10, <3>1
  <2>4. r = "sniffing" =>
          \A j \in 1..c : Verdict(d, f[j - 1], f[j], gc + j - 1) = "sniffing"
    BY <1>6, <2>1
  <2>5. CASE s2 = "sniffing"
    <3>1. ASSUME NEW j \in 1..(c + 1), r = "sniffing"
          PROVE  Verdict(d, f[j - 1], f[j], gc + j - 1) = "sniffing"
      <4>1. j \in 1..c \/ j = c + 1
        BY <1>3
      <4> QED
        BY <2>2, <2>4, <2>5, <3>1, <4>1
    <3>2. r = "sniffing" => sc2 = gc + (c + 1)
      <4>1. sc2 = sc + 1 /\ (gc + c) + 1 = gc + (c + 1)
        BY <1>1, <1>2, <1>3, <2>5
      <4> QED
        BY <2>1, <4>1
    <3> QED
      BY <1>4, <1>7, <2>5, <3>1, <3>2 DEF Synced, Apart
  <2>6. CASE s2 = "plain"
    <3>1. ASSUME r = "sniffing"
          PROVE  \E k \in 1..(c + 1) :
                   /\ Verdict(d, f[k - 1], f[k], gc + k - 1) = "plain"
                   /\ \A j \in 1..(k - 1) :
                        Verdict(d, f[j - 1], f[j], gc + j - 1) = "sniffing"
      <4>1. Verdict(d, f[(c + 1) - 1], f[c + 1], gc + (c + 1) - 1) = "plain"
        BY <2>2, <2>6, <3>1
      <4>2. \A j \in 1..((c + 1) - 1) : j \in 1..c
        BY <1>3
      <4> QED
        BY <1>3, <2>4, <3>1, <4>1, <4>2
    <3> QED
      BY <1>4, <1>7, <2>6, <3>1 DEF Synced, Apart
  <2> QED
    BY <2>3, <2>5, <2>6
<1> QED
  BY <1>1, <1>9, <1>10

LEMMA SyncedAfterSwitch ==
  ASSUME NEW d, NEW s, NEW sc, NEW r, NEW gc, NEW t, NEW n, NEW c, NEW e, NEW sc2,
         NEW room, NEW room2
  PROVE  /\ t \in Nat /\ n \in Nat \ {0} /\ c \in Nat /\ e \in [Nat -> Nat] /\ e[c] <= t
         /\ sc \in Nat /\ gc \in Nat
         /\ Synced(d, s, sc, r, gc, t, room, c, e)
         /\ \/ s = "sniffing" /\ Verdict(d, t, t + n, sc) = "raw"
            \/ s = "raw"
         => Synced(d, "raw", sc2, r, gc, t + n, room2, c, e)
<1>1. SUFFICES ASSUME t \in Nat, n \in Nat \ {0}, c \in Nat, e \in [Nat -> Nat], e[c] <= t,
                      sc \in Nat, gc \in Nat,
                      Synced(d, s, sc, r, gc, t, room, c, e),
                      \/ s = "sniffing" /\ Verdict(d, t, t + n, sc) = "raw"
                      \/ s = "raw"
               PROVE  Synced(d, "raw", sc2, r, gc, t + n, room2, c, e)
  OBVIOUS
<1>2. t + n > e[c]
  <2>1. e[c] \in Nat /\ e[c] <= t /\ t \in Nat /\ n \in Nat \ {0}
    BY <1>1
  <2> QED
    BY <2>1
<1>3. s # "plain" /\ r # "plain"
  BY <1>1 DEF Synced, Apart
<1>4. r = "sniffing" =>
        /\ \A j \in 1..c : Verdict(d, e[j - 1], e[j], gc + j - 1) = "sniffing"
        /\ s = "sniffing" => sc = gc + c
        /\ s = "raw" => gc + c \in 1..MaxPackets
  BY <1>1, <1>3 DEF Synced, Apart
<1>5. s = "sniffing" => sc \in 1..MaxPackets
  <2>1. t \in Nat /\ t + n \in Nat /\ sc \in Nat
    BY <1>1
  <2> QED
    BY <1>1, <2>1, VerdictsAre
<1>6. r = "sniffing" => gc + c \in 1..MaxPackets
  BY <1>1, <1>4, <1>5
<1> QED
  BY <1>2, <1>3, <1>4, <1>6 DEF Synced, Apart

LEMMA SyncedAfterTaking ==
  ASSUME NEW d, NEW s, NEW sc, NEW r, NEW gc, NEW t, NEW room, NEW c, NEW e, NEW v, NEW gc2
  PROVE  /\ c \in Nat \ {0} /\ e \in [Nat -> Nat] /\ gc \in Nat
         /\ s \in {"sniffing", "plain", "raw"} /\ r \in {"sniffing", "plain"}
         /\ Synced(d, s, sc, r, gc, t, room, c, e)
         /\ v = IF r = "plain" THEN "plain" ELSE Verdict(d, e[0], e[1], gc)
         /\ gc2 = IF r = "plain" \/ gc > MaxPackets THEN gc ELSE gc + 1
         => /\ v \in {"sniffing", "plain"}
            /\ Synced(d, s, sc, v, gc2, t, room, c - 1, [n \in Nat |-> e[n + 1]])
<1> DEFINE f == [n \in Nat |-> e[n + 1]]
<1>1. SUFFICES ASSUME c \in Nat \ {0}, e \in [Nat -> Nat], gc \in Nat,
                      s \in {"sniffing", "plain", "raw"}, r \in {"sniffing", "plain"},
                      Synced(d, s, sc, r, gc, t, room, c, e),
                      v = IF r = "plain" THEN "plain" ELSE Verdict(d, e[0], e[1], gc),
                      gc2 = IF r = "plain" \/ gc > MaxPackets THEN gc ELSE gc + 1
               PROVE  v \in {"sniffing", "plain"} /\ Synced(d, s, sc, v, gc2, t, room, c - 1, f)
  OBVIOUS
<1>2. c \in Nat /\ c - 1 \in Nat /\ 1 \in 1..c /\ gc \in Nat /\ (c - 1) + 1 = c
  <2>1. c \in Nat \ {0} /\ gc \in Nat
    BY <1>1
  <2> QED
    BY <2>1
<1>3. \A j \in Nat : f[j] = e[j + 1]
  OBVIOUS
<1> HIDE DEF f
<1>4. f[c - 1] = e[c]
  BY <1>2, <1>3
<1>5. /\ s # "raw" => room = 0 /\ t = f[c - 1]
      /\ s = "raw" => t > f[c - 1]
      /\ r = "plain" => s = "plain"
  BY <1>1, <1>4 DEF Synced, Apart
<1>6. CASE r = "plain"
  BY <1>1, <1>5, <1>6 DEF Synced, Apart
<1>7. CASE r = "sniffing"
  <2>1. v = Verdict(d, e[0], e[1], gc)
    BY <1>1, <1>7
  <2>2. v = Verdict(d, e[1 - 1], e[1], gc + 1 - 1)
    <3>1. 1 - 1 = 0 /\ gc + 1 - 1 = gc
      BY <1>2
    <3> QED
      BY <2>1, <3>1
  <2>3. v = "sniffing" => gc2 = gc + 1
    <3>1. e[0] \in Nat /\ e[1] \in Nat
      BY <1>1
    <3>2. v = "sniffing" => ~(gc > MaxPackets)
      BY <1>2, <2>1, <3>1, VerdictsAre
    <3> QED
      BY <1>1, <1>7, <3>2
  <2>4. ASSUME NEW j \in 1..(c - 1), v = "sniffing"
        PROVE  /\ j + 1 \in 1..c
               /\ Verdict(d, f[j - 1], f[j], gc2 + j - 1)
                    = Verdict(d, e[(j + 1) - 1], e[j + 1], gc + (j + 1) - 1)
    <3>1. /\ j + 1 \in 1..c /\ j \in Nat /\ j - 1 \in Nat /\ (j - 1) + 1 = (j + 1) - 1
          /\ (gc + 1) + j - 1 = gc + (j + 1) - 1
      BY <1>2
    <3> QED
      BY <1>3, <2>3, <2>4, <3>1
  <2>5. CASE s # "plain"
    <3>1. /\ \A j \in 1..c : Verdict(d, e[j - 1], e[j], gc + j - 1) = "sniffing"
          /\ s = "sniffing" => sc = gc + c
          /\ s = "raw" => gc + c \in 1..MaxPackets
      BY <1>1, <1>7, <2>5 DEF Synced, Apart
    <3>2. v = "sniffing"
      BY <1>2, <2>2, <3>1
    <3>3. (gc + 1) + (c - 1) = gc + c
      BY <1>2
    <3>4. \A j \in 1..(c - 1) : Verdict(d, f[j - 1], f[j], gc2 + j - 1) = "sniffing"
      BY <2>4, <3>1, <3>2
    <3> QED
      BY <1>5, <2>3, <2>5, <3>1, <3>2, <3>3, <3>4 DEF Synced, Apart
  <2>6. CASE s = "plain"
    <3>1. PICK k \in 1..c :
            /\ Verdict(d, e[k - 1], e[k], gc + k - 1) = "plain"
            /\ \A j \in 1..(k - 1) : Verdict(d, e[j - 1], e[j], gc + j - 1) = "sniffing"
      BY <1>1, <1>7, <2>6 DEF Synced, Apart
    <3>2. CASE k = 1
      <4>1. v = "plain"
        BY <2>2, <3>1, <3>2
      <4> QED
        BY <1>5, <2>6, <4>1 DEF Synced, Apart
    <3>3. CASE k # 1
      <4>1. /\ 1 \in 1..(k - 1) /\ k - 1 \in 1..(c - 1) /\ (k - 1) + 1 = k
            /\ \A j \in 1..((k - 1) - 1) : j \in 1..(c - 1) /\ j + 1 \in 1..(k - 1)
        BY <1>2, <3>3
      <4>2. v = "sniffing"
        BY <2>2, <3>1, <4>1
      <4>3. Verdict(d, f[(k - 1) - 1], f[k - 1], gc2 + (k - 1) - 1) = "plain"
        BY <2>4, <3>1, <4>1, <4>2
      <4>4. \A j \in 1..((k - 1) - 1) :
              Verdict(d, f[j - 1], f[j], gc2 + j - 1) = "sniffing"
        BY <2>4, <3>1, <4>1, <4>2
      <4> QED
        BY <1>5, <2>6, <4>1, <4>2, <4>3, <4>4 DEF Synced, Apart
    <3> QED
      BY <3>2, <3>3
  <2> QED
    BY <2>5, <2>6
<1> QED
  BY <1>1, <1>6, <1>7

-----------------------------------------------------------------------------
(* What comes next of all that is under way.                               *)
Begins(q, base, t, room, c, e) ==
  /\ c # 0 => /\ 1 \in 1..c /\ base \in Nat /\ e[1] \in Nat
              /\ e[0] = base /\ base < e[1] /\ e[1] <= t
              /\ q[1] = Token("head", Chunk(base, e[1]))
              /\ q[2] = Token("tail", Chunk(base, e[1]))
  /\ c = 0 /\ room = 2 =>
       /\ q[1] = Token("head", <<0>>) /\ q[2] = Token("tail", <<0>>)
       /\ Len(q) = 2 + (t - base) /\ base \in Nat /\ base <= t
       /\ \A i \in 1..(t - base) : q[2 + i] = Token("bare", <<base + i>>)
  /\ c = 0 /\ room = 0 =>
       /\ Len(q) = t - base /\ base \in Nat /\ base <= t /\ base = e[c]
       /\ \A i \in 1..(t - base) : q[i] = Token("bare", <<base + i>>)

LEMMA Beginning ==
  ASSUME NEW q, NEW base, NEW t, NEW room, NEW c, NEW e
  PROVE  /\ t \in Nat /\ room \in {0, 2} /\ Laid(q, base, t, room, c, e)
         => Begins(q, base, t, room, c, e)
<1>1. SUFFICES ASSUME t \in Nat, room \in {0, 2}, Laid(q, base, t, room, c, e)
               PROVE  Begins(q, base, t, room, c, e)
  OBVIOUS
<1>2. /\ c \in Nat /\ e \in [Nat -> Nat] /\ e[0] = base /\ e[c] <= t
      /\ \A j \in 1..c :
           /\ e[j - 1] < e[j] /\ e[j] <= t
           /\ q[2 * j - 1] = Token("head", Chunk(e[j - 1], e[j]))
           /\ q[2 * j] = Token("tail", Chunk(e[j - 1], e[j]))
      /\ room = 2 => q[2 * c + 1] = Token("head", <<0>>) /\ q[2 * c + 2] = Token("tail", <<0>>)
      /\ Len(q) = 2 * c + room + (t - e[c])
      /\ \A i \in 1..(t - e[c]) : q[2 * c + room + i] = Token("bare", <<e[c] + i>>)
  BY <1>1 DEF Laid
<1>3. base \in Nat /\ e[1] \in Nat
  BY <1>2
<1>4. ASSUME c # 0
      PROVE  /\ 1 \in 1..c /\ e[0] = base /\ base < e[1] /\ e[1] <= t
             /\ q[1] = Token("head", Chunk(base, e[1]))
             /\ q[2] = Token("tail", Chunk(base, e[1]))
  <2>1. c \in Nat
    BY <1>2
  <2>2. 1 \in 1..c /\ 1 - 1 = 0 /\ 2 * 1 - 1 = 1 /\ 2 * 1 = 2
    BY <1>4, <2>1
  <2>3. /\ e[1 - 1] < e[1] /\ e[1] <= t
        /\ q[2 * 1 - 1] = Token("head", Chunk(e[1 - 1], e[1]))
        /\ q[2 * 1] = Token("tail", Chunk(e[1 - 1], e[1]))
    BY <1>2, <2>2
  <2>4. e[0] = base
    BY <1>2
  <2> QED
    BY <2>2, <2>3, <2>4
<1>5. ASSUME c = 0, room = 2
      PROVE  /\ q[1] = Token("head", <<0>>) /\ q[2] = Token("tail", <<0>>)
             /\ Len(q) = 2 + (t - base) /\ base <= t
             /\ \A i \in 1..(t - base) : q[2 + i] = Token("bare", <<base + i>>)
  <2>1. e[c] = base
    BY <1>2, <1>5
  <2>2. /\ 2 * c + 1 = 1 /\ 2 * c + 2 = 2 /\ 2 * c + room = 2
    BY <1>5
  <2> QED
    BY <1>2, <1>5, <2>1, <2>2
<1>6. ASSUME c = 0, room = 0
      PROVE  /\ Len(q) = t - base /\ base <= t /\ base = e[c]
             /\ \A i \in 1..(t - base) : q[i] = Token("bare", <<base + i>>)
  <2>1. e[c] = base
    BY <1>2, <1>6
  <2>2. 2 * c + room = 0
    BY <1>6
  <2>3. t - base \in Int /\ \A i \in 1..(t - base) : 0 + i = i
    BY <1>1, <1>3
  <2>4. 0 + (t - base) = t - base
    BY <2>3
  <2> QED
    BY <1>2, <2>1, <2>2, <2>3, <2>4
<1> QED
  BY <1>3, <1>4, <1>5, <1>6 DEF Begins

LEMMA RestOfBoth ==
  ASSUME NEW a, NEW b
  PROVE  a \in Seq(Tokens) /\ b \in Seq(Tokens) /\ Len(a) > 1
         => /\ SubSeq(a, 3, Len(a)) \in Seq(Tokens)
            /\ SubSeq(a, 3, Len(a)) \o b = SubSeq(a \o b, 3, Len(a \o b))
<1> DEFINE u == SubSeq(a, 3, Len(a))
           w == a \o b
           v == SubSeq(w, 3, Len(w))
<1>1. SUFFICES ASSUME a \in Seq(Tokens), b \in Seq(Tokens), Len(a) > 1
               PROVE  u \in Seq(Tokens) /\ u \o b = v
  OBVIOUS
<1> DEFINE m == Len(a)
           k == Len(b)
<1>2. m \in Nat /\ k \in Nat
  BY <1>1, LenProperties
<1>3. m >= 2
  BY <1>1, <1>2
<1>4. /\ w \in Seq(Tokens) /\ Len(w) = m + k
      /\ \A i \in 1..m : w[i] = a[i]
      /\ \A i \in 1..k : w[m + i] = b[i]
  BY <1>1, JoinedTokens
<1>5. /\ \A i \in 1..m : a[i] \in Tokens
      /\ \A i \in 1..Len(w) : w[i] \in Tokens
  <2> HIDE DEF w
  <2> QED
    BY <1>1, <1>4, ElementOfSeq
<1> HIDE DEF w, k
<1>6. /\ \A i \in 3..m : i \in 1..m
      /\ \A i \in 3..(m + k) : i \in 1..(m + k)
      /\ 3 \in Int /\ m \in Int /\ m + k \in Int
      /\ m - 3 + 1 = m - 2 /\ (m + k) - 3 + 1 = (m + k) - 2
      /\ \A i \in 1..(m + k) : 3 + i - 1 = i + 2
      /\ m - 2 \in Nat /\ (m + k) - 2 = (m - 2) + k /\ (m + k) - 2 \in Nat
  BY <1>2, <1>3
<1>7. \A l \in Nat : l >= 2 => (IF 3 <= l THEN l - 3 + 1 ELSE 0) = l - 2
  OBVIOUS
<1>8. u \in Seq(Tokens) /\ Len(u) = m - 2 /\ \A i \in 1..(m - 2) : u[i] = a[i + 2]
  <2>1. \A i \in 3..m : a[i] \in Tokens
    BY <1>5, <1>6
  <2>2. /\ u \in Seq(Tokens)
        /\ Len(u) = IF 3 <= m THEN m - 3 + 1 ELSE 0
        /\ \A i \in 1..(m - 3 + 1) : u[i] = a[3 + i - 1]
    BY <1>6, <2>1, SubSeqProperties
  <2>3. \A i \in 1..(m - 2) : 3 + i - 1 = i + 2
    BY <1>2
  <2> HIDE DEF u, m
  <2> QED
    BY <1>2, <1>3, <1>6, <1>7, <2>2, <2>3
<1>9. /\ v \in Seq(Tokens) /\ Len(v) = (m - 2) + k
      /\ \A i \in 1..((m - 2) + k) : v[i] = w[i + 2]
  <2> DEFINE l == Len(w)
  <2>1. l = m + k /\ l \in Nat /\ l >= 2
    <3> HIDE DEF m
    <3> QED
      BY <1>2, <1>3, <1>4
  <2>2. \A i \in 3..l : w[i] \in Tokens
    BY <1>5, <1>6, <2>1
  <2>3. /\ v \in Seq(Tokens)
        /\ Len(v) = IF 3 <= l THEN l - 3 + 1 ELSE 0
        /\ \A i \in 1..(l - 3 + 1) : v[i] = w[3 + i - 1]
    BY <2>1, <2>2, SubSeqProperties
  <2> HIDE DEF v, l, m
  <2>4. Len(v) = l - 2
    BY <1>7, <2>1, <2>3
  <2>5. l - 2 = (m - 2) + k /\ l - 3 + 1 = (m - 2) + k
    BY <1>2, <1>6, <2>1
  <2>6. \A i \in 1..((m - 2) + k) : 3 + i - 1 = i + 2
    BY <1>2
  <2> QED
    BY <2>3, <2>4, <2>5, <2>6
<1> HIDE DEF u, v
<1> DEFINE x == u \o b
<1>10. /\ x \in Seq(Tokens) /\ Len(x) = Len(u) + Len(b)
       /\ \A i \in 1..Len(u) : x[i] = u[i]
       /\ \A i \in 1..Len(b) : x[Len(u) + i] = b[i]
  BY <1>1, <1>8, JoinedTokens
<1> HIDE DEF x, m
<1>11. /\ Len(x) = (m - 2) + k
       /\ \A i \in 1..(m - 2) : x[i] = u[i]
       /\ \A i \in 1..k : x[(m - 2) + i] = b[i]
  BY <1>8, <1>10 DEF k
<1>12. ASSUME NEW i \in 1..((m - 2) + k) PROVE x[i] = v[i]
  <2>1. CASE i <= m - 2
    <3>1. i \in 1..(m - 2) /\ i + 2 \in 1..m
      BY <1>2, <1>3, <2>1
    <3> QED
      BY <1>4, <1>8, <1>9, <1>11, <3>1
  <2>2. CASE ~(i <= m - 2)
    <3> DEFINE j == i - (m - 2)
    <3>1. j \in 1..k /\ (m - 2) + j = i /\ m + j = i + 2
      BY <1>2, <1>3, <2>2
    <3> HIDE DEF j
    <3>2. x[i] = b[j] /\ w[i + 2] = b[j]
      BY <1>4, <1>11, <3>1
    <3> QED
      BY <1>9, <3>2
  <2> QED
    BY <2>1, <2>2
<1>13. x = v
  BY <1>9, <1>10, <1>11, <1>12, SeqEqual
<1> QED
  BY <1>8, <1>13 DEF x

LEMMA SeenBare ==
  ASSUME NEW tokens, NEW b
  PROVE  /\ tokens \in Seq(Tokens) /\ b \in Nat
         /\ \A i \in 1..Len(tokens) : tokens[i] = Token("bare", <<b + i>>)
         => /\ TlsLazy!Seen(tokens) \in Seq(Nat)
            /\ Len(TlsLazy!Seen(tokens)) = Len(tokens)
            /\ \A i \in 1..Len(tokens) : TlsLazy!Seen(tokens)[i] = b + i
<1> DEFINE s == TlsLazy!Seen(tokens)
           k == Len(tokens)
<1>1. SUFFICES ASSUME tokens \in Seq(Tokens), b \in Nat,
                      \A i \in 1..k : tokens[i] = Token("bare", <<b + i>>)
               PROVE  s \in Seq(Nat) /\ Len(s) = k /\ \A i \in 1..k : s[i] = b + i
  OBVIOUS
<1>2. k \in Nat /\ b \in Nat
  BY <1>1, LenProperties
<1>3. s = [i \in 1..k |-> IF tokens[i].part = "bare" THEN tokens[i].carries[1] ELSE TlsLazy!Command]
  BY DEF TlsLazy!Seen
<1> HIDE DEF k
<1>4. \A i \in 1..k :
        (IF tokens[i].part = "bare" THEN tokens[i].carries[1] ELSE TlsLazy!Command) = b + i
  <2>1. ASSUME NEW i \in 1..k
        PROVE  tokens[i].part = "bare" /\ tokens[i].carries = <<b + i>>
    <3>1. \A p : Token("bare", p).part = "bare" /\ Token("bare", p).carries = p
      BY DEF Token
    <3>2. tokens[i] = Token("bare", <<b + i>>)
      BY <1>1, <2>1
    <3> QED
      BY <3>1, <3>2
  <2>2. ASSUME NEW i \in 1..k
        PROVE  <<b + i>>[1] = b + i
    OBVIOUS
  <2> QED
    BY <2>1, <2>2
<1>5. s = [i \in 1..k |-> b + i]
  BY <1>3, <1>4
<1>6. \A i \in 1..k : b + i \in Nat
  BY <1>2
<1> HIDE DEF s
<1>7. s \in Seq(Nat)
  <2>1. [i \in 1..k |-> b + i] \in Seq(Nat)
    BY <1>2, <1>6, IsASeq
  <2> QED
    BY <1>5, <2>1
<1>8. DOMAIN s = 1..k /\ \A i \in 1..k : s[i] = b + i
  BY <1>5
<1>9. Len(s) = k
  BY <1>2, <1>7, <1>8, LenProperties
<1> QED
  BY <1>7, <1>8, <1>9 DEF k, s

LEMMA InOrderExtended ==
  ASSUME NEW f, NEW g
  PROVE  /\ f \in Seq(Nat) /\ g \in Seq(Nat)
         /\ \A k \in 1..Len(f) : f[k] = k
         /\ \A i \in 1..Len(g) : g[i] = Len(f) + i
         => /\ f \o g \in Seq(Nat) /\ Len(f \o g) = Len(f) + Len(g)
            /\ \A k \in 1..Len(f \o g) : (f \o g)[k] = k
<1> DEFINE w == f \o g
           m == Len(f)
           l == Len(g)
<1>1. SUFFICES ASSUME f \in Seq(Nat), g \in Seq(Nat),
                      \A k \in 1..m : f[k] = k,
                      \A i \in 1..l : g[i] = m + i
               PROVE  w \in Seq(Nat) /\ Len(w) = m + l /\ \A k \in 1..Len(w) : w[k] = k
  OBVIOUS
<1>2. m \in Nat /\ l \in Nat
  BY <1>1, LenProperties
<1>3. /\ w \in Seq(Nat) /\ Len(w) = m + l
      /\ \A i \in 1..(m + l) : w[i] = IF i <= m THEN f[i] ELSE g[i - m]
  BY <1>1, ConcatProperties
<1> HIDE DEF w, m, l
<1>4. ASSUME NEW k \in 1..(m + l) PROVE w[k] = k
  <2>1. CASE k <= m
    <3>1. k \in 1..m
      BY <1>2, <2>1
    <3> QED
      BY <1>1, <1>3, <2>1, <3>1
  <2>2. CASE ~(k <= m)
    <3>1. k - m \in 1..l /\ m + (k - m) = k
      BY <1>2, <2>2
    <3> QED
      BY <1>1, <1>3, <2>2, <3>1
  <2> QED
    BY <2>1, <2>2
<1> QED
  BY <1>3, <1>4 DEF w, m, l

-----------------------------------------------------------------------------
LEMMA LazyStart ==
  ASSUME TlsLazy!Init
  PROVE  LazyInv
<1> DEFINE e == [n \in Nat |-> 0]
<1>1. \A S : <<>> \in Seq(S) /\ Len(<<>>) = 0
  BY EmptySeq
<1>2. e \in [Nat -> Nat] /\ e[0] = 0
  OBVIOUS
<1>3. rawInput \o net = <<>>
  <2>1. rawInput = <<>> /\ net = <<>>
    BY DEF TlsLazy!Init
  <2> QED
    BY <1>1, <2>1, ConcatEmptySeq
<1> HIDE DEF e
<1>4. Laid(<<>>, 0, 0, 0, 0, e)
  <2>1. 1..0 = {} /\ 0 - 0 = 0 /\ 2 * 0 + 0 + (0 - 0) = 0 /\ 0 # 2
    OBVIOUS
  <2> QED
    BY <1>1, <1>2, <2>1 DEF Laid
<1>5. Synced(dir, "sniffing", sentCount, "sniffing", gotCount, 0, 0, 0, e)
  <2>1. gotCount \in Nat /\ sentCount = gotCount
    BY DEF TlsLazy!Init
  <2>2. sentCount = gotCount + 0 /\ 1..0 = {}
    BY <2>1
  <2> QED
    BY <1>2, <2>2 DEF Synced, Apart
<1>12. writing = <<>> /\ cut = FALSE /\ taken = 0 /\ Len(writing) = 0
  BY <1>1 DEF TlsLazy!Init
<1>13. WrittenTo = 0
  <2>1. WrittenTo = 0 - 0
    BY <1>12 DEF WrittenTo
  <2> QED
    BY <2>1
<1>14. Pending
  BY <1>12, <1>13 DEF Pending, TlsLazy!Init
<1>6. Under
  <2>1. /\ receiver = "sniffing" /\ sender = "sniffing" /\ taken = 0 /\ announced = FALSE
        /\ last = <<>> /\ forwarded = <<>>
    BY DEF TlsLazy!Init
  <2>2. Room = 0 /\ Len(forwarded) = 0 /\ ~(Len(last) > 1)
    BY <1>1, <2>1 DEF Room
  <2>3. 0 \in Nat
    OBVIOUS
  <2> QED
    BY <1>2, <1>3, <1>4, <1>5, <1>12, <1>13, <2>1, <2>2, <2>3
       DEF Under, LastIsLeft, Counted, Synced
<1>7. LazyTypes
  <2>1. known \in BOOLEAN /\ announced \in BOOLEAN
    BY DEF TlsLazy!Init
  <2>2. /\ dir \in {"up", "down"} /\ taken \in 0..6
        /\ sender \in {"sniffing", "raw", "plain"}
        /\ receiver \in {"sniffing", "raw", "plain", "closed"}
        /\ sentCount \in Nat /\ gotCount \in Nat
        /\ found \in {"none", "first", "elsewhere", "missed"}
    BY DEF TlsLazy!Init
  <2>3. net \in Seq(Tokens) /\ rawInput \in Seq(Tokens) /\ last \in Seq(Tokens)
        /\ writing \in Seq(Nat) /\ cut \in BOOLEAN
    BY <1>1, <1>12 DEF TlsLazy!Init
  <2> QED
    BY <2>1, <2>2, <2>3 DEF LazyTypes
<1>8. InOrder
  BY <1>1 DEF TlsLazy!Init, InOrder
<1> QED
  BY <1>6, <1>7, <1>8, <1>14 DEF TlsLazy!Init, LazyInv

LEMMA LazyLearns ==
  ASSUME LazyInv, TlsLazy!LearnCommand
  PROVE  LazyInv'
<1>1. UNCHANGED <<dir, taken, writing, cut, announced, sender, sentCount, net, rawInput, last,
                  receiver, gotCount, found, forwarded>>
      /\ known' = TRUE
  BY DEF TlsLazy!LearnCommand
<1>2. LazyTypes' /\ Under' = Under /\ InOrder' = InOrder /\ Pending' = Pending
      /\ GivenUp' = GivenUp /\ Switched' = Switched
  <2>1. LazyTypes'
    BY <1>1 DEF LazyInv, LazyTypes
  <2>2. Room' = Room /\ LastIsLeft' = LastIsLeft
    BY <1>1 DEF Room, LastIsLeft
  <2>5. WrittenTo' = WrittenTo /\ Pending' = Pending
    BY <1>1 DEF WrittenTo, Pending
  <2>3. Under' = Under
    BY <1>1, <2>2, <2>5 DEF Under, Counted
  <2>4. InOrder' = InOrder /\ GivenUp' = GivenUp /\ Switched' = Switched
    BY <1>1 DEF InOrder, GivenUp, Switched
  <2> QED
    BY <2>1, <2>3, <2>4, <2>5
<1> QED
  BY <1>1, <1>2 DEF LazyInv

(* The packet, and what is made of it.                                     *)
LEMMA Sending ==
  ASSUME LazyTypes, TlsLazy!Send
  PROVE  \E n \in 1..(6 - taken) :
           /\ taken' = taken + n /\ sentCount' \in {sentCount, sentCount + 1}
           /\ \/ /\ \/ sender = "sniffing" /\ sender' = Verdict(dir, taken, taken + n, sentCount)
                       /\ sender' # "raw"
                    \/ sender = "plain" /\ sender' = "plain"
                 /\ sender' = "sniffing" => sentCount' = sentCount + 1
                 /\ announced' = announced /\ net' = net
                 /\ writing' = Chunk(taken, taken + n)
              \/ /\ sender = "sniffing" /\ sender' = "raw" /\ writing' = writing
                 /\ Verdict(dir, taken, taken + n, sentCount) = "raw"
                 /\ announced' = known
                 /\ net' = net \o (IF known THEN TlsLazy!Record(<<0>>) ELSE <<>>)
                               \o TlsLazy!Bare(Chunk(taken, taken + n))
              \/ /\ sender = "raw" /\ sender' = "raw" /\ announced' = announced
                 /\ writing' = writing
                 /\ net' = net \o TlsLazy!Bare(Chunk(taken, taken + n))
<1>1. Len(TlsLazy!Stream) = 6
  BY DEF TlsLazy!Stream
<1>2. taken \in 0..6 /\ dir \in {"up", "down"} /\ sentCount \in Nat
      /\ sender \in {"sniffing", "raw", "plain"}
  BY DEF LazyTypes
<1>3. PICK n \in 1..(6 - taken) :
        LET p == [i \in 1..n |-> taken + i]
        IN /\ taken' = taken + Len(p)
           /\ CASE sender = "sniffing" ->
                     /\ sender' = TlsLazy!CommonDetect(p, sentCount, FALSE)
                     /\ sentCount' = IF sentCount > MaxPackets THEN sentCount ELSE sentCount + 1
                     /\ IF sender' = "raw"
                        THEN TlsLazy!Announce(p) /\ UNCHANGED writing
                        ELSE writing' = p /\ UNCHANGED <<net, announced>>
                [] sender = "plain" ->
                     writing' = p /\ UNCHANGED <<net, sender, sentCount, announced>>
                [] sender = "raw" ->
                     net' = net \o TlsLazy!Bare(p)
                       /\ UNCHANGED <<writing, sender, sentCount, announced>>
  BY <1>1 DEF TlsLazy!Send, TlsLazy!Packets
<1>4. /\ taken \in Nat /\ taken + n \in Nat /\ taken < taken + n /\ taken + n <= 6
      /\ (taken + n) - taken = n
  BY <1>2
<1> DEFINE p == Chunk(taken, taken + n)
<1>5. p = [i \in 1..n |-> taken + i] /\ Len(p) = n
  BY <1>4, ChunksAreSeqs DEF Chunk
<1>6. TlsLazy!CommonDetect(p, sentCount, FALSE) = Verdict(dir, taken, taken + n, sentCount)
  BY <1>2, <1>4, SameVerdict
<1> HIDE DEF p
<1>7. taken' = taken + n /\ sentCount' \in {sentCount, sentCount + 1}
  BY <1>2, <1>3, <1>5
<1>8. CASE sender = "sniffing"
  <2>1. /\ sender' = TlsLazy!CommonDetect(p, sentCount, FALSE)
        /\ sentCount' = IF sentCount > MaxPackets THEN sentCount ELSE sentCount + 1
        /\ IF sender' = "raw"
           THEN TlsLazy!Announce(p) /\ UNCHANGED writing
           ELSE writing' = p /\ UNCHANGED <<net, announced>>
    BY <1>3, <1>5, <1>8
  <2>2. sender' = Verdict(dir, taken, taken + n, sentCount)
    BY <1>6, <2>1
  <2>3. sender' = "sniffing" => sentCount' = sentCount + 1
    <3>1. sender' = "sniffing" => ~(sentCount > MaxPackets)
      BY <1>2, <1>4, <2>2, VerdictsAre
    <3> QED
      BY <2>1, <3>1
  <2>4. CASE sender' = "raw"
    <3>1. /\ announced' = known /\ writing' = writing
          /\ net' = net \o (IF known THEN TlsLazy!Record(<<0>>) ELSE <<>>) \o TlsLazy!Bare(p)
      BY <2>1, <2>4 DEF TlsLazy!Announce, TlsLazy!Command
    <3> QED
      BY <1>7, <1>8, <2>2, <2>4, <3>1 DEF p
  <2>5. CASE sender' # "raw"
    BY <1>7, <1>8, <2>1, <2>2, <2>3, <2>5 DEF p
  <2> QED
    BY <2>4, <2>5
<1>9. CASE sender = "plain"
  <2>1. writing' = p /\ UNCHANGED <<net, sender, sentCount, announced>>
    BY <1>3, <1>5, <1>9
  <2> QED
    BY <1>7, <1>9, <2>1 DEF p
<1>10. CASE sender = "raw"
  <2>1. net' = net \o TlsLazy!Bare(p) /\ UNCHANGED <<writing, sender, sentCount, announced>>
    BY <1>3, <1>5, <1>10
  <2> QED
    BY <1>7, <1>10, <2>1 DEF p
<1> QED
  BY <1>2, <1>8, <1>9, <1>10

LEMMA LazySends ==
  ASSUME LazyInv, TlsLazy!Send
  PROVE  LazyInv'
<1>1. LazyTypes
  BY DEF LazyInv
<1>2. /\ UNCHANGED <<dir, known, cut, rawInput, last, writeCount, receiver, gotCount, found,
                     forwarded>>
      /\ writing = <<>> /\ WrittenTo = taken
  BY DEF TlsLazy!Send, LazyInv, Pending
<1>3. PICK n \in 1..(6 - taken) :
        /\ taken' = taken + n /\ sentCount' \in {sentCount, sentCount + 1}
        /\ \/ /\ \/ sender = "sniffing" /\ sender' = Verdict(dir, taken, taken + n, sentCount)
                    /\ sender' # "raw"
                 \/ sender = "plain" /\ sender' = "plain"
              /\ sender' = "sniffing" => sentCount' = sentCount + 1
              /\ announced' = announced /\ net' = net
              /\ writing' = Chunk(taken, taken + n)
           \/ /\ sender = "sniffing" /\ sender' = "raw" /\ writing' = writing
              /\ Verdict(dir, taken, taken + n, sentCount) = "raw"
              /\ announced' = known
              /\ net' = net \o (IF known THEN TlsLazy!Record(<<0>>) ELSE <<>>)
                            \o TlsLazy!Bare(Chunk(taken, taken + n))
           \/ /\ sender = "raw" /\ sender' = "raw" /\ announced' = announced
              /\ writing' = writing
              /\ net' = net \o TlsLazy!Bare(Chunk(taken, taken + n))
  BY <1>1, Sending
<1> DEFINE t == taken
           p == Chunk(t, t + n)
           q == rawInput \o net
<1>4. /\ t \in Nat /\ n \in Nat \ {0} /\ n \in Nat /\ t + n \in Nat /\ t < t + n
      /\ t + n \in 0..6 /\ (t + n) - t = n
  <2>1. taken \in 0..6
    BY <1>1 DEF LazyTypes
  <2> QED
    BY <2>1
<1>5. /\ p \in Seq(Nat) /\ Len(p) = n /\ p # <<>>
      /\ TlsLazy!Bare(p) \in Seq(Tokens)
      /\ Len(TlsLazy!Bare(p)) = n
      /\ \A i \in 1..n : TlsLazy!Bare(p)[i] = Token("bare", <<t + i>>)
      /\ TlsLazy!Record(<<0>>) \in Seq(Tokens) /\ <<>> \in Seq(Tokens)
  <2>1. p \in Seq(Nat) /\ Len(p) = n /\ p # <<>>
    <3>1. p \in Seq(Nat) /\ Len(p) = n
      BY <1>4, ChunksAreSeqs
    <3> HIDE DEF p
    <3>2. p # <<>>
      BY <1>4, <3>1, EmptySeq
    <3> QED
      BY <3>1, <3>2
  <2>2. /\ TlsLazy!Bare(p) \in Seq(Tokens) /\ Len(TlsLazy!Bare(p)) = n
        /\ \A i \in 1..n : TlsLazy!Bare(p)[i] = Token("bare", <<t + i>>)
    BY <1>4, BareAre
  <2>3. TlsLazy!Record(<<0>>) \in Seq(Tokens)
    BY RecordsAre, CommandIs
  <2>4. <<>> \in Seq(Tokens)
    BY EmptySeq
  <2> QED
    BY <2>1, <2>2, <2>3, <2>4
<1>6. rawInput \in Seq(Tokens) /\ net \in Seq(Tokens) /\ q \in Seq(Tokens)
  <2>1. rawInput \in Seq(Tokens) /\ net \in Seq(Tokens)
    BY <1>1 DEF LazyTypes
  <2> QED
    BY <2>1, JoinedTokens
<1>7. \A x \in Seq(Tokens) : net \o x \in Seq(Tokens) /\ rawInput \o (net \o x) = q \o x
  <2>1. ASSUME NEW x \in Seq(Tokens)
        PROVE  net \o x \in Seq(Tokens) /\ rawInput \o (net \o x) = q \o x
    BY <1>6, JoinedTokens, ConcatAssociative, SMTT(40)
  <2> QED
    BY <2>1
<1> HIDE DEF p, q
<1>8. /\ known \in BOOLEAN /\ announced \in BOOLEAN /\ sentCount \in Nat /\ gotCount \in Nat
      /\ sender \in {"sniffing", "raw", "plain"}
  BY <1>1 DEF LazyTypes
(* The first of the three: what is to be written as records *)
<1>9. CASE /\ \/ sender = "sniffing" /\ sender' = Verdict(dir, t, t + n, sentCount)
                   /\ sender' # "raw"
              \/ sender = "plain" /\ sender' = "plain"
           /\ sender' = "sniffing" => sentCount' = sentCount + 1
           /\ announced' = announced /\ net' = net
           /\ writing' = p
  <2>1. rawInput' \o net' = q
    BY <1>2, <1>9 DEF q
  <2>2. sender # "raw" /\ sender' \in {"sniffing", "plain"}
    <3>1. Verdict(dir, t, t + n, sentCount) \in {"sniffing", "plain", "raw"}
      BY <1>4, <1>8, VerdictsAre
    <3> QED
      BY <1>9, <3>1
  <2>3. WrittenTo' = t /\ Pending'
    <3>1. WrittenTo' = (t + n) - n
      BY <1>3, <1>5, <1>9 DEF WrittenTo
    <3>2. WrittenTo' = t
      BY <1>4, <3>1
    <3> QED
      BY <1>3, <1>4, <1>5, <1>9, <2>2, <3>2 DEF Pending, p
  <2>4. ASSUME Under PROVE Under'
    <3>1. PICK c \in Nat, e \in [Nat -> Nat] :
            /\ Laid(q, Len(forwarded), t, Room, c, e)
            /\ Apart(sender, t, Room, c, e)
            /\ ~cut => Synced(dir, sender, sentCount, receiver, gotCount, t, Room, c, e)
      BY <1>2, <2>4 DEF Under, Counted, q
    <3>2. Room = 0 /\ t = e[c] /\ Room' = 0
      <4>1. Room = 0 /\ t = e[c]
        BY <2>2, <3>1 DEF Apart
      <4> QED
        BY <1>9, <4>1 DEF Room
    <3> DEFINE f == [e EXCEPT ![c + 1] = t + n]
    <3>3. ~cut => Synced(dir, sender', sentCount', receiver, gotCount, t + n, 0, c + 1, f)
      BY <1>4, <1>8, <1>9, <3>1, <3>2, SyncedAfterRecord
    <3>4. ~cut' => Counted(c, e)'
      BY <1>2, <1>3, <1>5, <1>9, <3>2, <3>3 DEF Counted
    <3>5. Laid(q, Len(forwarded), t, 0, c, e) /\ Apart(sender', t, 0, c, e)
      BY <2>2, <3>1, <3>2 DEF Apart
    <3>6. LastIsLeft' = LastIsLeft
      BY <1>2 DEF LastIsLeft
    <3> QED
      BY <1>2, <2>1, <2>3, <2>4, <3>2, <3>4, <3>5, <3>6 DEF Under
  <2>5. ~GivenUp /\ ~Switched
    BY <2>2 DEF GivenUp, Switched
  <2>6. InOrder' = InOrder
    BY <1>2 DEF InOrder
  <2>7. LazyTypes'
    <3>1. sentCount' \in Nat
      BY <1>3, <1>8
    <3> QED
      BY <1>1, <1>2, <1>3, <1>4, <1>5, <1>9, <2>2, <3>1 DEF LazyTypes
  <2> QED
    BY <1>2, <2>3, <2>4, <2>5, <2>6, <2>7 DEF LazyInv
(* The other two: bare tokens, after the command or not *)
<1>10. ASSUME sender' = "raw", writing' = writing,
              \/ /\ sender = "sniffing" /\ announced' = known
                 /\ Verdict(dir, t, t + n, sentCount) = "raw"
                 /\ net' = net \o (IF known THEN TlsLazy!Record(<< 0 >>) ELSE <<>>)
                               \o TlsLazy!Bare(p)
              \/ /\ sender = "raw" /\ announced' = announced
                 /\ net' = net \o TlsLazy!Bare(p)
       PROVE  LazyInv'
  <2>1. sender = "sniffing" /\ known => net' = (net \o TlsLazy!Record(<<0>>)) \o TlsLazy!Bare(p)
    BY <1>10
  <2>2. sender = "sniffing" /\ ~known => net' = net \o TlsLazy!Bare(p)
    <3>1. net \o <<>> = net
      BY <1>6, ConcatEmptySeq
    <3> QED
      BY <1>10, <3>1
  <2>3. sender = "raw" => net' = net \o TlsLazy!Bare(p)
    BY <1>10
  <2>4. net \o TlsLazy!Record(<<0>>) \in Seq(Tokens)
        /\ rawInput \o (net \o TlsLazy!Record(<<0>>)) = q \o TlsLazy!Record(<<0>>)
    BY <1>5, <1>7
  <2>5. /\ (net \o TlsLazy!Record(<<0>>)) \o TlsLazy!Bare(p) \in Seq(Tokens)
        /\ rawInput \o ((net \o TlsLazy!Record(<<0>>)) \o TlsLazy!Bare(p))
             = (q \o TlsLazy!Record(<<0>>)) \o TlsLazy!Bare(p)
        /\ q \o TlsLazy!Record(<<0>>) \in Seq(Tokens)
    <3> DEFINE x == TlsLazy!Record(<<0>>)
               y == TlsLazy!Bare(p)
               z == net \o x
    <3>1. x \in Seq(Tokens) /\ y \in Seq(Tokens) /\ z \in Seq(Tokens) /\ rawInput \o z = q \o x
      BY <1>5, <2>4
    <3> HIDE DEF x, y, z
    <3>2. z \o y \in Seq(Tokens) /\ q \o x \in Seq(Tokens)
      BY <1>6, <3>1, JoinedTokens
    <3>3. (rawInput \o z) \o y = rawInput \o (z \o y)
      <4>1. rawInput \in Seq(Tokens) /\ z \in Seq(Tokens) /\ y \in Seq(Tokens)
        BY <1>6, <3>1
      <4> QED
        BY <4>1, ConcatAssociative, SMTT(40)
    <3>4. rawInput \o (z \o y) = (q \o x) \o y
      BY <3>1, <3>3
    <3> QED
      BY <3>2, <3>4 DEF x, y, z
  <2>6. net \o TlsLazy!Bare(p) \in Seq(Tokens)
        /\ rawInput \o (net \o TlsLazy!Bare(p)) = q \o TlsLazy!Bare(p)
    BY <1>5, <1>7
  <2>12. WrittenTo' = t + n /\ Pending'
    <3>1. Len(writing') = 0
      BY <1>2, <1>10, EmptySeq
    <3>2. WrittenTo' = (t + n) - 0
      BY <1>3, <3>1 DEF WrittenTo
    <3>3. WrittenTo' = t + n
      BY <1>4, <3>2
    <3> QED
      BY <1>2, <1>3, <1>4, <1>10, <3>3 DEF Pending
  <2>7. ASSUME Under PROVE Under'
    <3>1. PICK c \in Nat, e \in [Nat -> Nat] :
            /\ Laid(q, Len(forwarded), t, Room, c, e)
            /\ Apart(sender, t, Room, c, e)
            /\ ~cut => Synced(dir, sender, sentCount, receiver, gotCount, t, Room, c, e)
      BY <1>2, <2>7 DEF Under, Counted, q
    <3>2. sender = "sniffing" => Room = 0 /\ t = e[c]
      BY <3>1 DEF Apart
    <3>3. e[c] <= t
      BY <3>1 DEF Laid
    <3>7. ~cut => Synced(dir, "raw", sentCount', receiver, gotCount, t + n, Room', c, e)
      BY <1>4, <1>8, <1>10, <3>1, <3>3, SyncedAfterSwitch
    <3>8. ~cut' => Counted(c, e)'
      BY <1>2, <1>3, <1>10, <3>7 DEF Counted
    <3>9. Apart(sender', t + n, Room', c, e)
      <4>1. e[c] \in Nat
        OBVIOUS
      <4>2. t + n > e[c]
        BY <1>4, <3>3, <4>1
      <4> QED
        BY <1>10, <4>2 DEF Apart
    <3>5. CASE sender = "sniffing" /\ known
      <4>1. Laid(q \o TlsLazy!Record(<<0>>), Len(forwarded), t, 2, c, e)
        BY <1>4, <1>6, <3>1, <3>2, <3>5, CommandIsLaid
      <4>2. Laid((q \o TlsLazy!Record(<<0>>)) \o TlsLazy!Bare(p), Len(forwarded), t + n, 2, c, e)
        BY <1>4, <2>5, <4>1, BareIsLaid DEF p
      <4>3. Room' = 2
        BY <1>10, <3>5 DEF Room
      <4> QED
        BY <1>2, <1>3, <1>10, <2>1, <2>5, <2>7, <2>12, <3>1, <3>8, <3>9, <3>5, <4>2, <4>3
           DEF Under, LastIsLeft
    <3>6. CASE ~(sender = "sniffing" /\ known)
      <4>1. net' = net \o TlsLazy!Bare(p)
        BY <1>10, <2>2, <2>3, <3>6
      <4>2. Room' = Room
        <5>1. CASE sender = "raw"
          BY <1>10, <5>1 DEF Room
        <5>2. CASE sender = "sniffing"
          <6>1. announced' = known /\ known = FALSE /\ announced = FALSE
            <7>1. announced = FALSE
              BY <1>8, <3>2, <5>2 DEF Room
            <7> QED
              BY <1>8, <1>10, <3>6, <5>2, <7>1
          <6> QED
            BY <6>1 DEF Room
        <5> QED
          BY <1>10, <5>1, <5>2
      <4>3. Room \in {0, 2}
        BY DEF Room
      <4>4. Laid(q \o TlsLazy!Bare(p), Len(forwarded), t + n, Room, c, e)
        BY <1>4, <1>6, <3>1, <4>3, BareIsLaid DEF p
      <4> QED
        BY <1>2, <1>3, <1>10, <2>6, <2>7, <2>12, <3>1, <3>8, <3>9, <4>1, <4>2, <4>4
           DEF Under, LastIsLeft
    <3> QED
      BY <3>5, <3>6
  <2>8. GivenUp => GivenUp'
    BY <1>2, <1>10 DEF GivenUp
  <2>9. ASSUME InOrder, Switched PROVE Switched'
    <3> DEFINE b == Len(forwarded)
    <3>1. sender = "raw" /\ announced' = announced /\ net' = net \o TlsLazy!Bare(p)
      BY <1>10, <2>9 DEF Switched
    <3>2. b \in Nat /\ Len(net) \in Nat
      BY <1>6, <2>9, LenProperties DEF InOrder
    <3>3. b + Len(net) = t /\ \A i \in 1..Len(net) : net[i] = Token("bare", <<b + i>>)
      BY <2>9 DEF Switched
    <3>4. /\ Len(net') = Len(net) + Len(TlsLazy!Bare(p))
          /\ \A i \in 1..Len(net) : net'[i] = net[i]
          /\ \A i \in 1..Len(TlsLazy!Bare(p)) : net'[Len(net) + i] = TlsLazy!Bare(p)[i]
      <4> DEFINE y == TlsLazy!Bare(p)
                 z == net \o y
      <4>1. y \in Seq(Tokens) /\ net \in Seq(Tokens) /\ net' = z
        BY <1>5, <1>6, <3>1
      <4> HIDE DEF y
      <4>2. /\ Len(z) = Len(net) + Len(y)
            /\ \A i \in 1..Len(net) : z[i] = net[i]
            /\ \A i \in 1..Len(y) : z[Len(net) + i] = y[i]
        BY <4>1, JoinedTokens
      <4> HIDE DEF z
      <4> QED
        BY <4>1, <4>2 DEF y
    <3>5. ASSUME NEW i \in 1..Len(net') PROVE net'[i] = Token("bare", <<b + i>>)
      <4>1. i \in 1..(Len(net) + n)
        BY <1>5, <3>4
      <4>2. CASE i <= Len(net)
        <5>1. i \in 1..Len(net)
          BY <3>2, <4>1, <4>2
        <5> QED
          BY <3>3, <3>4, <5>1
      <4>3. CASE ~(i <= Len(net))
        <5> DEFINE j == i - Len(net)
        <5>1. j \in 1..n /\ Len(net) + j = i
          BY <1>4, <3>2, <4>1, <4>3
        <5>2. t + j = b + i
          BY <3>2, <3>3, <5>1
        <5> HIDE DEF j
        <5>3. net'[i] = TlsLazy!Bare(p)[j]
          BY <1>5, <3>4, <5>1
        <5> QED
          BY <1>5, <5>1, <5>2, <5>3
      <4> QED
        BY <4>2, <4>3
    <3>6. b + Len(net') = t + n
      <4>1. Len(net') = Len(net) + n
        BY <1>5, <3>4
      <4> QED
        BY <1>4, <3>2, <3>3, <4>1
    <3> QED
      BY <1>2, <1>3, <1>10, <2>9, <3>1, <3>5, <3>6 DEF Switched
  <2>10. InOrder' = InOrder
    BY <1>2 DEF InOrder
  <2>11. LazyTypes'
    <3>1. sentCount' \in Nat
      BY <1>3, <1>8
    <3>2. announced' \in BOOLEAN
      BY <1>8, <1>10
    <3>3. net' \in Seq(Tokens)
      BY <1>8, <1>10, <2>1, <2>2, <2>3, <2>5, <2>6
    <3> QED
      BY <1>1, <1>2, <1>3, <1>4, <1>10, <3>1, <3>2, <3>3 DEF LazyTypes
  <2> QED
    BY <1>2, <2>7, <2>8, <2>9, <2>10, <2>11, <2>12 DEF LazyInv
<1> QED
  BY <1>3, <1>9, <1>10 DEF p

LEMMA LazyWrites ==
  ASSUME LazyInv, TlsLazy!WriteRecord
  PROVE  LazyInv'
<1>1. LazyTypes /\ Pending
  BY DEF LazyInv
<1>2. rawInput \in Seq(Tokens) /\ net \in Seq(Tokens) /\ writing \in Seq(Nat) /\ taken \in Nat
      /\ cut \in BOOLEAN
  <2>1. \A m \in 0..6 : m \in Nat
    OBVIOUS
  <2> QED
    BY <1>1, <2>1 DEF LazyTypes
<1>3. PICK n \in 1..Len(writing) :
        /\ net' = net \o TlsLazy!Record(SubSeq(writing, 1, n))
        /\ writing' = SubSeq(writing, n + 1, Len(writing))
        /\ cut' = (cut \/ n < Len(writing))
  BY DEF TlsLazy!WriteRecord
<1>4. UNCHANGED <<dir, known, taken, announced, sender, sentCount, rawInput, last, receiver,
                  gotCount, found, forwarded>>
  BY DEF TlsLazy!WriteRecord
<1> DEFINE a == WrittenTo
           t == taken
           q == rawInput \o net
           r == TlsLazy!Record(Chunk(a, a + n))
<1>5. writing # <<>>
  <2>1. Len(<<>>) = 0 /\ 1..0 = {}
    BY EmptySeq
  <2> QED
    BY <1>3, <2>1
<1>6. a \in Nat /\ a < t /\ writing = Chunk(a, t) /\ sender # "raw"
  BY <1>1, <1>5 DEF Pending
<1> HIDE DEF a
<1>7. /\ Len(writing) = t - a /\ n \in 1..(t - a) /\ n \in Nat \ {0} /\ a + n \in Nat
      /\ a < a + n /\ a + n <= t /\ (n < t - a => a + n < t) /\ (n = t - a => a + n = t)
      /\ n < t - a \/ n = t - a
  <2>1. Len(writing) = t - a
    BY <1>2, <1>6, ChunksAreSeqs
  <2>2. n \in 1..(t - a)
    BY <1>3, <2>1
  <2> QED
    BY <1>2, <1>6, <2>1, <2>2
<1>8. /\ SubSeq(writing, 1, n) = Chunk(a, a + n)
      /\ n < t - a => writing' = Chunk(a + n, t)
      /\ n = t - a => writing' = <<>>
  <2>1. /\ SubSeq(Chunk(a, t), 1, n) = Chunk(a, a + n)
        /\ n < t - a => SubSeq(Chunk(a, t), n + 1, t - a) = Chunk(a + n, t)
        /\ n = t - a => SubSeq(Chunk(a, t), n + 1, t - a) = <<>>
    BY <1>2, <1>6, <1>7, ChunkParts
  <2> QED
    BY <1>3, <1>6, <1>7, <2>1
<1>9. WrittenTo' = a + n /\ Pending' /\ writing' \in Seq(Nat)
  <2>1. CASE n = t - a
    <3>1. writing' = <<>> /\ Len(writing') = 0 /\ writing' \in Seq(Nat)
      BY <1>8, <2>1, EmptySeq
    <3>2. WrittenTo' = t - 0
      BY <1>4, <3>1 DEF WrittenTo
    <3>3. WrittenTo' = a + n /\ WrittenTo' = t
      BY <1>2, <1>7, <2>1, <3>2
    <3> QED
      BY <1>2, <1>4, <1>6, <3>1, <3>3 DEF Pending
  <2>2. CASE n < t - a
    <3>1. /\ writing' = Chunk(a + n, t) /\ a + n < t
          /\ Chunk(a + n, t) \in Seq(Nat) /\ Len(Chunk(a + n, t)) = t - (a + n)
      BY <1>2, <1>7, <1>8, <2>2, ChunksAreSeqs
    <3>2. WrittenTo' = t - (t - (a + n))
      BY <1>4, <3>1 DEF WrittenTo
    <3>3. WrittenTo' = a + n
      BY <1>2, <1>7, <3>2
    <3>4. writing' # <<>>
      <4>1. t - (a + n) # 0
        BY <1>2, <1>7, <3>1
      <4> QED
        BY <3>1, <4>1, EmptySeq
    <3> QED
      BY <1>4, <1>6, <1>7, <3>1, <3>3, <3>4 DEF Pending
  <2> QED
    BY <1>7, <2>1, <2>2
<1>10. net' \in Seq(Tokens) /\ rawInput' \o net' = q \o r /\ q \in Seq(Tokens)
  <2>1. r \in Seq(Tokens) /\ net' = net \o r
    <3>1. Chunk(a, a + n) \in Seq(Nat)
      BY <1>6, <1>7, ChunksAreSeqs
    <3> QED
      BY <1>3, <1>8, <3>1, RecordsAre
  <2> HIDE DEF r
  <2>2. (rawInput \o net) \o r = rawInput \o (net \o r)
    BY <1>2, <2>1, ConcatAssociative, SMTT(40)
  <2> QED
    BY <1>2, <1>4, <2>1, <2>2, JoinedTokens
<1> HIDE DEF q, r
<1>11. LazyTypes' /\ InOrder' = InOrder
  <2>1. cut' \in BOOLEAN
    BY <1>3
  <2> QED
    BY <1>1, <1>4, <1>9, <1>10, <2>1 DEF LazyTypes, InOrder
<1>12. ~GivenUp /\ ~Switched
  BY <1>6 DEF GivenUp, Switched
<1>13. ASSUME Under PROVE Under'
  <2>1. PICK c \in Nat, e \in [Nat -> Nat] :
          /\ Laid(q, Len(forwarded), a, Room, c, e)
          /\ Apart(sender, a, Room, c, e)
          /\ ~cut => Counted(c, e)
    BY <1>13 DEF Under, a, q
  <2>2. Room = 0 /\ a = e[c] /\ Room' = Room
    BY <1>4, <1>6, <2>1 DEF Apart, Room
  <2>8. PICK f \in [Nat -> Nat] : f = [e EXCEPT ![c + 1] = a + n]
    BY <1>7
  <2>3. Laid(q \o r, Len(forwarded), a + n, 0, c + 1, f)
    <3>1. Laid(q, Len(forwarded), a, 0, c, e)
      BY <2>1, <2>2
    <3> DEFINE x == [e EXCEPT ![c + 1] = a + n]
    <3>2. Laid(q \o TlsLazy!Record(Chunk(a, a + n)), Len(forwarded), a + n, 0, c + 1, x)
      BY <1>6, <1>7, <1>10, <2>2, <3>1, RecordIsLaid
    <3>3. f = x
      BY <2>8
    <3> HIDE DEF x
    <3> QED
      BY <3>2, <3>3 DEF r
  <2>4. c + 1 \in Nat /\ f \in [Nat -> Nat] /\ f[c + 1] = a + n
    <3>1. c + 1 \in Nat
      OBVIOUS
    <3>2. f[c + 1] = a + n
      BY <2>8, <3>1
    <3> QED
      BY <3>1, <3>2
  <2>5. Apart(sender, a + n, 0, c + 1, f)
    BY <1>6, <2>4 DEF Apart
  <2>6. ~cut' => Counted(c + 1, f)'
    <3>1. SUFFICES ASSUME ~cut' PROVE Counted(c + 1, f)'
      OBVIOUS
    <3>2. ~cut /\ n = t - a
      BY <1>3, <1>7, <3>1
    <3>3. Synced(dir, sender, sentCount, receiver, gotCount, t, Room, c + 1,
                 [e EXCEPT ![c + 1] = t])
      BY <1>5, <2>1, <3>2 DEF Counted
    <3>4. writing' = <<>> /\ a + n = t
      BY <1>7, <1>8, <3>2
    <3>5. Synced(dir, sender, sentCount, receiver, gotCount, t, Room, c + 1, f)
      BY <2>8, <3>3, <3>4
    <3> QED
      BY <1>4, <2>2, <3>4, <3>5 DEF Counted
  <2>7. LastIsLeft' /\ receiver \in {"sniffing", "plain"}
    BY <1>4, <1>13 DEF Under, LastIsLeft
  <2> QED
    BY <1>4, <1>9, <1>10, <2>2, <2>3, <2>4, <2>5, <2>6, <2>7 DEF Under
<1>14. found = "missed" => cut'
  BY <1>3 DEF LazyInv
<1> QED
  BY <1>4, <1>9, <1>11, <1>12, <1>13, <1>14 DEF LazyInv

LEMMA LazyReads ==
  ASSUME LazyInv, TlsLazy!RawRead
  PROVE  LazyInv'
<1>1. LazyTypes
  BY DEF LazyInv
<1>2. rawInput \in Seq(Tokens) /\ net \in Seq(Tokens) /\ last \in Seq(Tokens)
  BY <1>1 DEF LazyTypes
<1>3. UNCHANGED <<dir, known, taken, writing, cut, announced, sender, sentCount, receiver,
                  gotCount, found, forwarded>>
  BY DEF TlsLazy!RawRead
<1>17. /\ Pending' /\ WrittenTo' = WrittenTo /\ WrittenTo \in Nat
       /\ \A c, e : Counted(c, e)' = Counted(c, e)
  <2>1. WrittenTo' = WrittenTo
    BY <1>3 DEF WrittenTo
  <2>2. Room' = Room
    BY <1>3 DEF Room
  <2>3. Pending
    BY DEF LazyInv
  <2>4. WrittenTo \in Nat
    BY <2>3 DEF Pending
  <2>5. Pending'
    BY <1>3, <2>1, <2>3 DEF Pending
  <2>6. \A c, e : Counted(c, e)' = Counted(c, e)
    BY <1>3, <2>2 DEF Counted
  <2> QED
    BY <2>1, <2>4, <2>5, <2>6
<1>4. receiver \in {"sniffing", "plain"} /\ ~(Len(rawInput) > 1 /\ rawInput[1].part = "head")
  BY DEF TlsLazy!RawRead, TlsLazy!WholeRecord
<1>5. PICK n \in 1..Len(net) :
        /\ rawInput' = rawInput \o SubSeq(net, 1, n)
        /\ net' = SubSeq(net, n + 1, Len(net))
        /\ last' = SubSeq(net, 1, n) \/ last' = last
  BY DEF TlsLazy!RawRead
<1> DEFINE x == SubSeq(net, 1, n)
           y == SubSeq(net, n + 1, Len(net))
           q == rawInput \o net
<1>6. Len(net) \in Nat /\ Len(net) >= 1 /\ Len(rawInput) \in Nat /\ n \in Nat /\ n >= 1
  <2>1. Len(net) \in Nat /\ Len(rawInput) \in Nat
    BY <1>2, LenProperties
  <2>2. \A m \in Nat : \A i \in 1..m : m >= 1 /\ i \in Nat /\ i >= 1
    OBVIOUS
  <2> QED
    BY <2>1, <2>2
<1>7. x \in Seq(Tokens) /\ Len(x) = n /\ x[1] = net[1]
  <2>1. \A i \in 1..n : net[i] \in Tokens
    <3>1. \A i \in 1..n : i \in 1..Len(net)
      BY <1>6
    <3> QED
      BY <1>2, <3>1, ElementOfSeq
  <2>2. 1 \in Int /\ n \in Int /\ 1 <= n /\ n - 1 + 1 = n /\ 1 \in 1..n /\ 1 + 1 - 1 = 1
    BY <1>6
  <2>3. /\ x \in Seq(Tokens)
        /\ Len(x) = IF 1 <= n THEN n - 1 + 1 ELSE 0
        /\ \A i \in 1..(n - 1 + 1) : x[i] = net[1 + i - 1]
    BY <2>1, <2>2, SubSeqProperties
  <2> HIDE DEF x
  <2> QED
    BY <2>2, <2>3
<1>8. y \in Seq(Tokens)
  <2>1. \A i \in (n + 1)..Len(net) : net[i] \in Tokens
    <3>1. \A i \in (n + 1)..Len(net) : i \in 1..Len(net)
      BY <1>6
    <3> QED
      BY <1>2, <3>1, ElementOfSeq
  <2>2. n + 1 \in Int /\ Len(net) \in Int
    BY <1>6
  <2> QED
    BY <2>1, <2>2, SubSeqProperties
<1>9. x \o y = net
  <2>1. 1 \in 1..(Len(net) + 1) /\ n \in (1 - 1)..Len(net) /\ Len(net) \in n..Len(net)
    BY <1>6
  <2>2. x \o y = SubSeq(net, 1, Len(net))
    BY <1>2, <2>1, ConcatAdjacentSubSeq
  <2> HIDE DEF x, y
  <2> QED
    BY <1>2, <2>2, SubSeqFull
<1> HIDE DEF x, y
<1>10. rawInput' = rawInput \o x /\ net' = y /\ (last' = x \/ last' = last)
  BY <1>5 DEF x, y
<1>11. rawInput' \in Seq(Tokens) /\ rawInput' \o net' = q
  <2>1. rawInput \o x \in Seq(Tokens)
    BY <1>2, <1>7, JoinedTokens
  <2>2. (rawInput \o x) \o y = rawInput \o (x \o y)
    <3>1. rawInput \in Seq(Tokens) /\ x \in Seq(Tokens) /\ y \in Seq(Tokens)
      BY <1>2, <1>7, <1>8
    <3> QED
      BY <3>1, ConcatAssociative, SMTT(30)
  <2> QED
    BY <1>9, <1>10, <2>1, <2>2
<1>12. LazyTypes'
  <2>1. writeCount' \in Nat \/ TRUE
    OBVIOUS
  <2>2. last' \in Seq(Tokens) /\ net' \in Seq(Tokens) /\ rawInput' \in Seq(Tokens)
    BY <1>2, <1>7, <1>8, <1>10, <1>11
  <2> QED
    BY <1>1, <1>3, <2>2 DEF LazyTypes
<1>13. Room' = Room /\ InOrder' = InOrder
  BY <1>3 DEF Room, InOrder
<1>14. ASSUME Under PROVE Under'
  <2>1. PICK c \in Nat, e \in [Nat -> Nat] :
          /\ Laid(q, Len(forwarded), WrittenTo, Room, c, e)
          /\ Apart(sender, WrittenTo, Room, c, e)
          /\ ~cut => Counted(c, e)
    BY <1>14 DEF Under
  <2>2. WrittenTo \in Nat /\ Room \in {0, 2}
    BY <1>17 DEF Room
  <2> DEFINE b == Len(forwarded)
             t == WrittenTo
  <2>3. /\ Len(q) = Len(rawInput) + Len(net)
        /\ \A i \in 1..Len(rawInput) : q[i] = rawInput[i]
        /\ \A i \in 1..Len(net) : q[Len(rawInput) + i] = net[i]
    BY <1>2, JoinedTokens
  <2> HIDE DEF q, b, t
  <2>4. /\ c # 0 => /\ q[1] = Token("head", Chunk(b, e[1]))
                    /\ q[2] = Token("tail", Chunk(b, e[1]))
        /\ c = 0 /\ Room = 2 =>
             /\ q[1] = Token("head", <<0>>) /\ q[2] = Token("tail", <<0>>)
        /\ c = 0 /\ Room = 0 =>
             /\ Len(q) = t - b /\ b \in Nat /\ b <= t
             /\ \A i \in 1..(t - b) : q[i] = Token("bare", <<b + i>>)
    <3>1. Begins(q, b, t, Room, c, e)
      BY <2>1, <2>2, Beginning DEF b, t
    <3> QED
      BY <3>1 DEF Begins
  <2>5. \A p : /\ Token("head", p).part = "head" /\ Token("tail", p).part = "tail"
               /\ Token("bare", p).part = "bare"
    BY DEF Token
  <2>6. LastIsLeft'
    <3>1. ASSUME Len(last') > 1, last'[1] = Token("head", << 0 >>)
          PROVE  rawInput' = last'
      <4>1. CASE rawInput = <<>>
        <5>1. rawInput' = x
          BY <1>7, <1>10, <4>1, ConcatEmptySeq
        <5>2. last' # last
          <6>1. ASSUME last' = last PROVE FALSE
            <7>1. rawInput = last
              BY <1>14, <3>1, <6>1 DEF Under, LastIsLeft
            <7>2. Len(rawInput) > 1
              BY <3>1, <6>1, <7>1
            <7>3. Len(rawInput) = 0
              BY <4>1, EmptySeq
            <7> QED
              BY <7>2, <7>3
          <6> QED
            BY <6>1
        <5> QED
          BY <1>10, <5>1, <5>2
      <4>2. CASE rawInput # <<>>
        <5>1. Len(rawInput) >= 1
          <6>1. Len(rawInput) # 0
            BY <1>2, <4>2, EmptySeq
          <6> QED
            BY <1>6, <6>1
        <5>2. last' = x
          <6>1. ASSUME last' = last PROVE FALSE
            <7>1. rawInput = last
              BY <1>14, <3>1, <6>1 DEF Under, LastIsLeft
            <7>2. Len(rawInput) > 1 /\ rawInput[1].part = "head"
              BY <2>5, <3>1, <6>1, <7>1
            <7> QED
              BY <1>4, <7>2
          <6> QED
            BY <1>10, <6>1
        <5>3. net[1].part = "head"
          BY <1>7, <2>5, <3>1, <5>2
        <5>4. q[Len(rawInput) + 1] = net[1] /\ q[1] = rawInput[1]
          <6>1. 1 \in 1..Len(net) /\ 1 \in 1..Len(rawInput)
            BY <1>6, <5>1
          <6> QED
            BY <2>3, <6>1
        <5>5. CASE c # 0 \/ Room = 2
          <6>1. q[1].part = "head" /\ q[2].part = "tail"
            BY <2>2, <2>4, <2>5, <5>5
          <6>2. Len(rawInput) = 1
            <7>1. ~(Len(rawInput) > 1)
              BY <1>4, <5>4, <6>1
            <7>2. \A m \in Nat : m >= 1 /\ ~(m > 1) => m = 1
              OBVIOUS
            <7> QED
              BY <1>6, <5>1, <7>1, <7>2
          <6>3. q[2] = net[1]
            <7>1. 1 + 1 = 2
              OBVIOUS
            <7> QED
              BY <5>4, <6>2, <7>1
          <6> QED
            BY <5>3, <6>1, <6>3
        <5>6. CASE c = 0 /\ Room = 0
          <6>1. Len(rawInput) + 1 \in 1..(t - b)
            <7>1. Len(rawInput) + 1 \in 1..(Len(rawInput) + Len(net))
              <8>1. \A m, l \in Nat : l >= 1 => m + 1 \in 1..(m + l)
                OBVIOUS
              <8> QED
                BY <1>6, <8>1
            <7> QED
              BY <2>3, <2>4, <5>6, <7>1
          <6>2. q[Len(rawInput) + 1].part = "bare"
            BY <2>4, <2>5, <5>6, <6>1
          <6> QED
            BY <5>3, <5>4, <6>2
        <5> QED
          BY <2>2, <5>5, <5>6
      <4> QED
        BY <4>1, <4>2
    <3> QED
      BY <3>1 DEF LastIsLeft
  <2> QED
    BY <1>3, <1>4, <1>11, <1>13, <1>17, <2>1, <2>6 DEF Under, b, t
<1>15. ~GivenUp /\ ~Switched
  BY <1>4 DEF GivenUp, Switched
<1>16. found # "elsewhere"
  BY <1>4 DEF LazyInv
<1> QED
  BY <1>3, <1>12, <1>13, <1>14, <1>15, <1>16, <1>17 DEF LazyInv

LEMMA LazyFails ==
  ASSUME LazyInv, TlsLazy!RawReadFails
  PROVE  LazyInv'
<1>1. LazyTypes
  BY DEF LazyInv
<1>2. rawInput \in Seq(Tokens) /\ net \in Seq(Tokens)
  BY <1>1 DEF LazyTypes
<1>3. /\ receiver \in {"sniffing", "plain"} /\ rawInput # <<>>
      /\ rawInput[1].part = "bare" /\ receiver' = "closed"
      /\ UNCHANGED <<dir, known, taken, writing, cut, announced, sender, sentCount, net, rawInput,
                     last, writeCount, gotCount, found, forwarded>>
  BY DEF TlsLazy!RawReadFails
<1>4. LazyTypes' /\ InOrder' = InOrder /\ Pending' /\ WrittenTo \in Nat
  <2>1. LazyTypes'
    BY <1>1, <1>3 DEF LazyTypes
  <2>2. Pending /\ WrittenTo' = WrittenTo
    BY <1>3 DEF LazyInv, WrittenTo
  <2>3. Pending' /\ WrittenTo \in Nat
    BY <1>3, <2>2 DEF Pending
  <2> QED
    BY <1>3, <2>1, <2>3 DEF InOrder
<1>5. ~GivenUp /\ ~Switched /\ found # "elsewhere"
  BY <1>3 DEF GivenUp, Switched, LazyInv
<1>6. ASSUME Under PROVE GivenUp'
  <2> DEFINE q == rawInput \o net
             b == Len(forwarded)
             t == WrittenTo
  <2>1. PICK c \in Nat, e \in [Nat -> Nat] :
          Laid(q, b, t, Room, c, e) /\ Apart(sender, t, Room, c, e)
    BY <1>6 DEF Under
  <2>2. t \in Nat /\ Room \in {0, 2} /\ sender \in {"sniffing", "raw", "plain"}
    <3>1. sender \in {"sniffing", "raw", "plain"}
      BY <1>1 DEF LazyTypes
    <3> QED
      BY <1>4, <3>1 DEF Room
  <2>3. Len(q) = Len(rawInput) + Len(net) /\ Len(net) \in Nat /\ Len(rawInput) \in Nat
        /\ \A i \in 1..Len(rawInput) : q[i] = rawInput[i]
    BY <1>2, JoinedTokens
  <2>4. Len(rawInput) # 0
    BY <1>2, <1>3, EmptySeq
  <2> HIDE DEF q, b, t
  <2>5. q[1].part = "bare" /\ Len(q) >= 1
    <3>1. 1 \in 1..Len(rawInput) /\ Len(rawInput) + Len(net) >= 1
      <4>1. \A m, l \in Nat : m # 0 => 1 \in 1..m /\ m + l >= 1
        OBVIOUS
      <4> QED
        BY <2>3, <2>4, <4>1
    <3> QED
      BY <1>3, <2>3, <3>1
  <2>6. \A p : Token("head", p).part = "head"
    BY DEF Token
  <2>7. /\ c # 0 => q[1] = Token("head", Chunk(b, e[1]))
        /\ c = 0 /\ Room = 2 => q[1] = Token("head", <<0>>)
        /\ c = 0 /\ Room = 0 => Len(q) = t - b /\ b \in Nat /\ b = e[c]
    <3>1. Begins(q, b, t, Room, c, e)
      BY <2>1, <2>2, Beginning
    <3> QED
      BY <3>1 DEF Begins
  <2>8. c = 0 /\ Room = 0
    BY <2>2, <2>5, <2>6, <2>7
  <2>9. t # e[c]
    BY <2>2, <2>5, <2>7, <2>8
  <2>10. sender = "raw"
    BY <2>1, <2>9 DEF Apart
  <2>11. ~announced
    BY <2>8 DEF Room
  <2> QED
    BY <1>3, <2>10, <2>11 DEF GivenUp
<1> QED
  BY <1>3, <1>4, <1>5, <1>6 DEF LazyInv

LEMMA LazySplices ==
  ASSUME LazyInv, TlsLazy!Splice
  PROVE  LazyInv'
<1>1. LazyTypes /\ net \in Seq(Tokens)
  BY DEF LazyInv, LazyTypes
<1>2. /\ receiver = "raw" /\ net # <<>>
      /\ forwarded' = forwarded \o TlsLazy!Seen(<<net[1]>>) /\ net' = Tail(net)
      /\ UNCHANGED <<dir, known, taken, writing, cut, announced, sender, sentCount, rawInput, last,
                     writeCount, receiver, gotCount, found>>
  BY DEF TlsLazy!Splice
<1>3. /\ Tail(net) \in Seq(Tokens) /\ Len(Tail(net)) = Len(net) - 1
      /\ \A i \in 1..Len(Tail(net)) : Tail(net)[i] = net[i + 1]
  BY <1>1, <1>2, HeadTailProperties
<1>4. LazyTypes'
  BY <1>1, <1>2, <1>3 DEF LazyTypes
<1>5. ~Under /\ ~GivenUp /\ found # "missed"
  BY <1>2 DEF Under, GivenUp, LazyInv
<1>7. Pending'
  <2>1. Pending /\ WrittenTo' = WrittenTo
    BY <1>2 DEF LazyInv, WrittenTo
  <2> QED
    BY <1>2, <2>1 DEF Pending
<1>6. ASSUME InOrder, Switched PROVE InOrder' /\ Switched'
  <2> DEFINE b == Len(forwarded)
             tokens == <<net[1]>>
             g == TlsLazy!Seen(tokens)
             l == Len(net)
  <2>1. b \in Nat /\ l \in Nat /\ l # 0
    <3>1. forwarded \in Seq(Nat)
      BY <1>6 DEF InOrder
    <3> QED
      BY <1>1, <1>2, <3>1, LenProperties, EmptySeq
  <2>2. 1 \in 1..l /\ l - 1 \in Nat
    <3> HIDE DEF l
    <3> QED
      BY <2>1
  <2>3. net[1] \in Tokens /\ net[1] = Token("bare", <<b + 1>>)
    BY <1>1, <1>6, <2>2, ElementOfSeq DEF Switched
  <2>4. tokens \in Seq(Tokens) /\ Len(tokens) = 1 /\ tokens[1] = net[1]
    BY <2>3
  <2> HIDE DEF tokens
  <2>5. \A i \in 1..Len(tokens) : tokens[i] = Token("bare", <<b + i>>)
    BY <2>3, <2>4
  <2>6. g \in Seq(Nat) /\ Len(g) = Len(tokens) /\ \A i \in 1..Len(tokens) : g[i] = b + i
    <3> HIDE DEF b
    <3> QED
      BY <2>1, <2>4, <2>5, SeenBare
  <2> HIDE DEF g
  <2>7. forwarded' = forwarded \o g
    BY <1>2 DEF g, tokens
  <2>8. /\ forwarded \o g \in Seq(Nat) /\ Len(forwarded \o g) = b + Len(g)
        /\ \A k \in 1..Len(forwarded \o g) : (forwarded \o g)[k] = k
    BY <1>6, <2>6, InOrderExtended DEF InOrder
  <2>9. InOrder' /\ Len(forwarded') = b + 1
    BY <2>4, <2>6, <2>7, <2>8 DEF InOrder
  <2> HIDE DEF b, l
  <2>10. Len(net') = l - 1 /\ \A i \in 1..(l - 1) : net'[i] = net[i + 1]
    BY <1>2, <1>3 DEF l
  <2>11. b + l = taken /\ \A i \in 1..l : net[i] = Token("bare", <<b + i>>)
    BY <1>6 DEF Switched, b, l
  <2>12. ASSUME NEW i \in 1..(l - 1) PROVE net'[i] = Token("bare", <<(b + 1) + i>>)
    <3>1. i + 1 \in 1..l /\ b + (i + 1) = (b + 1) + i
      BY <2>1
    <3> QED
      BY <2>10, <2>11, <3>1
  <2>13. (b + 1) + (l - 1) = taken
    BY <2>1, <2>11
  <2> QED
    BY <1>2, <1>6, <2>9, <2>10, <2>12, <2>13 DEF Switched
<1> QED
  BY <1>2, <1>4, <1>5, <1>6, <1>7 DEF LazyInv

(* SyncedAfterTaking of this state.                                        *)
LEMMA CountedAfterTaking ==
  ASSUME gotCount \in Nat, sender \in {"sniffing", "plain", "raw"},
         receiver \in {"sniffing", "plain"},
         NEW c \in Nat \ {0}, NEW e \in [Nat -> Nat],
         Synced(dir, sender, sentCount, receiver, gotCount, taken, Room, c, e),
         NEW v, v = IF receiver = "plain" THEN "plain" ELSE Verdict(dir, e[0], e[1], gotCount),
         NEW n, n = IF receiver = "plain" \/ gotCount > MaxPackets THEN gotCount ELSE gotCount + 1,
         NEW f, f = [m \in Nat |-> e[m + 1]]
  PROVE  Synced(dir, sender, sentCount, v, n, taken, Room, c - 1, f)
BY SyncedAfterTaking

LEMMA LazyReceives ==
  ASSUME LazyInv, TlsLazy!Receive
  PROVE  LazyInv'
<1>1. LazyTypes
  BY DEF LazyInv
<1>2. rawInput \in Seq(Tokens) /\ net \in Seq(Tokens) /\ last \in Seq(Tokens)
      /\ gotCount \in Nat /\ sender \in {"sniffing", "raw", "plain"} /\ dir \in {"up", "down"}
  BY <1>1 DEF LazyTypes
<1> DEFINE carried == rawInput[2].carries
           decided == IF receiver = "plain" THEN "plain"
                      ELSE TlsLazy!CommonDetect(carried, gotCount, TRUE)
<1>3. /\ receiver \in {"sniffing", "plain"}
      /\ Len(rawInput) > 1 /\ rawInput[1].part = "head"
      /\ rawInput' = SubSeq(rawInput, 3, Len(rawInput))
      /\ gotCount' = IF receiver = "plain" \/ gotCount > MaxPackets THEN gotCount ELSE gotCount + 1
      /\ decided = "raw" => TlsLazy!Switch
      /\ decided # "raw" =>
           /\ forwarded' = forwarded \o carried /\ receiver' = decided
           /\ found' = IF carried[1] = TlsLazy!Command THEN "missed" ELSE found
      /\ UNCHANGED <<dir, known, taken, writing, cut, announced, sender, sentCount, net, last,
                     writeCount>>
  BY DEF TlsLazy!Receive, TlsLazy!WholeRecord
<1> DEFINE q == rawInput \o net
           b == Len(forwarded)
           t == WrittenTo
<1>10. rawInput' \in Seq(Tokens) /\ rawInput' \o net' = SubSeq(q, 3, Len(q))
  <2>1. /\ SubSeq(rawInput, 3, Len(rawInput)) \in Seq(Tokens)
        /\ SubSeq(rawInput, 3, Len(rawInput)) \o net = SubSeq(q, 3, Len(q))
    BY <1>2, <1>3, RestOfBoth
  <2> QED
    BY <1>3, <2>1
<1>12. gotCount' \in Nat
  BY <1>2, <1>3
<1>18. Pending /\ Pending' /\ WrittenTo' = t
  <2>1. Pending /\ WrittenTo' = WrittenTo
    BY <1>3 DEF LazyInv, WrittenTo
  <2> QED
    BY <1>3, <2>1 DEF Pending
<1>19. ASSUME receiver' \in {"sniffing", "plain", "raw", "closed"},
              found' \in {"none", "first", "elsewhere", "missed"}
       PROVE  LazyTypes'
  BY <1>1, <1>3, <1>10, <1>12, <1>19 DEF LazyTypes
(* A receiver that has taken the command for data sniffs no more *)
<1>20. ASSUME found = "missed" PROVE LazyInv'
  <2>1. cut /\ receiver = "plain"
    BY <1>3, <1>20 DEF LazyInv
  <2>2. decided = "plain"
    BY <2>1
  <2>3. receiver' = "plain" /\ found' = "missed" /\ cut'
    BY <1>3, <1>20, <2>1, <2>2
  <2> HIDE DEF carried, decided
  <2>4. LazyTypes'
    BY <1>19, <2>3
  <2> QED
    BY <1>18, <2>3, <2>4 DEF LazyInv
<1>21. SUFFICES ASSUME found # "missed" PROVE LazyInv'
  BY <1>20
<1>4. found = "none" /\ InOrder /\ Under
  <2>1. ~GivenUp /\ ~Switched /\ found # "elsewhere"
    BY <1>3 DEF GivenUp, Switched, LazyInv
  <2> QED
    BY <1>1, <1>21, <2>1 DEF LazyInv, LazyTypes
<1>5. PICK c \in Nat, e \in [Nat -> Nat] :
        /\ Laid(q, b, t, Room, c, e)
        /\ Apart(sender, t, Room, c, e)
        /\ ~cut => Counted(c, e)
  BY <1>4 DEF Under
<1>6. t \in Nat /\ t <= 6 /\ Room \in {0, 2} /\ taken \in Nat
  <2>1. taken \in 0..6
    BY <1>1 DEF LazyTypes
  <2>2. t \in Nat /\ (t = taken \/ t < taken)
    BY <1>18 DEF Pending
  <2> HIDE DEF t
  <2>3. \A m \in Nat : \A k \in 0..6 : (m = k \/ m < k) => m <= 6 /\ k \in Nat
    OBVIOUS
  <2> QED
    BY <2>1, <2>2, <2>3 DEF Room
<1>7. b \in Nat /\ forwarded \in Seq(Nat) /\ \A k \in 1..b : forwarded[k] = k
  <2>1. forwarded \in Seq(Nat) /\ \A k \in 1..b : forwarded[k] = k
    BY <1>4 DEF InOrder
  <2> QED
    BY <2>1, LenProperties
<1>8. /\ q \in Seq(Tokens) /\ Len(q) = Len(rawInput) + Len(net)
      /\ Len(rawInput) \in Nat /\ Len(net) \in Nat
      /\ \A i \in 1..Len(rawInput) : q[i] = rawInput[i]
      /\ \A i \in 1..Len(net) : q[Len(rawInput) + i] = net[i]
  BY <1>2, JoinedTokens
<1>9. q[1] = rawInput[1] /\ q[2] = rawInput[2]
  <2>1. \A m \in Nat : m > 1 => 1 \in 1..m /\ 2 \in 1..m
    OBVIOUS
  <2> HIDE DEF q
  <2> QED
    BY <1>3, <1>8, <2>1
<1> HIDE DEF q, t
<1>11. \A p : /\ Token("head", p).part = "head" /\ Token("bare", p).part = "bare"
              /\ Token("tail", p).carries = p /\ Token("head", p).carries = p
  BY DEF Token
<1>13. Room' = Room
  BY <1>3 DEF Room
<1> HIDE DEF b, carried, decided
<1>22. ASSUME decided = "raw"
       PROVE  /\ receiver' \in {"raw", "closed"}
              /\ found' = IF Len(last) > 1 /\ last[1] = Token("head", <<0>>)
                          THEN "first" ELSE "elsewhere"
  <2>1. TlsLazy!Record(<<TlsLazy!Command>>)[1] = Token("head", <<0>>)
    BY CommandIs, RecordsAre
  <2>2. PICK i \in TlsLazy!NextIndexes :
          /\ found' = IF Len(last) > 1 /\ last[1] = Token("head", <<0>>)
                      THEN "first" ELSE "elsewhere"
          /\ CASE i <= Len(last) ->
                    forwarded' = forwarded \o TlsLazy!FreeData(i) /\ receiver' = "raw"
               [] i > Len(last) /\ dir = "up" ->
                    forwarded' = forwarded \o TlsLazy!Seen(last) /\ receiver' = "raw"
               [] i > Len(last) /\ dir = "down" ->
                    receiver' = "closed" /\ UNCHANGED forwarded
    BY <1>3, <1>22, <2>1 DEF TlsLazy!Switch
  <2>3. Len(last) \in Nat
    BY <1>2, LenProperties
  <2>4. i \in Nat
    <3>1. \A m \in Nat : 2 \in Nat /\ \A j \in 0..m + 1 : j \in Nat
      OBVIOUS
    <3> QED
      BY <2>3, <3>1 DEF TlsLazy!NextIndexes
  <2>5. i <= Len(last) \/ i > Len(last)
    BY <2>3, <2>4
  <2> QED
    BY <1>2, <2>2, <2>5
<1>14. Begins(q, b, t, Room, c, e)
  BY <1>5, <1>6, Beginning
(* A record of the stream *)
<1>15. CASE c # 0
  <2>1. /\ 1 \in 1..c /\ e[0] = b /\ e[1] \in Nat /\ b < e[1] /\ e[1] <= t
        /\ q[1] = Token("head", Chunk(b, e[1])) /\ q[2] = Token("tail", Chunk(b, e[1]))
    BY <1>14, <1>15 DEF Begins
  <2>2. carried = Chunk(b, e[1])
    BY <1>9, <1>11, <2>1 DEF carried
  <2>3. e[1] <= 6 /\ TRUE \in BOOLEAN
    <3>1. \A m, l \in Nat : m <= l /\ l <= 6 => m <= 6
      OBVIOUS
    <3> QED
      BY <1>6, <2>1, <3>1
  <2>4. TlsLazy!CommonDetect(carried, gotCount, TRUE) = Verdict(dir, b, e[1], gotCount)
    BY <1>2, <1>7, <2>1, <2>2, <2>3, SameVerdict, ZenonT(40)
  <2>5. decided = IF receiver = "plain" THEN "plain" ELSE Verdict(dir, e[0], e[1], gotCount)
    BY <2>1, <2>4 DEF decided
  <2>6. decided \in {"sniffing", "plain", "raw"}
    <3>1. Verdict(dir, e[0], e[1], gotCount) \in {"sniffing", "plain", "raw"}
      BY <1>2, <1>7, <2>1, VerdictsAre
    <3> QED
      BY <2>5, <3>1
  <2> DEFINE g == Chunk(b, e[1])
  <2>7. g \in Seq(Nat) /\ Len(g) = e[1] - b /\ \A i \in 1..Len(g) : g[i] = b + i
    <3>1. /\ g \in Seq(Nat) /\ Len(g) = e[1] - b
          /\ \A i \in 1..(e[1] - b) : g[i] = b + i
      BY <1>7, <2>1, ChunksAreSeqs
    <3> HIDE DEF g
    <3> QED
      BY <3>1
  <2>8. carried[1] # 0
    <3>1. 1 \in 1..(e[1] - b) /\ b + 1 # 0
      <4>1. \A m, l \in Nat : m < l => 1 \in 1..(l - m) /\ m + 1 # 0
        OBVIOUS
      <4> QED
        BY <1>7, <2>1, <4>1
    <3> HIDE DEF g
    <3>2. g[1] = b + 1
      BY <2>7, <3>1
    <3> QED
      BY <2>2, <3>1, <3>2 DEF g
  <2>9. ~(Len(last) > 1 /\ last[1] = Token("head", <<0>>))
    <3>1. SUFFICES Len(last) > 1 /\ last[1] = Token("head", <<0>>) => FALSE
      OBVIOUS
    <3> HAVE Len(last) > 1 /\ last[1] = Token("head", <<0>>)
    <3>2. rawInput = last
      BY <1>4, <3>1 DEF Under, LastIsLeft
    <3>3. Token("head", Chunk(b, e[1])) = Token("head", <<0>>)
      BY <1>9, <2>1, <3>1, <3>2
    <3>4. carried = <<0>>
      BY <1>11, <2>2, <3>3
    <3> QED
      BY <2>8, <3>4, CommandIs
(* one that makes it switch: some packet was cut *)
  <2>10. CASE decided = "raw"
    <3>1. found' = "elsewhere" /\ receiver' \in {"raw", "closed"}
      BY <1>22, <2>9, <2>10
    <3>2. LazyTypes'
      BY <1>19, <3>1
    <3> QED
      BY <1>18, <3>1, <3>2 DEF LazyInv
  <2>11. CASE decided # "raw"
    <3>1. /\ forwarded' = forwarded \o g /\ receiver' = decided /\ found' = "none"
          /\ decided \in {"sniffing", "plain"}
      BY <1>3, <1>4, <2>2, <2>6, <2>8, <2>11, CommandIs
    <3>2. c - 1 \in Nat /\ (c - 1) + 1 = c /\ c \in Nat \ {0}
      <4>1. \A m \in Nat : m # 0 => m - 1 \in Nat /\ (m - 1) + 1 = m
        OBVIOUS
      <4> QED
        BY <1>15, <4>1
    <3>3. PICK f \in [Nat -> Nat] : f = [n \in Nat |-> e[n + 1]]
      <4>1. \A n \in Nat : n + 1 \in Nat
        OBVIOUS
      <4>2. \A n \in Nat : e[n + 1] \in Nat
        BY <4>1
      <4>3. [n \in Nat |-> e[n + 1]] \in [Nat -> Nat]
        BY <4>2
      <4> QED
        BY <4>3
    <3>4. Laid(SubSeq(q, 3, Len(q)), e[1], t, Room, c - 1, f)
      BY <1>5, <1>6, <1>8, <1>15, <3>3, RecordIsTaken
    <3>5. Apart(sender, t, Room, c - 1, f)
      <4>1. f[c - 1] = e[c]
        BY <3>2, <3>3
      <4> QED
        BY <1>5, <4>1 DEF Apart
    <3>6. ASSUME ~cut PROVE Counted(c - 1, f)'
      <4>1. /\ e \in [Nat -> Nat] /\ gotCount \in Nat
            /\ sender \in {"sniffing", "plain", "raw"} /\ receiver \in {"sniffing", "plain"}
            /\ gotCount' = IF receiver = "plain" \/ gotCount > MaxPackets
                           THEN gotCount ELSE gotCount + 1
        BY <1>2, <1>3
      <4>2. CASE writing = <<>>
        <5>1. Synced(dir, sender, sentCount, receiver, gotCount, taken, Room, c, e)
          BY <1>5, <3>6, <4>2 DEF Counted
        <5>2. Synced(dir, sender, sentCount, decided, gotCount', taken, Room, c - 1, f)
          BY <2>5, <3>2, <3>3, <4>1, <5>1, CountedAfterTaking
        <5> QED
          BY <1>3, <1>13, <3>1, <4>2, <5>2 DEF Counted
      <4>3. CASE writing # <<>>
        <5>1. PICK e2 \in [Nat -> Nat] : e2 = [e EXCEPT ![c + 1] = taken]
          BY <1>6
        <5>2. Synced(dir, sender, sentCount, receiver, gotCount, taken, Room, c + 1, e2)
          BY <1>5, <3>6, <4>3, <5>1 DEF Counted
        <5>3. /\ c + 1 \in Nat /\ c + 1 \in Nat \ {0} /\ c + 1 # 0 /\ c + 1 # 1
              /\ (c + 1) - 1 = c /\ \A n \in Nat : n + 1 = c + 1 <=> n = c
          BY <1>15
        <5>4. e2[0] = e[0] /\ e2[1] = e[1]
          BY <5>1, <5>3
        <5>5. PICK g2 \in [Nat -> Nat] : g2 = [f EXCEPT ![(c - 1) + 1] = taken]
          BY <1>6
        <5>6. [n \in Nat |-> e2[n + 1]] = g2
          <6>1. ASSUME NEW n \in Nat PROVE e2[n + 1] = g2[n]
            <7>1. n + 1 \in Nat
              OBVIOUS
            <7>2. e2[n + 1] = IF n = c THEN taken ELSE e[n + 1]
              BY <5>1, <5>3, <7>1
            <7>3. g2[n] = IF n = c THEN taken ELSE f[n]
              BY <3>2, <5>5
            <7> QED
              BY <3>3, <7>2, <7>3
          <6> QED
            BY <6>1
        <5>7. Synced(dir, sender, sentCount, decided, gotCount', taken, Room, (c + 1) - 1,
                     [n \in Nat |-> e2[n + 1]])
          <6>1. decided = IF receiver = "plain" THEN "plain"
                          ELSE Verdict(dir, e2[0], e2[1], gotCount)
            BY <2>5, <5>4
          <6>6. PICK c2 \in Nat : c2 = c + 1
            BY <5>3
          <6>2. c2 \in Nat \ {0} /\ e2 \in [Nat -> Nat]
                /\ Synced(dir, sender, sentCount, receiver, gotCount, taken, Room, c2, e2)
            BY <5>1, <5>2, <5>3, <6>6
          <6>3. /\ gotCount \in Nat /\ sender \in {"sniffing", "plain", "raw"}
                /\ receiver \in {"sniffing", "plain"}
                /\ gotCount' = IF receiver = "plain" \/ gotCount > MaxPackets
                               THEN gotCount ELSE gotCount + 1
            BY <4>1
          <6>4. PICK h \in [Nat -> Nat] : h = [n \in Nat |-> e2[n + 1]]
            BY <5>6
          <6>5. Synced(dir, sender, sentCount, decided, gotCount', taken, Room, c2 - 1, h)
            BY <6>1, <6>2, <6>3, <6>4, CountedAfterTaking
          <6> QED
            BY <6>4, <6>5, <6>6
        <5>8. Synced(dir, sender, sentCount, decided, gotCount', taken, Room, (c - 1) + 1, g2)
          BY <3>2, <5>3, <5>6, <5>7
        <5> QED
          BY <1>3, <1>13, <3>1, <4>3, <5>5, <5>8 DEF Counted
      <4> QED
        BY <4>2, <4>3
    <3> HIDE DEF g
    <3>7. /\ forwarded \o g \in Seq(Nat) /\ Len(forwarded \o g) = b + Len(g)
          /\ \A k \in 1..Len(forwarded \o g) : (forwarded \o g)[k] = k
      BY <1>7, <2>7, InOrderExtended DEF b
    <3>8. InOrder' /\ Len(forwarded') = e[1]
      <4>1. \A m, l \in Nat : m + (l - m) = l
        OBVIOUS
      <4> QED
        BY <1>7, <2>1, <2>7, <3>1, <3>7, <4>1 DEF InOrder
    <3>9. LastIsLeft'
      BY <1>3, <2>9 DEF LastIsLeft
    <3>10. Under'
      <4>1. cut' = cut
        BY <1>3
      <4>2. Laid(rawInput' \o net', Len(forwarded'), WrittenTo', Room', c - 1, f)
        BY <1>10, <1>13, <1>18, <3>4, <3>8
      <4>3. Apart(sender', WrittenTo', Room', c - 1, f)
        BY <1>3, <1>13, <1>18, <3>5
      <4> QED
        BY <3>1, <3>2, <3>6, <3>9, <4>1, <4>2, <4>3 DEF Under
    <3>11. LazyTypes'
      BY <1>19, <3>1
    <3> QED
      BY <1>18, <3>1, <3>8, <3>10, <3>11 DEF LazyInv
  <2> QED
    BY <2>10, <2>11
(* The record of the command *)
<1>16. CASE c = 0 /\ Room = 2
  <2>1. /\ q[1] = Token("head", <<0>>) /\ q[2] = Token("tail", <<0>>)
        /\ Len(q) = 2 + (t - b) /\ b <= t
        /\ \A i \in 1..(t - b) : q[2 + i] = Token("bare", <<b + i>>)
    BY <1>14, <1>16 DEF Begins
  <2>2. carried = <<0>>
    BY <1>9, <1>11, <2>1, SMTT(30) DEF carried
  <2>3. sender = "raw" /\ announced /\ writing = <<>> /\ t = taken
    <3>1. sender = "raw"
      BY <1>5, <1>16 DEF Apart
    <3>2. announced
      BY <1>16 DEF Room
    <3> QED
      BY <1>18, <3>1, <3>2 DEF Pending, t
  <2>4. decided \in {"raw", "plain"} /\ (~cut => decided = "raw")
    <3>1. TlsLazy!CommonDetect(<<0>>, gotCount, TRUE) \in {"raw", "plain"}
      BY <1>2, CommandVerdicts
    <3>2. ASSUME ~cut PROVE decided = "raw"
      <4>1. Synced(dir, sender, sentCount, receiver, gotCount, taken, Room, c, e)
        BY <1>5, <2>3, <3>2 DEF Counted
      <4>2. receiver = "sniffing" /\ gotCount + c \in 1..MaxPackets
        BY <1>3, <2>3, <4>1 DEF Synced
      <4>3. gotCount \in 1..MaxPackets
        <5>1. gotCount + 0 = gotCount
          BY <1>2
        <5> QED
          BY <1>16, <4>2, <5>1
      <4> QED
        BY <2>2, <4>2, <4>3, CommandVerdict DEF decided
    <3> QED
      BY <2>2, <3>1, <3>2 DEF decided
(* taken for data *)
  <2>5. CASE decided # "raw"
    <3>1. cut' /\ receiver' = "plain" /\ found' = "missed"
      BY <1>3, <2>2, <2>4, <2>5, CommandIs
    <3>2. LazyTypes'
      BY <1>19, <3>1
    <3> QED
      BY <1>18, <3>1, <3>2 DEF LazyInv
  <2>6. SUFFICES ASSUME decided = "raw" PROVE LazyInv'
    BY <2>5
  <2>7. TlsLazy!Record(<<TlsLazy!Command>>)[1] = Token("head", <<0>>)
    BY CommandIs, RecordsAre
  <2>8. PICK i \in TlsLazy!NextIndexes :
          CASE i <= Len(last) ->
                 forwarded' = forwarded \o TlsLazy!FreeData(i) /\ receiver' = "raw"
            [] i > Len(last) /\ dir = "up" ->
                 forwarded' = forwarded \o TlsLazy!Seen(last) /\ receiver' = "raw"
            [] i > Len(last) /\ dir = "down" ->
                 receiver' = "closed" /\ UNCHANGED forwarded
    BY <1>3, <2>6, <2>7 DEF TlsLazy!Switch
  <2>9. Len(last) \in Nat
    BY <1>2, LenProperties
  <2>10. /\ receiver' \in {"raw", "closed"}
         /\ found' = IF Len(last) > 1 /\ last[1] = Token("head", <<0>>)
                     THEN "first" ELSE "elsewhere"
    BY <1>22, <2>6
  <2>11. LazyTypes'
    BY <1>19, <2>10
  <2>12. CASE ~(Len(last) > 1 /\ last[1] = Token("head", <<0>>))
    <3>1. found' = "elsewhere"
      BY <2>10, <2>12
    <3> QED
      BY <1>18, <2>10, <2>11, <3>1 DEF LazyInv
  <2>13. CASE Len(last) > 1 /\ last[1] = Token("head", <<0>>)
    <3>1. found' = "first"
      BY <2>10, <2>13
    <3>2. rawInput = last
      BY <1>4, <2>13 DEF Under, LastIsLeft
    <3>3. i = 2
      <4>1. last # <<>> /\ last[1].part = "head"
        <5>1. Len(<<>>) = 0 /\ ~(0 > 1)
          BY EmptySeq
        <5> QED
          BY <1>11, <2>13, <5>1
      <4> QED
        BY <4>1 DEF TlsLazy!NextIndexes
    <3>4. i <= Len(last)
      BY <2>9, <2>13, <3>3
    <3> DEFINE m == Len(rawInput)
               l == Len(net)
               tokens == SubSeq(last, i + 1, Len(last))
               g == TlsLazy!Seen(tokens)
    <3>5. receiver' = "raw" /\ forwarded' = forwarded \o g
      <4>1. receiver' = "raw" /\ forwarded' = forwarded \o TlsLazy!FreeData(i)
        <5>1. ~(i > Len(last))
          BY <2>9, <3>3, <3>4
        <5>2. (CASE i <= Len(last) ->
                     forwarded' = forwarded \o TlsLazy!FreeData(i) /\ receiver' = "raw"
                [] i > Len(last) /\ dir = "up" ->
                     forwarded' = forwarded \o TlsLazy!Seen(last) /\ receiver' = "raw"
                [] i > Len(last) /\ dir = "down" ->
                     receiver' = "closed" /\ UNCHANGED forwarded)
          BY <2>8
        <5> HIDE DEF tokens
        <5> QED
          BY <3>4, <5>1, <5>2
      <4> QED
        BY <4>1 DEF TlsLazy!FreeData
    <3>6. m \in Nat /\ m >= 2 /\ l \in Nat /\ m + l = 2 + (t - b)
      <4>1. \A k \in Nat : k > 1 => k >= 2
        OBVIOUS
      <4> QED
        BY <1>3, <1>8, <2>1, <4>1
    <3>7. tokens = SubSeq(rawInput, 3, m)
      <4>1. 2 + 1 = 3
        OBVIOUS
      <4> QED
        BY <3>2, <3>3, <4>1
    <3> HIDE DEF m, l, tokens
    <3>8. /\ m \in Int /\ 3 \in Int /\ m - 3 + 1 = m - 2 /\ m - 2 \in Nat
          /\ \A j \in 3..m : j \in 1..m
          /\ \A j \in 1..(m - 2) : 3 + j - 1 = j + 2
          /\ m - 2 <= t - b
          /\ (IF 3 <= m THEN m - 3 + 1 ELSE 0) = m - 2
      <4>1. m \in Nat /\ m >= 2
        BY <3>6
      <4>2. \A k \in Nat : k >= 2 =>
              /\ k \in Int /\ 3 \in Int /\ k - 3 + 1 = k - 2 /\ k - 2 \in Nat
              /\ \A j \in 3..k : j \in 1..k
              /\ \A j \in 1..(k - 2) : 3 + j - 1 = j + 2
              /\ (IF 3 <= k THEN k - 3 + 1 ELSE 0) = k - 2
        OBVIOUS
      <4>3. m - 2 <= t - b
        BY <1>6, <1>7, <3>6
      <4> QED
        BY <4>1, <4>2, <4>3
    <3>9. \A j \in 1..m : rawInput[j] \in Tokens
      BY <1>2, ElementOfSeq DEF m
    <3>10. /\ tokens \in Seq(Tokens) /\ Len(tokens) = m - 2
           /\ \A j \in 1..(m - 2) : tokens[j] = rawInput[j + 2]
      <4>1. \A j \in 3..m : rawInput[j] \in Tokens
        BY <3>8, <3>9
      <4>2. /\ tokens \in Seq(Tokens)
            /\ Len(tokens) = IF 3 <= m THEN m - 3 + 1 ELSE 0
            /\ \A j \in 1..(m - 3 + 1) : tokens[j] = rawInput[3 + j - 1]
        <5>1. m \in Int /\ 3 \in Int
          BY <3>8
        <5> QED
          BY <3>7, <4>1, <5>1, SubSeqProperties, SMTT(40)
      <4> QED
        BY <3>8, <4>2
    <3>11. ASSUME NEW j \in 1..(m - 2)
           PROVE  tokens[j] = Token("bare", <<b + j>>)
      <4>1. j + 2 \in 1..m /\ j \in 1..(t - b) /\ j + 2 = 2 + j
        BY <1>6, <1>7, <3>6, <3>8
      <4> QED
        BY <1>8, <2>1, <3>10, <4>1 DEF m
    <3>12. g \in Seq(Nat) /\ Len(g) = m - 2 /\ \A j \in 1..Len(g) : g[j] = b + j
      <4>1. \A j \in 1..Len(tokens) : tokens[j] = Token("bare", <<b + j>>)
        BY <3>10, <3>11
      <4>2. /\ TlsLazy!Seen(tokens) \in Seq(Nat)
            /\ Len(TlsLazy!Seen(tokens)) = Len(tokens)
            /\ \A j \in 1..Len(tokens) : TlsLazy!Seen(tokens)[j] = b + j
        BY <1>7, <3>10, <4>1, SeenBare
      <4> QED
        BY <3>10, <4>2
    <3> HIDE DEF g
    <3>13. /\ forwarded \o g \in Seq(Nat) /\ Len(forwarded \o g) = b + Len(g)
           /\ \A k \in 1..Len(forwarded \o g) : (forwarded \o g)[k] = k
      BY <1>7, <3>12, InOrderExtended DEF b
    <3>14. InOrder' /\ Len(forwarded') = b + (m - 2)
      BY <3>5, <3>12, <3>13 DEF InOrder
    <3>15. (b + (m - 2)) + l = taken
      BY <1>6, <1>7, <2>3, <3>6
    <3>16. ASSUME NEW j \in 1..l
           PROVE  net[j] = Token("bare", <<(b + (m - 2)) + j>>)
      <4> DEFINE k == (m - 2) + j
      <4>1. k \in 1..(t - b) /\ 2 + k = m + j /\ b + k = (b + (m - 2)) + j
        BY <1>6, <1>7, <3>6, <3>8
      <4> HIDE DEF k
      <4>2. net[j] = q[m + j]
        BY <1>8 DEF m, l
      <4> QED
        BY <2>1, <4>1, <4>2
    <3>17. Switched'
      BY <1>3, <2>3, <3>5, <3>14, <3>15, <3>16 DEF Switched, l
    <3> QED
      BY <1>18, <2>11, <3>1, <3>14, <3>17 DEF LazyInv
  <2> QED
    BY <2>12, <2>13
<1>17. CASE c = 0 /\ Room = 0
  <2>1. /\ Len(q) = t - b /\ \A i \in 1..(t - b) : q[i] = Token("bare", <<b + i>>)
    BY <1>14, <1>17 DEF Begins
  <2>2. 1 \in 1..(t - b)
    <3>1. \A m, l \in Nat : m > 1 => 1 \in 1..(m + l)
      OBVIOUS
    <3> QED
      BY <1>3, <1>8, <2>1, <3>1
  <2> QED
    BY <1>3, <1>9, <1>11, <2>1, <2>2, ZenonT(40)
<1> QED
  BY <1>6, <1>15, <1>16, <1>17

LEMMA LazyStep ==
  ASSUME LazyInv, TlsLazy!Next
  PROVE  LazyInv'
BY LazyLearns, LazySends, LazyWrites, LazyReads, LazyFails, LazyReceives, LazySplices DEF TlsLazy!Next

LEMMA LazySwitches ==
  ASSUME LazyInv
  PROVE  TlsLazy!SwitchedAtOnce
<1>1. CASE found = "none"
  <2>1. Under \/ GivenUp
    BY <1>1 DEF LazyInv
  <2>2. \A k \in 1..Len(forwarded) : forwarded[k] = k
    BY <1>1 DEF LazyInv, InOrder
  <2>3. receiver # "raw" /\ (receiver = "closed" => ~announced)
    BY <2>1 DEF Under, GivenUp
  <2> QED
    BY <1>1, <2>2, <2>3 DEF TlsLazy!SwitchedAtOnce
<1>2. CASE found = "first"
  <2>1. \A k \in 1..Len(forwarded) : forwarded[k] = k
    BY <1>2 DEF LazyInv, InOrder
  <2>2. receiver = "raw" /\ announced
    BY <1>2 DEF LazyInv, Switched
  <2> QED
    BY <1>2, <2>1, <2>2 DEF TlsLazy!SwitchedAtOnce
<1>3. CASE found = "elsewhere"
  BY <1>3 DEF TlsLazy!SwitchedAtOnce
<1>4. CASE found = "missed"
  BY <1>4 DEF LazyInv, TlsLazy!SwitchedAtOnce
<1> QED
  BY <1>1, <1>2, <1>3, <1>4 DEF LazyInv, LazyTypes

-----------------------------------------------------------------------------
(* Copy.  The state of the reader: what is left of its first buffer, or    *)
(* whether its reply header is due, says how much of its stream was read.  *)
Methods ==
  {"start", "copy", "wait_splice", "readv", "wait_readv", "copy_bare", "classic", "splice",
   "directly", "eventually", "can_splice_write", "bare_writer", "failed"}

CopyTypes ==
  /\ reader \in Copy!Readers /\ writer \in Copy!Writers
  /\ pos \in Nat /\ arrived \in Nat /\ left \in Nat /\ inside \in Nat
  /\ pos <= arrived /\ arrived <= Copy!HeadLen + Total /\ left <= pos
  /\ headDue \in BOOLEAN /\ lost \in BOOLEAN /\ replyDue \in BOOLEAN /\ big \in BOOLEAN
  /\ method \in Methods

ReadSoFar ==
  /\ left > 0 => reader.layer \in {"vless_server", "trojan_server"} /\ pos = left
  /\ headDue => reader.layer = "vless0_client" /\ pos = 0
  /\ ~headDue => Copy!HeadLen <= pos

(* Nobody reads below the layers of the reader before they have done       *)
(* their part,                                                             *)
ReadsBelow ==
  method \in {"readv", "copy_bare", "splice", "directly", "eventually", "can_splice_write"}
    => left = 0 /\ ~headDue

(* nor writes below those of the writer. *)
WritesBelow ==
  /\ replyDue => writer.layer = "vless0_server" /\ Copy!Consumed = 0
  /\ method = "splice" => ~replyDue /\ (Copy!CanWSplice \/ (big /\ writer.bare = "tcp"))
  /\ method = "directly" => Copy!CanWSplice
  /\ method \in {"eventually", "can_splice_write"} => Copy!CanSpliceEventually
  /\ method = "can_splice_write" => ~replyDue
  /\ method = "bare_writer" => big /\ writer.bare = "tcp" /\ writer.layer = "none"

(* Only io.Copy to a writer without a layer loses some of the first read.  *)
Losing ==
  lost => /\ ~headDue /\ method \in {"classic", "bare_writer"} /\ writer.layer = "none"

(* A frame is open at the far end as long as somebody writes below the     *)
(* websocket, and it has room for all that is to come.                     *)
FrameOpen ==
  /\ ~big => inside = 0
  /\ big => /\ writer.ws = "server" /\ ~replyDue
            /\ method \in {"bare_writer", "splice", "classic", "failed"}
  /\ big /\ writer.bare = "tcp" =>
       method # "classic" /\ (lost \/ Total - Copy!Consumed <= inside)

Reply ==
  IF writer.layer = "vless0_server" /\ ~replyDue
  THEN <<Copy!ReplyByte, Copy!ReplyByte>> ELSE <<>>

CopyInv ==
  /\ CopyTypes
  /\ ReadSoFar
  /\ ReadsBelow
  /\ WritesBelow
  /\ FrameOpen
  /\ Losing
  /\ (big /\ writer.bare = "tls") \/ lost \/ output = Reply \o Copy!Data(Copy!Consumed)

Slice(c, k) == [i \in 1 .. k |-> c + i]

LEMMA SlicesAre ==
  ASSUME NEW c \in Nat, NEW k \in Nat
  PROVE  /\ Slice(c, k) \in Seq(Nat) /\ Len(Slice(c, k)) = k
         /\ Copy!Data(c) \in Seq(Nat) /\ Len(Copy!Data(c)) = c
         /\ \A i \in 1 .. k : Slice(c, k)[i] = c + i
         /\ \A i \in 1 .. c : Copy!Data(c)[i] = i
<1>1. \A i \in 1 .. k : c + i \in Nat
  OBVIOUS
<1>2. Slice(c, k) \in [1 .. k -> Nat]
  BY <1>1 DEF Slice
<1>3. Copy!Data(c) \in [1 .. c -> Nat]
  BY DEF Copy!Data
<1>4. Slice(c, k) \in Seq(Nat) /\ Copy!Data(c) \in Seq(Nat)
  BY <1>2, <1>3
<1>5. Len(Slice(c, k)) = k /\ Len(Copy!Data(c)) = c
  BY <1>2, <1>3, <1>4, LenProperties
<1> QED
  BY <1>4, <1>5 DEF Slice, Copy!Data

LEMMA DataGrows ==
  ASSUME NEW c \in Nat, NEW k \in Nat
  PROVE  Copy!Data(c) \o Slice(c, k) = Copy!Data(c + k)
<1> DEFINE a == Copy!Data(c)
           b == Slice(c, k)
           d == Copy!Data(c + k)
<1>1. /\ a \in Seq(Nat) /\ b \in Seq(Nat) /\ Len(a) = c /\ Len(b) = k
      /\ \A i \in 1 .. k : b[i] = c + i
      /\ \A i \in 1 .. c : a[i] = i
  BY SlicesAre
<1>2. c + k \in Nat
  OBVIOUS
<1>3. d \in Seq(Nat) /\ Len(d) = c + k /\ \A i \in 1 .. (c + k) : d[i] = i
  BY <1>2, SlicesAre
<1> HIDE DEF a, b, d
<1>4. /\ a \o b \in Seq(Nat) /\ Len(a \o b) = c + k
      /\ \A i \in 1 .. c + k : (a \o b)[i] = IF i <= c THEN a[i] ELSE b[i - c]
  BY <1>1, ConcatProperties
<1>5. ASSUME NEW i \in 1 .. c + k PROVE (a \o b)[i] = d[i]
  <2>1. CASE i <= c
    <3>1. i \in 1 .. c
      BY <2>1
    <3> QED
      BY <1>1, <1>3, <1>4, <2>1, <3>1
  <2>2. CASE ~(i <= c)
    <3>1. i - c \in 1 .. k /\ c + (i - c) = i
      BY <2>2
    <3> QED
      BY <1>1, <1>3, <1>4, <2>2, <3>1
  <2> QED
    BY <2>1, <2>2
<1>6. a \o b = d
  BY <1>3, <1>4, <1>5, SeqEqual
<1> QED
  BY <1>6 DEF a, b, d

(* More data behind what has come.                                         *)
LEMMA MoreArrives ==
  ASSUME NEW r \in Seq(Nat), NEW c \in Nat, NEW k \in Nat
  PROVE  (r \o Copy!Data(c)) \o Slice(c, k) = r \o Copy!Data(c + k)
<1>1. Copy!Data(c) \in Seq(Nat) /\ Slice(c, k) \in Seq(Nat)
  BY SlicesAre
<1>2. (r \o Copy!Data(c)) \o Slice(c, k) = r \o (Copy!Data(c) \o Slice(c, k))
  BY <1>1, ConcatAssociative
<1> QED
  BY <1>2, DataGrows

LEMMA FirstArrives ==
  ASSUME NEW r \in Seq(Nat), NEW k \in Nat
  PROVE  (<<>> \o Copy!Data(0)) \o (r \o Slice(0, k)) = r \o Copy!Data(k)
<1>1. Copy!Data(0) \in Seq(Nat) /\ Len(Copy!Data(0)) = 0 /\ Slice(0, k) \in Seq(Nat)
  BY SlicesAre
<1>2. Copy!Data(0) = <<>>
  BY <1>1, EmptySeq
<1>3. <<>> \o Copy!Data(0) = <<>> /\ 0 + k = k
  BY <1>2
<1>4. r \o Slice(0, k) \in Seq(Nat)
  BY <1>1, ConcatProperties
<1>5. (<<>> \o Copy!Data(0)) \o (r \o Slice(0, k)) = r \o Slice(0, k)
  BY <1>3, <1>4, ConcatEmptySeq
<1>6. r \o Copy!Data(0) = r
  BY <1>2, ConcatEmptySeq
<1>7. (r \o Copy!Data(0)) \o Slice(0, k) = r \o Copy!Data(0 + k)
  BY MoreArrives
<1> QED
  BY <1>3, <1>5, <1>6, <1>7

(* The stream behind the reply header is the data.                         *)
LEMMA StreamIs ==
  ASSUME CopyTypes
  PROVE  /\ Copy!HeadLen \in {0, 2} /\ Total \in Nat \ {0}
         /\ Copy!Stream \in Seq(Nat) /\ Len(Copy!Stream) = Copy!HeadLen + Total
         /\ \A i \in (Copy!HeadLen + 1) .. (Copy!HeadLen + Total) :
              Copy!Stream[i] = i - Copy!HeadLen
<1>1. Copy!HeadLen \in {0, 2} /\ Total \in Nat \ {0}
  BY CopyAssumption DEF Copy!HeadLen
<1> DEFINE h == Copy!HeadLen
           a == [i \in 1 .. h |-> Copy!ReplyByte]
           d == Copy!Data(Total)
<1>2. d \in Seq(Nat) /\ Len(d) = Total /\ \A i \in 1 .. Total : d[i] = i
  BY <1>1, SlicesAre
<1>3. a \in Seq(Nat) /\ Len(a) = h
  <2>1. a \in [1 .. h -> Nat] /\ h \in Nat
    BY <1>1 DEF Copy!ReplyByte
  <2> HIDE DEF a, h
  <2> QED
    BY <2>1, LenProperties
<1>4. Copy!Stream = a \o d
  BY DEF Copy!Stream
<1> HIDE DEF a, d
<1>5. /\ a \o d \in Seq(Nat) /\ Len(a \o d) = h + Total
      /\ \A i \in 1 .. h + Total : (a \o d)[i] = IF i <= h THEN a[i] ELSE d[i - h]
  BY <1>2, <1>3, ConcatProperties
<1> HIDE DEF h
<1>6. h \in Nat
  BY <1>1 DEF h
<1>7. ASSUME NEW i \in (h + 1) .. (h + Total) PROVE (a \o d)[i] = i - h
  <2>1. i \in 1 .. h + Total /\ ~(i <= h) /\ i - h \in 1 .. Total
    BY <1>1, <1>6
  <2> QED
    BY <1>2, <1>5, <2>1
<1> QED
  BY <1>1, <1>4, <1>5, <1>7 DEF h

LEMMA StreamSlices ==
  ASSUME CopyTypes, NEW x \in Nat, NEW k \in Nat,
         Copy!HeadLen <= x, x + k <= Copy!HeadLen + Total
  PROVE  SubSeq(Copy!Stream, x + 1, x + k) = Slice(x - Copy!HeadLen, k)
<1> DEFINE h == Copy!HeadLen
           s == Copy!Stream
           t == SubSeq(s, x + 1, x + k)
           u == Slice(x - h, k)
<1>1. h \in Nat /\ Total \in Nat /\ \A i \in (h + 1) .. (h + Total) : s[i] = i - h
  BY StreamIs
<1> HIDE DEF h, s
<1>2. h <= x /\ x + k <= h + Total
  BY DEF h
<1>3. x - h \in Nat /\ x + 1 \in Int /\ x + k \in Int
  BY <1>1, <1>2
<1>4. u \in Seq(Nat) /\ Len(u) = k /\ \A i \in 1 .. k : u[i] = (x - h) + i
  BY <1>3, SlicesAre
<1>5. \A i \in (x + 1) .. (x + k) : s[i] \in Nat
  <2> SUFFICES ASSUME NEW i \in (x + 1) .. (x + k) PROVE s[i] \in Nat
    OBVIOUS
  <2>1. i \in (h + 1) .. (h + Total) /\ i - h \in Nat
    BY <1>1, <1>2
  <2> QED
    BY <1>1, <2>1
<1>6. /\ t \in Seq(Nat) /\ Len(t) = IF x + 1 <= x + k THEN (x + k) - (x + 1) + 1 ELSE 0
      /\ \A i \in 1 .. (x + k) - (x + 1) + 1 : t[i] = s[(x + 1) + i - 1]
  BY <1>3, <1>5, SubSeqProperties
<1> HIDE DEF t, u
<1>7. Len(t) = k /\ (x + k) - (x + 1) + 1 = k
  BY <1>6
<1>8. ASSUME NEW i \in 1 .. k PROVE t[i] = u[i]
  <2>1. x + i \in (h + 1) .. (h + Total) /\ (x + 1) + i - 1 = x + i
        /\ (x + i) - h = (x - h) + i
    BY <1>1, <1>2
  <2>2. t[i] = s[x + i]
    BY <1>6, <1>7, <2>1
  <2>3. s[x + i] = (x + i) - h
    BY <1>1, <2>1
  <2> QED
    BY <1>4, <2>1, <2>2, <2>3
<1>9. t = u
  BY <1>4, <1>6, <1>7, <1>8, SeqEqual
<1> QED
  BY <1>9 DEF t, u, s, h

(* A read through the layers gives the next of the data, unless it has no  *)
(* room for it, and leaves them nothing to do.                             *)
LEMMA ReadsNext ==
  ASSUME CopyTypes, ReadSoFar, NEW n \in Nat, n >= 1, NEW m \in Nat, Copy!Read(n, m),
         UNCHANGED <<reader, arrived>>
  PROVE  /\ Copy!Consumed \in Nat
         /\ pos' \in Nat /\ left' = 0 /\ headDue' = FALSE /\ pos' <= arrived
         /\ Copy!HeadLen <= pos' /\ Copy!HeadLen' = Copy!HeadLen
         /\ lost' \in BOOLEAN /\ (lost => lost')
         /\ (~headDue \/ m >= Len(Copy!Stream) => lost' = lost)
         /\ Copy!Piece(n, m) \in Seq(Nat)
         /\ \E k \in Nat : /\ lost' \/ Copy!Piece(n, m) = Slice(Copy!Consumed, k)
                           /\ Copy!Consumed' = Copy!Consumed + k
                           /\ Copy!Consumed + k <= Total
                           /\ left = 0 /\ ~headDue => k = n
<1>1. /\ pos \in Nat /\ arrived \in Nat /\ left \in Nat /\ pos <= arrived
      /\ arrived <= Copy!HeadLen + Total /\ left <= pos /\ headDue \in BOOLEAN
      /\ lost \in BOOLEAN
  BY DEF CopyTypes
<1>2. Copy!HeadLen \in {0, 2} /\ Total \in Nat \ {0}
      /\ Len(Copy!Stream) = Copy!HeadLen + Total
  BY StreamIs
<1>3. Copy!HeadLen' = Copy!HeadLen
  BY DEF Copy!HeadLen
<1>8. \A c, k \in Nat : Slice(c, k) \in Seq(Nat)
  BY SlicesAre
<1>4. CASE left > 0
  <2>1. pos = left /\ Copy!HeadLen = 0 /\ headDue = FALSE
    BY <1>1, <1>4 DEF ReadSoFar, Copy!HeadLen
  <2>2. left' = 0 /\ pos' = pos /\ headDue' = headDue /\ lost' = lost
    BY <1>4 DEF Copy!Read
  <2>3. Copy!Consumed = 0 /\ Copy!Consumed' = left
    BY <1>1, <1>3, <2>1, <2>2 DEF Copy!Consumed
  <2>4. Copy!Piece(n, m) = SubSeq(Copy!Stream, 0 + 1, 0 + left)
    BY <1>1, <1>4 DEF Copy!Piece
  <2>5. 0 + left <= Copy!HeadLen + Total /\ Copy!HeadLen <= 0 /\ 0 - Copy!HeadLen = 0
    BY <1>1, <1>2, <2>1
  <2>6. Copy!Piece(n, m) = Slice(0, left)
    BY <1>1, <2>4, <2>5, StreamSlices
  <2>7. Copy!Consumed + left <= Total /\ Copy!Consumed' = Copy!Consumed + left
    BY <1>1, <1>2, <2>1, <2>3
  <2>8. Copy!Piece(n, m) \in Seq(Nat)
    BY <1>1, <1>8, <2>6
  <2> QED
    BY <1>1, <1>3, <1>4, <2>1, <2>2, <2>3, <2>6, <2>7, <2>8
<1>5. CASE left = 0 /\ headDue
  <2>1. pos = 0 /\ Copy!HeadLen = 2
    BY <1>5 DEF ReadSoFar, Copy!HeadLen
  <2>2. pos + n <= arrived /\ n >= 2 /\ pos' = n /\ headDue' = FALSE /\ left' = 0
    BY <1>1, <1>5, <2>1 DEF Copy!Read
  <2>10. lost' = (lost \/ n - 2 > m)
    BY <1>5, <2>1 DEF Copy!Read
  <2>3. Copy!Consumed = 0 /\ Copy!Consumed' = n - 2
    <3>1. Copy!Consumed = (pos - left) - 0
      BY <1>5 DEF Copy!Consumed
    <3>2. Copy!Consumed' = (pos' - left') - Copy!HeadLen
      BY <1>3, <2>2 DEF Copy!Consumed
    <3> QED
      BY <1>5, <2>1, <2>2, <3>1, <3>2
  <2> DEFINE j == IF n - 2 > m THEN m ELSE n - 2
  <2>4. n - 2 \in Nat /\ j \in Nat /\ j <= n - 2 /\ (~(n - 2 > m) => j = n - 2)
        /\ (IF n - 2 > m THEN 2 + m ELSE n) = 2 + j
    BY <2>2
  <2>5. Copy!Piece(n, m) = SubSeq(Copy!Stream, 2 + 1, 2 + j)
    BY <1>5, <2>1, <2>4 DEF Copy!Piece
  <2> HIDE DEF j
  <2>6. 2 + (n - 2) <= Copy!HeadLen + Total /\ 2 + j <= Copy!HeadLen + Total
        /\ Copy!HeadLen <= 2 /\ 2 - Copy!HeadLen = 0
    BY <1>1, <1>2, <2>1, <2>2, <2>4
  <2>7. Copy!Piece(n, m) = Slice(0, j)
    BY <2>4, <2>5, <2>6, StreamSlices
  <2>8. Copy!Consumed + (n - 2) <= Total /\ Copy!Consumed' = Copy!Consumed + (n - 2)
    BY <1>2, <2>1, <2>3, <2>4, <2>6
  <2>9. pos' \in Nat /\ pos' <= arrived /\ Copy!HeadLen <= pos'
    BY <1>1, <2>1, <2>2
  <2>11. lost' \in BOOLEAN /\ (lost => lost') /\ (m >= Len(Copy!Stream) => lost' = lost)
    <3>1. m >= Len(Copy!Stream) => ~(n - 2 > m)
      BY <1>1, <1>2, <2>1, <2>2
    <3> QED
      BY <1>1, <2>10, <3>1
  <2>12. Copy!Piece(n, m) \in Seq(Nat)
    BY <1>8, <2>4, <2>7
  <2>13. lost' \/ Copy!Piece(n, m) = Slice(Copy!Consumed, n - 2)
    BY <2>3, <2>4, <2>7, <2>10
  <2> QED
    BY <1>3, <1>5, <2>2, <2>3, <2>4, <2>8, <2>9, <2>11, <2>12, <2>13
<1>6. CASE left = 0 /\ ~headDue
  <2>1. Copy!HeadLen <= pos
    BY <1>6 DEF ReadSoFar
  <2>2. pos + n <= arrived /\ pos' = pos + n /\ headDue' = FALSE /\ left' = 0 /\ lost' = lost
    BY <1>1, <1>6 DEF Copy!Read
  <2>3. Copy!Consumed = pos - Copy!HeadLen /\ Copy!Consumed' = (pos + n) - Copy!HeadLen
    BY <1>1, <1>2, <1>3, <1>6, <2>2 DEF Copy!Consumed
  <2>4. Copy!Piece(n, m) = SubSeq(Copy!Stream, pos + 1, pos + n)
    <3>1. ~(left > 0) /\ ~headDue
      BY <1>6
    <3> QED
      BY <3>1 DEF Copy!Piece, Copy!BarePiece
  <2>5. pos + n <= Copy!HeadLen + Total
    BY <1>1, <1>2, <2>2
  <2>6. Copy!Piece(n, m) = Slice(pos - Copy!HeadLen, n)
    BY <1>1, <2>1, <2>4, <2>5, StreamSlices
  <2>7. /\ Copy!Consumed \in Nat /\ Copy!Consumed' = Copy!Consumed + n
        /\ Copy!Consumed + n <= Total
    BY <1>1, <1>2, <2>1, <2>3, <2>5
  <2>8. pos' \in Nat /\ pos' <= arrived /\ Copy!HeadLen <= pos'
    BY <1>1, <1>2, <2>1, <2>2
  <2>9. Copy!Piece(n, m) \in Seq(Nat)
    BY <1>8, <2>3, <2>6, <2>7
  <2> QED
    BY <1>1, <1>3, <1>6, <2>2, <2>3, <2>6, <2>7, <2>8, <2>9
<1>7. left > 0 \/ left = 0
  BY <1>1
<1> QED
  BY <1>4, <1>5, <1>6, <1>7

(* So does a read below them, once they have nothing to do.                *)
LEMMA ReadsNextBelow ==
  ASSUME CopyTypes, ReadSoFar, NEW n \in Nat, n >= 1, Copy!ReadBare(n), left = 0, ~headDue,
         UNCHANGED <<reader, arrived>>
  PROVE  Copy!Read(n, n) /\ Copy!Piece(n, n) = Copy!BarePiece(n) /\ lost' = lost
<1>1. lost' = lost /\ lost \in BOOLEAN /\ headDue = FALSE
  BY DEF Copy!ReadBare, CopyTypes
<1>2. lost' = (lost \/ (headDue /\ n - Copy!HeadLen > n))
  BY <1>1
<1> QED
  BY <1>1, <1>2 DEF Copy!ReadBare, Copy!Read, Copy!Piece, CopyTypes

-----------------------------------------------------------------------------
(* What writing does at the far end.                                       *)
LEMMA FramedOutside ==
  ASSUME NEW p, inside = 0, Len(p) \in Nat, Copy!Below(p)
  PROVE  output' = output \o p /\ inside' = 0
BY DEF Copy!Below, Copy!WriteBare, Copy!WriteFrame

LEMMA BareInside ==
  ASSUME NEW p \in Seq(Nat), inside \in Nat, Copy!WriteBare(p),
         writer.ws # "none" => Len(p) <= inside
  PROVE  /\ output' = output \o p
         /\ inside' = IF writer.ws = "none" THEN inside ELSE inside - Len(p)
<1>1. CASE writer.ws = "none"
  BY <1>1 DEF Copy!WriteBare
<1>2. CASE writer.ws # "none"
  <2>1. Len(p) \in Nat /\ Len(p) <= inside
    BY <1>2, LenProperties
  <2>2. Copy!Unframed(p) = [i \in 1 .. Len(p) |-> p[i]]
    BY <2>1 DEF Copy!Unframed
  <2>3. Copy!Unframed(p) = p
    <3>1. p \in [1 .. Len(p) -> Nat]
      BY LenProperties
    <3> QED
      BY <2>2, <3>1
  <2>4. output' = output \o p /\ inside' = IF Len(p) < inside THEN inside - Len(p) ELSE 0
    BY <1>2, <2>3 DEF Copy!WriteBare
  <2> QED
    BY <1>2, <2>1, <2>4
<1> QED
  BY <1>1, <1>2

(* Whatever is written, the rest of a frame is a number.                   *)
LEMMA RestOfFrame ==
  ASSUME NEW p \in Seq(Nat), inside \in Nat, Copy!Below(p) \/ Copy!WriteBare(p)
  PROVE  inside' \in Nat
<1>1. Copy!Noise \in Nat
  BY CopyAssumption DEF Copy!Noise
<1>2. Len(p) \in Nat /\ Len(<<Copy!Noise>> \o p) \in Nat
  <2>1. <<Copy!Noise>> \in Seq(Nat)
    BY <1>1
  <2>2. <<Copy!Noise>> \o p \in Seq(Nat)
    BY <2>1, ConcatProperties
  <2> QED
    BY <2>2, LenProperties
<1>3. ASSUME NEW q, Len(q) \in Nat, Copy!WriteBare(q) PROVE inside' \in Nat
  BY <1>3 DEF Copy!WriteBare
<1>4. CASE inside = 0 /\ Copy!Below(p)
  BY <1>2, <1>4, FramedOutside
<1>5. CASE inside # 0 /\ Copy!Below(p)
  BY <1>2, <1>3, <1>5 DEF Copy!Below, Copy!WriteFrame
<1> QED
  BY <1>2, <1>3, <1>4, <1>5

LEMMA PrefixedAre ==
  ASSUME NEW p \in Seq(Nat)
  PROVE  /\ <<Copy!ReplyByte, Copy!ReplyByte>> \in Seq(Nat) /\ <<>> \in Seq(Nat)
         /\ (IF replyDue THEN <<Copy!ReplyByte, Copy!ReplyByte>> ELSE <<>>) \o p \in Seq(Nat)
<1>1. <<Copy!ReplyByte, Copy!ReplyByte>> \in Seq(Nat) /\ <<>> \in Seq(Nat)
  BY DEF Copy!ReplyByte
<1> QED
  BY <1>1, ConcatProperties

(* The next of the data, written through the layers or below them, comes   *)
(* behind what has come.                                                   *)
LEMMA WriteKeeps ==
  ASSUME CopyInv, ~big, ~lost, NEW k \in Nat, Copy!Write(Slice(Copy!Consumed, k)),
         Copy!Consumed \in Nat, Copy!Consumed' = Copy!Consumed + k, UNCHANGED writer
  PROVE  /\ output' = Reply' \o Copy!Data(Copy!Consumed')
         /\ inside' = 0 /\ replyDue' = FALSE
<1> DEFINE c == Copy!Consumed
           s == Slice(c, k)
           r == <<Copy!ReplyByte, Copy!ReplyByte>>
<1>1. /\ inside = 0 /\ output = Reply \o Copy!Data(c) /\ replyDue \in BOOLEAN
      /\ replyDue => writer.layer = "vless0_server" /\ c = 0
  BY DEF CopyInv, CopyTypes, FrameOpen, WritesBelow
<1>2. s \in Seq(Nat)
  BY SlicesAre
<1>3. replyDue' = FALSE /\ Copy!Below((IF replyDue THEN r ELSE <<>>) \o s)
  BY DEF Copy!Write
<1>4. Reply' = IF writer.layer = "vless0_server" THEN r ELSE <<>>
  BY <1>3 DEF Reply, Copy!ReplyByte
<1>5. r \in Seq(Nat) /\ <<>> \in Seq(Nat) /\ (IF replyDue THEN r ELSE <<>>) \o s \in Seq(Nat)
  BY <1>2, PrefixedAre
<1>6. output' = output \o ((IF replyDue THEN r ELSE <<>>) \o s) /\ inside' = 0
  BY <1>1, <1>3, <1>5, FramedOutside, LenProperties
<1>7. CASE replyDue
  <2>1. c = 0 /\ output = <<>> \o Copy!Data(0) /\ Reply' = r /\ Copy!Consumed' = k
    BY <1>1, <1>4, <1>7 DEF Reply
  <2>2. output' = (<<>> \o Copy!Data(0)) \o (r \o Slice(0, k))
    BY <1>6, <1>7, <2>1
  <2>3. output' = r \o Copy!Data(k)
    BY <1>5, <2>2, FirstArrives
  <2> QED
    BY <1>3, <1>6, <2>1, <2>3
<1>8. CASE ~replyDue
  <2>1. Reply' = Reply /\ Reply \in Seq(Nat)
    BY <1>4, <1>5, <1>8 DEF Reply
  <2>2. output' = (Reply \o Copy!Data(c)) \o Slice(c, k)
    BY <1>1, <1>2, <1>6, <1>8, ConcatEmptySeq
  <2>3. output' = Reply \o Copy!Data(c + k)
    BY <2>1, <2>2, MoreArrives
  <2> QED
    BY <1>3, <1>6, <2>1, <2>3
<1> QED
  BY <1>1, <1>7, <1>8

LEMMA BareKeeps ==
  ASSUME CopyInv, ~lost, writer.ws = "none" \/ (big /\ writer.bare = "tcp"), ~replyDue,
         NEW k \in Nat, Copy!WriteBare(Slice(Copy!Consumed, k)),
         Copy!Consumed \in Nat, Copy!Consumed' = Copy!Consumed + k,
         Copy!Consumed + k <= Total, UNCHANGED <<writer, replyDue>>
  PROVE  /\ output' = Reply' \o Copy!Data(Copy!Consumed')
         /\ inside' \in Nat /\ (~big => inside' = 0)
         /\ big => Total - Copy!Consumed' <= inside'
<1> DEFINE c == Copy!Consumed
           s == Slice(c, k)
<1>1. /\ inside \in Nat /\ output = Reply \o Copy!Data(c) /\ (~big => inside = 0)
      /\ (big => Total - c <= inside /\ writer.ws # "none") /\ Total \in Nat
      /\ (writer.ws # "none" => big)
  <2>1. CopyTypes /\ FrameOpen
    BY DEF CopyInv
  <2>2. big => writer.bare = "tcp" /\ writer.bare # "tls" /\ writer.ws # "none"
    BY <2>1 DEF FrameOpen
  <2>3. Total \in Nat
    BY CopyAssumption
  <2> QED
    BY <2>1, <2>2, <2>3 DEF CopyInv, FrameOpen, CopyTypes
<1>2. s \in Seq(Nat) /\ Len(s) = k
  BY SlicesAre
<1>3. writer.ws # "none" => Len(s) <= inside
  BY <1>1, <1>2
<1>4. output' = output \o s /\ inside' = IF writer.ws = "none" THEN inside ELSE inside - Len(s)
  BY <1>1, <1>2, <1>3, BareInside
<1>5. Reply' = Reply /\ Reply \in Seq(Nat)
  BY <1>2, PrefixedAre DEF Reply, Copy!ReplyByte
<1>6. output' = Reply' \o Copy!Data(Copy!Consumed')
  BY <1>1, <1>4, <1>5, MoreArrives
<1>7. /\ inside' \in Nat /\ (~big => inside' = 0)
      /\ big => Total - Copy!Consumed' <= inside'
  BY <1>1, <1>2, <1>3, <1>4
<1> QED
  BY <1>6, <1>7

(* MergeBuffers loses nothing of what readv has filled in order.           *)
LEMMA MergedAre ==
  ASSUME NEW p \in Seq(Nat)
  PROVE  Copy!MergeBuffers(p) = p
<1>1. p \in [1 .. Len(p) -> Nat] /\ Len(p) \in Nat /\ BufLen \in Nat
  BY LenProperties, CopyAssumption
<1>2. ASSUME NEW i \in 1 .. Len(p), Len(p) <= BufLen
      PROVE  ~(i > Copy!ShrinkBuffers(p))
  BY <1>1, <1>2 DEF Copy!ShrinkBuffers
<1>3. Copy!MergeBuffers(p) = [i \in 1 .. Len(p) |-> p[i]]
  BY <1>2 DEF Copy!MergeBuffers
<1> QED
  BY <1>1, <1>3

LEMMA ConsumedIs ==
  ASSUME CopyTypes, ReadSoFar
  PROVE  Copy!Consumed \in Nat
<1>1. /\ pos \in Nat /\ left \in Nat /\ headDue \in BOOLEAN /\ left <= pos
      /\ Copy!HeadLen \in {0, 2}
  BY StreamIs DEF CopyTypes
<1>2. CASE headDue
  BY <1>1, <1>2 DEF Copy!Consumed
<1>3. CASE ~headDue /\ left > 0
  <2>1. Copy!HeadLen = 0 /\ Copy!Consumed = (pos - left) - Copy!HeadLen
    BY <1>3 DEF ReadSoFar, Copy!HeadLen, Copy!Consumed
  <2> QED
    BY <1>1, <2>1
<1>4. CASE ~headDue /\ ~(left > 0)
  <2>1. Copy!HeadLen <= pos /\ Copy!Consumed = (pos - left) - Copy!HeadLen
    BY <1>4 DEF ReadSoFar, Copy!Consumed
  <2> QED
    BY <1>1, <1>4, <2>1
<1> QED
  BY <1>2, <1>3, <1>4

-----------------------------------------------------------------------------
LEMMA CopyStart ==
  ASSUME Copy!Init
  PROVE  CopyInv
<1>1. /\ reader \in Copy!Readers /\ writer \in Copy!Writers /\ arrived = left /\ pos = left
      /\ lost = FALSE /\ big = FALSE /\ method = "start" /\ output = <<>> /\ inside = 0
      /\ headDue = (reader.layer = "vless0_client")
      /\ replyDue = (writer.layer = "vless0_server")
  BY DEF Copy!Init
<1>2. /\ left \in {0, 1}
      /\ left > 0 => reader.layer \in {"vless_server", "trojan_server"}
  BY DEF Copy!Init
<1>3. Copy!HeadLen \in {0, 2} /\ Total \in Nat \ {0}
  BY CopyAssumption DEF Copy!HeadLen
<1>4. CopyTypes
  <2>1. /\ left \in Nat /\ left <= left /\ left <= Copy!HeadLen + Total /\ "start" \in Methods
        /\ 0 \in Nat
    BY <1>2, <1>3 DEF Methods
  <2>2. headDue \in BOOLEAN /\ replyDue \in BOOLEAN
    BY <1>1
  <2> QED
    BY <1>1, <2>1, <2>2 DEF CopyTypes
<1>5. /\ headDue => reader.layer = "vless0_client" /\ left = 0
      /\ Copy!HeadLen = IF headDue THEN 2 ELSE 0
  <2>1. CASE reader.layer = "vless0_client"
    <3>1. headDue /\ ~(left > 0)
      BY <1>1, <1>2, <2>1
    <3>2. left = 0
      BY <1>2, <3>1
    <3> QED
      BY <2>1, <3>1, <3>2 DEF Copy!HeadLen
  <2>2. CASE reader.layer # "vless0_client"
    <3>1. ~headDue
      BY <1>1, <2>2
    <3> QED
      BY <2>2, <3>1 DEF Copy!HeadLen
  <2> QED
    BY <2>1, <2>2
<1>11. ReadSoFar
  <2>1. ~headDue => Copy!HeadLen = 0 /\ 0 <= left
    BY <1>2, <1>5
  <2> QED
    BY <1>1, <1>2, <1>5, <2>1 DEF ReadSoFar
<1>6. Copy!Consumed = 0
  <2>1. CASE headDue
    <3>1. Copy!Consumed = (left - left) - 0
      BY <1>1, <2>1 DEF Copy!Consumed
    <3> QED
      BY <1>2, <3>1
  <2>2. CASE ~headDue
    <3>1. Copy!Consumed = (left - left) - Copy!HeadLen /\ Copy!HeadLen = 0
      BY <1>1, <1>5, <2>2 DEF Copy!Consumed
    <3> QED
      BY <1>2, <3>1
  <2> QED
    BY <2>1, <2>2
<1>7. Reply = <<>>
  BY <1>1 DEF Reply
<1>8. Copy!Data(0) = <<>>
  BY DEF Copy!Data
<1>9. output = Reply \o Copy!Data(Copy!Consumed)
  BY <1>1, <1>6, <1>7, <1>8
<1> QED
  BY <1>1, <1>4, <1>6, <1>9, <1>11 DEF CopyInv, ReadsBelow, WritesBelow, FrameOpen, Losing

(* What is left to show when nothing is read, *)
LEMMA NothingRead ==
  ASSUME CopyInv, UNCHANGED <<reader, writer, pos, left, headDue, lost, replyDue, output>>,
         arrived' \in arrived .. Len(Copy!Stream), method' \in Methods,
         big' \in BOOLEAN, big => big', inside' \in Nat,
         ReadsBelow', WritesBelow', FrameOpen', Losing'
  PROVE  CopyInv'
<1>1. /\ CopyTypes /\ ReadSoFar
      /\ (big /\ writer.bare = "tls") \/ lost \/ output = Reply \o Copy!Data(Copy!Consumed)
  BY DEF CopyInv
<1>2. Copy!HeadLen' = Copy!HeadLen /\ Reply' = Reply /\ Copy!Consumed' = Copy!Consumed
  BY DEF Copy!HeadLen, Reply, Copy!Consumed, Copy!ReplyByte
<1>3. Copy!HeadLen \in Nat /\ Total \in Nat /\ Len(Copy!Stream) = Copy!HeadLen + Total
  BY <1>1, StreamIs
<1>4. CopyTypes'
  BY <1>1, <1>2, <1>3 DEF CopyTypes
<1>5. ReadSoFar'
  BY <1>1, <1>2 DEF ReadSoFar
<1>6. (big' /\ writer'.bare = "tls") \/ lost'
        \/ output' = Reply' \o Copy!Data(Copy!Consumed')
  BY <1>1, <1>2
<1> QED
  BY <1>4, <1>5, <1>6 DEF CopyInv, Copy!Data

(* and when something is. *)
LEMMA SomethingRead ==
  ASSUME CopyInv, NEW n \in Nat, n >= 1, NEW m \in Nat, Copy!Read(n, m),
         UNCHANGED <<reader, writer, arrived, big>>,
         method' \in Methods, replyDue' \in BOOLEAN, inside' \in Nat,
         WritesBelow', FrameOpen', Losing',
         (big /\ writer.bare = "tls") \/ lost' \/ output' = Reply' \o Copy!Data(Copy!Consumed')
  PROVE  CopyInv'
<1>1. CopyTypes /\ ReadSoFar
  BY DEF CopyInv
<1>2. /\ pos' \in Nat /\ left' = 0 /\ headDue' = FALSE /\ pos' <= arrived
      /\ Copy!HeadLen <= pos' /\ Copy!HeadLen' = Copy!HeadLen /\ lost' \in BOOLEAN
  BY <1>1, ReadsNext
<1>3. CopyTypes'
  <2>1. /\ reader \in Copy!Readers /\ writer \in Copy!Writers /\ arrived \in Nat
        /\ arrived <= Copy!HeadLen + Total /\ big \in BOOLEAN
    BY <1>1 DEF CopyTypes
  <2>2. 0 \in Nat /\ 0 <= pos' /\ FALSE \in BOOLEAN
    BY <1>2
  <2>3. Copy!Readers' = Copy!Readers /\ Copy!Writers' = Copy!Writers
    BY DEF Copy!Readers, Copy!Writers
  <2> QED
    BY <1>2, <2>1, <2>2, <2>3 DEF CopyTypes
<1>4. ReadSoFar' /\ ReadsBelow'
  BY <1>2 DEF ReadSoFar, ReadsBelow
<1>5. (big' /\ writer'.bare = "tls") \/ lost'
        \/ output' = Reply' \o Copy!Data(Copy!Consumed')
  OBVIOUS
<1> QED
  BY <1>3, <1>4, <1>5 DEF CopyInv, Copy!Data

(* A round through the layers.                                             *)
LEMMA RoundKeeps ==
  ASSUME CopyInv, NEW n \in Nat, n >= 1, NEW m \in Nat, NEW w \in BOOLEAN, Copy!Round(n, m, w),
         ~big \/ writer.bare = "tls", UNCHANGED <<reader, writer, arrived, big>>,
         lost' => writer.layer = "none"
  PROVE  /\ Copy!Read(n, m) /\ replyDue' \in BOOLEAN /\ inside' \in Nat
         /\ ~big => inside' = 0
         /\ replyDue' => replyDue /\ Copy!Consumed' = 0
         /\ left = 0 /\ ~headDue => replyDue' = FALSE
         /\ (big /\ writer.bare = "tls") \/ lost' \/ output' = Reply' \o Copy!Data(Copy!Consumed')
<1>1. CopyTypes /\ ReadSoFar /\ Copy!Read(n, m)
  BY DEF CopyInv, Copy!Round
<1>2. PICK k \in Nat : /\ lost' \/ Copy!Piece(n, m) = Slice(Copy!Consumed, k)
                       /\ Copy!Consumed' = Copy!Consumed + k
                       /\ left = 0 /\ ~headDue => k = n
  BY <1>1, ReadsNext
<1>3. Copy!Consumed \in Nat /\ Copy!Piece(n, m) \in Seq(Nat) /\ (lost => lost')
      /\ (~headDue => lost' = lost)
  BY <1>1, ReadsNext
<1>4. lost' \/ Len(Copy!Piece(n, m)) = k
  BY <1>2, <1>3, SlicesAre
<1>5. /\ replyDue \in BOOLEAN /\ inside \in Nat /\ (~big => inside = 0)
      /\ (replyDue => Copy!Consumed = 0 /\ writer.layer = "vless0_server")
      /\ (big /\ writer.bare = "tls") \/ lost \/ output = Reply \o Copy!Data(Copy!Consumed)
  BY DEF CopyInv, CopyTypes, FrameOpen, WritesBelow
<1>6. CASE Copy!Piece(n, m) = <<>> /\ ~w
  <2>1. UNCHANGED <<output, inside, replyDue>>
    BY <1>6 DEF Copy!Round
  <2>2. CASE lost'
    <3>1. replyDue = FALSE
      BY <1>5, <2>2
    <3> QED
      BY <1>1, <1>5, <2>1, <2>2, <3>1
  <2>3. CASE ~lost'
    <3>1. k = 0
      BY <1>4, <1>6, <2>3
    <3>2. Copy!Consumed' = Copy!Consumed /\ Reply' = Reply
      BY <1>2, <1>3, <2>1, <3>1 DEF Reply, Copy!ReplyByte
    <3> QED
      BY <1>1, <1>2, <1>3, <1>5, <2>1, <2>3, <3>1, <3>2
  <2> QED
    BY <2>2, <2>3
<1>7. CASE ~(Copy!Piece(n, m) = <<>> /\ ~w)
  <2>1. Copy!Write(Copy!Piece(n, m))
    BY <1>7 DEF Copy!Round
  <2> DEFINE p == (IF replyDue THEN <<Copy!ReplyByte, Copy!ReplyByte>> ELSE <<>>)
                  \o Copy!Piece(n, m)
  <2>2. Copy!Below(p) /\ replyDue' = FALSE
    BY <2>1 DEF Copy!Write
  <2>3. p \in Seq(Nat)
    BY <1>3, PrefixedAre
  <2> HIDE DEF p
  <2>4. inside' \in Nat /\ (~big => inside' = 0)
    BY <1>5, <2>2, <2>3, RestOfFrame, FramedOutside, LenProperties
  <2>5. ASSUME ~(big /\ writer.bare = "tls"), ~lost'
        PROVE  output' = Reply' \o Copy!Data(Copy!Consumed')
    <3>1. ~big /\ ~lost /\ Copy!Write(Slice(Copy!Consumed, k))
      BY <1>2, <1>3, <2>1, <2>5
    <3> QED
      BY <1>2, <1>3, <3>1, WriteKeeps
  <2> QED
    BY <1>1, <2>2, <2>4, <2>5
<1> QED
  BY <1>6, <1>7

-----------------------------------------------------------------------------
(* The choices between the ways to copy. *)
LEMMA CopyChooses ==
  ASSUME CopyInv, Copy!Choose \/ Copy!Leave \/ Copy!HeadTooShort \/ Copy!Arrive
  PROVE  CopyInv'
<1>1. /\ CopyTypes /\ ReadSoFar /\ ReadsBelow /\ WritesBelow /\ FrameOpen /\ Losing
  BY DEF CopyInv
<1>2. /\ UNCHANGED <<reader, writer, pos, left, headDue, lost, replyDue, output, big, inside>>
      /\ big \in BOOLEAN /\ inside \in Nat /\ arrived \in Nat /\ method \in Methods
      /\ arrived <= Copy!HeadLen + Total
  BY <1>1 DEF Copy!Choose, Copy!Leave, Copy!HeadTooShort, Copy!Arrive, CopyTypes
<1>3. Copy!HeadLen \in {0, 2} /\ Total \in Nat /\ Len(Copy!Stream) = Copy!HeadLen + Total
  BY <1>1, StreamIs
<1>4. arrived' \in arrived .. Len(Copy!Stream)
  <2>1. CASE Copy!Arrive
    <3>1. arrived' \in (arrived + 1) .. Len(Copy!Stream)
      BY <2>1 DEF Copy!Arrive
    <3> QED
      BY <1>2, <1>3, <3>1
  <2>2. CASE ~Copy!Arrive
    <3>1. arrived' = arrived
      BY <2>2 DEF Copy!Choose, Copy!Leave, Copy!HeadTooShort
    <3> QED
      BY <1>2, <1>3, <3>1
  <2> QED
    BY <2>1, <2>2
<1>5. Copy!Consumed' = Copy!Consumed
  BY <1>2 DEF Copy!Consumed, Copy!HeadLen
<1>6. \/ method' = method
      \/ method' \in {"copy", "wait_splice", "readv", "wait_readv", "copy_bare", "failed"}
  BY DEF Copy!Choose, Copy!Leave, Copy!HeadTooShort, Copy!Arrive
<1>7. method' \in {"readv", "copy_bare"} => left = 0 /\ ~headDue
  <2>1. CASE Copy!Choose /\ method' \in {"readv", "copy_bare"}
    <3>1. Copy!CanRSplice
      BY <2>1 DEF Copy!Choose
    <3>2. reader.layer = "none"
      BY <3>1 DEF Copy!CanRSplice
    <3>3. ~(left > 0) /\ left \in Nat /\ ~headDue
      BY <1>1, <3>2 DEF ReadSoFar, CopyTypes
    <3> QED
      BY <3>3
  <2>2. CASE Copy!Leave
    BY <2>2 DEF Copy!Leave, Copy!noHandshakeShit
  <2>3. CASE Copy!HeadTooShort
    BY <2>3 DEF Copy!HeadTooShort
  <2>4. CASE Copy!Arrive
    BY <1>1, <2>4 DEF Copy!Arrive, ReadsBelow
  <2> QED
    BY <2>1, <2>2, <2>3, <2>4
<1>8. big => method' = method \/ method' = "failed"
  <2>1. big => method \notin {"start", "wait_splice", "wait_readv"}
    BY <1>1 DEF FrameOpen
  <2> QED
    BY <2>1 DEF Copy!Choose, Copy!Leave, Copy!HeadTooShort, Copy!Arrive
<1>9. ReadsBelow'
  BY <1>1, <1>2, <1>6, <1>7 DEF ReadsBelow
<1>10. WritesBelow'
  BY <1>1, <1>2, <1>5, <1>6 DEF WritesBelow, Copy!CanWSplice, Copy!CanSpliceEventually
<1>11. FrameOpen'
  BY <1>1, <1>2, <1>5, <1>8 DEF FrameOpen
<1>12. method' \in Methods
  BY <1>2, <1>6 DEF Methods
<1>13. Losing'
  <2>1. lost => ~Copy!Choose /\ ~Copy!Leave /\ ~Copy!HeadTooShort
    BY <1>1 DEF Losing, Copy!Choose, Copy!Leave, Copy!HeadTooShort
  <2>2. lost => method' = method
    BY <2>1 DEF Copy!Arrive
  <2> QED
    BY <1>1, <1>2, <2>2 DEF Losing
<1> QED
  BY <1>2, <1>4, <1>9, <1>10, <1>11, <1>12, <1>13, NothingRead

(* The endless frame of a websocket begins.                                *)
LEMMA FrameBegins ==
  ASSUME CopyInv, ~big, ~lost, Copy!tryWriteBigHeader
  PROVE  /\ big' = TRUE /\ output' = output /\ inside' \in Nat
         /\ Copy!Consumed \in Nat => Total - Copy!Consumed <= inside'
<1>1. inside = 0 /\ output = Reply \o Copy!Data(Copy!Consumed)
  BY DEF CopyInv, FrameOpen
<1>2. big' = TRUE /\ Copy!WriteFrame(Copy!Endless, <<>>)
  BY DEF Copy!tryWriteBigHeader
<1>3. output' = output \o <<>> /\ inside' = Copy!Endless - 0
  BY <1>1, <1>2 DEF Copy!WriteFrame
<1>4. Copy!Data(Copy!Consumed) \in Seq(Nat) /\ Reply \in Seq(Nat) /\ Copy!Consumed \in Nat
  <2>1. CopyTypes /\ ReadSoFar
    BY DEF CopyInv
  <2>2. Copy!Consumed \in Nat
    BY <2>1, ConsumedIs
  <2>3. Reply \in Seq(Nat)
    BY DEF Reply, Copy!ReplyByte
  <2> QED
    BY <2>2, <2>3, SlicesAre
<1>5. output' = output
  BY <1>1, <1>3, <1>4, ConcatProperties, ConcatEmptySeq
<1>6. inside' \in Nat /\ (Copy!Consumed \in Nat => Total - Copy!Consumed <= inside')
  BY <1>3, CopyAssumption DEF Copy!Endless
<1> QED
  BY <1>2, <1>5, <1>6

LEMMA CopyGoesDown ==
  ASSUME CopyInv, Copy!Copy \/ Copy!CanSpliceWrite
  PROVE  CopyInv'
<1>1. /\ CopyTypes /\ ReadSoFar /\ ReadsBelow /\ WritesBelow /\ FrameOpen /\ Losing
  BY DEF CopyInv
<1>2. /\ UNCHANGED <<reader, writer, arrived, pos, left, headDue, lost, replyDue>>
      /\ inside \in Nat /\ arrived \in Nat /\ arrived <= Copy!HeadLen + Total
  BY <1>1 DEF Copy!Copy, Copy!CanSpliceWrite, CopyTypes
<1>3. Copy!HeadLen \in {0, 2} /\ Total \in Nat /\ Len(Copy!Stream) = Copy!HeadLen + Total
  BY <1>1, StreamIs
<1>4. arrived' \in arrived .. Len(Copy!Stream)
  BY <1>2, <1>3
<1>5. Copy!Consumed' = Copy!Consumed /\ Copy!Consumed \in Nat
  BY <1>1, <1>2, ConsumedIs DEF Copy!Consumed, Copy!HeadLen
<1>6. ~big
  BY <1>1 DEF Copy!Copy, Copy!CanSpliceWrite, FrameOpen
<1>10. ~lost /\ Losing'
  <2>1. ~lost
    BY <1>1 DEF Losing, Copy!Copy, Copy!CanSpliceWrite
  <2> QED
    BY <1>2, <2>1 DEF Losing
<1>7. inside = 0 /\ big = FALSE
  BY <1>1, <1>6 DEF FrameOpen, CopyTypes
<1>8. CASE UNCHANGED <<big, output, inside>>
  <2>8. Copy!Copy
    BY <1>6, <1>8 DEF Copy!CanSpliceWrite, Copy!tryWriteBigHeader
  <2>1. method' \in {"splice", "directly", "eventually", "classic"}
    BY <1>6, <1>8, <2>8 DEF Copy!Copy, Copy!TryReadFrom_withSplice, Copy!tryWriteBigHeader
  <2>2. method' # "classic" => left = 0 /\ ~headDue
    <3>1. CASE method = "copy_bare"
      BY <1>1, <3>1 DEF ReadsBelow
    <3>2. CASE method = "copy" /\ method' # "classic"
      <4>1. Copy!CanRSplice
        BY <1>6, <1>8, <2>1, <2>8, <3>2 DEF Copy!Copy, Copy!TryReadFrom_withSplice,
           Copy!IsBareNow, Copy!tryWriteBigHeader
      <4>2. ~(left > 0) /\ left \in Nat /\ ~headDue
        BY <1>1, <4>1 DEF ReadSoFar, CopyTypes, Copy!CanRSplice
      <4> QED
        BY <4>2
    <3> QED
      BY <2>8, <3>1, <3>2 DEF Copy!Copy
  <2>3. /\ method' = "splice" => ~replyDue /\ Copy!CanWSplice
        /\ method' = "directly" => Copy!CanWSplice
        /\ method' = "eventually" => Copy!CanSpliceEventually
    BY <1>6, <1>8, <2>1, <2>8 DEF Copy!Copy, Copy!TryReadFrom_withSplice, Copy!tryWriteBigHeader
  <2>4. ReadsBelow'
    BY <1>2, <2>1, <2>2 DEF ReadsBelow
  <2>5. WritesBelow'
    BY <1>1, <1>2, <1>5, <2>1, <2>3 DEF WritesBelow, Copy!CanWSplice, Copy!CanSpliceEventually
  <2>6. FrameOpen'
    BY <1>7, <1>8 DEF FrameOpen
  <2>7. method' \in Methods
    BY <2>1 DEF Methods
  <2> QED
    BY <1>2, <1>4, <1>7, <1>8, <1>10, <2>4, <2>5, <2>6, <2>7, NothingRead
<1>9. CASE ~UNCHANGED <<big, output, inside>>
  <2>1. Copy!tryWriteBigHeader
    BY <1>9 DEF Copy!Copy, Copy!CanSpliceWrite
  <2>2. /\ big' = TRUE /\ output' = output /\ inside' \in Nat
        /\ Total - Copy!Consumed <= inside'
    BY <1>5, <1>6, <1>10, <2>1, FrameBegins
  <2>3. /\ writer.ws = "server" /\ ~replyDue
        /\ \/ method' = "bare_writer" /\ writer.bare = "tcp" /\ writer.layer = "none"
           \/ method' = "classic" /\ writer.bare # "tcp"
           \/ /\ method' = "splice" /\ writer.bare = "tcp"
              /\ left = 0 /\ ~headDue
    <3>1. CASE Copy!Copy
      <4>1. /\ writer.layer = "none" /\ writer.ws = "server"
            /\ method' = IF writer.bare = "tcp" THEN "bare_writer" ELSE "classic"
        BY <1>9, <3>1 DEF Copy!Copy
      <4>2. ~replyDue
        BY <1>1, <4>1 DEF WritesBelow
      <4> QED
        BY <4>1, <4>2
    <3>2. CASE Copy!CanSpliceWrite
      <4>1. method = "can_splice_write" /\ method' = "splice" /\ ~replyDue
        BY <1>1, <3>2 DEF Copy!CanSpliceWrite, WritesBelow
      <4>2. Copy!CanSpliceEventually /\ left = 0 /\ ~headDue
        BY <1>1, <4>1 DEF WritesBelow, ReadsBelow
      <4> QED
        BY <4>1, <4>2 DEF Copy!CanSpliceEventually
    <3> QED
      BY <3>1, <3>2
  <2>4. ReadsBelow'
    BY <1>2, <2>3 DEF ReadsBelow
  <2>5. WritesBelow'
    BY <1>2, <2>2, <2>3 DEF WritesBelow
  <2>6. FrameOpen'
    BY <1>2, <1>5, <2>2, <2>3 DEF FrameOpen
  <2>7. method' \in Methods
    BY <2>3 DEF Methods
  <2> QED
    BY <1>2, <1>4, <1>10, <2>2, <2>4, <2>5, <2>6, <2>7, NothingRead
<1> QED
  BY <1>8, <1>9

(* The rounds through the layers.                                          *)
LEMMA CopyRounds ==
  ASSUME CopyInv, Copy!Wait \/ Copy!ClassicCopy \/ Copy!OneRound
  PROVE  CopyInv'
<1>1. /\ CopyTypes /\ ReadSoFar /\ ReadsBelow /\ WritesBelow /\ FrameOpen /\ Losing
      /\ UNCHANGED <<reader, writer, arrived, big>>
  BY DEF CopyInv, Copy!Wait, Copy!ClassicCopy, Copy!OneRound
<1>12. Len(Copy!Stream) \in Nat /\ CopyRoom \in Nat
  BY <1>1, CopyAssumption, StreamIs
<1>2. PICK n \in 1 .. Len(Copy!Stream), m \in {Len(Copy!Stream), CopyRoom}, w \in BOOLEAN :
        /\ Copy!Round(n, m, w)
        /\ m # Len(Copy!Stream) => method = "classic" /\ writer.layer = "none"
  <2>1. CASE Copy!Wait
    BY <2>1 DEF Copy!Wait, Copy!PacketRoom
  <2>2. CASE Copy!OneRound
    BY <2>2 DEF Copy!OneRound, Copy!PacketRoom
  <2>3. CASE Copy!ClassicCopy
    <3>1. PICK n \in 1 .. Len(Copy!Stream) : Copy!Round(n, Copy!ClassicRoom, FALSE)
      BY <2>3 DEF Copy!ClassicCopy
    <3>2. method = "classic"
      BY <2>3 DEF Copy!ClassicCopy
    <3>3. /\ Copy!ClassicRoom \in {Len(Copy!Stream), CopyRoom}
          /\ Copy!ClassicRoom # Len(Copy!Stream) => writer.layer = "none"
      BY DEF Copy!ClassicRoom, Copy!PacketRoom
    <3> QED
      BY <3>1, <3>2, <3>3
  <2> QED
    BY <2>1, <2>2, <2>3
<1>3. n \in Nat /\ n >= 1 /\ m \in Nat
  BY <1>2, <1>12
<1>4. \/ /\ method \in {"wait_splice", "wait_readv", "classic"} /\ method' = method
      \/ method = "directly" /\ method' = "splice"
      \/ method = "eventually" /\ method' = "can_splice_write"
  BY DEF Copy!Wait, Copy!ClassicCopy, Copy!OneRound
<1>5. /\ ~big \/ (writer.bare = "tls" /\ method = "classic")
  <2>1. writer.bare \in {"tcp", "tls"}
    BY <1>1 DEF CopyTypes, Copy!Writers
  <2> QED
    BY <1>1, <1>4, <2>1 DEF FrameOpen
<1>13. Copy!Read(n, m)
  BY <1>2 DEF Copy!Round
<1>14. /\ headDue' = FALSE
       /\ m >= Len(Copy!Stream) => lost' = lost
  BY <1>1, <1>3, <1>13, ReadsNext
<1>15. lost' => method = "classic" /\ writer.layer = "none"
  <2>1. CASE m = Len(Copy!Stream)
    <3>1. lost' = lost
      BY <1>12, <1>14, <2>1
    <3> QED
      BY <1>1, <1>4, <3>1 DEF Losing
  <2>2. CASE m # Len(Copy!Stream)
    BY <1>2, <2>2
  <2> QED
    BY <2>1, <2>2
<1>16. Losing'
  BY <1>1, <1>4, <1>14, <1>15 DEF Losing
<1>6. /\ replyDue' \in BOOLEAN /\ inside' \in Nat
      /\ ~big => inside' = 0
      /\ replyDue' => replyDue /\ Copy!Consumed' = 0
      /\ left = 0 /\ ~headDue => replyDue' = FALSE
      /\ (big /\ writer.bare = "tls") \/ lost'
           \/ output' = Reply' \o Copy!Data(Copy!Consumed')
  BY <1>1, <1>2, <1>3, <1>5, <1>15, RoundKeeps
<1>7. method' \in {"splice", "can_splice_write"} => ~replyDue'
  BY <1>1, <1>4, <1>6 DEF ReadsBelow
<1>8. WritesBelow'
  BY <1>1, <1>4, <1>6, <1>7 DEF WritesBelow, Copy!CanWSplice, Copy!CanSpliceEventually
<1>9. big => /\ writer.ws = "server" /\ ~replyDue /\ writer.bare # "tcp" /\ method' = "classic"
  BY <1>1, <1>4, <1>5 DEF FrameOpen
<1>10. FrameOpen'
  BY <1>1, <1>6, <1>9 DEF FrameOpen
<1>11. method' \in Methods
  BY <1>4 DEF Methods
<1> QED
  BY <1>1, <1>3, <1>6, <1>8, <1>10, <1>11, <1>13, <1>16, SomethingRead

(* A round that writes below the layers of the writer.                     *)
LEMMA BareRoundKeeps ==
  ASSUME CopyInv, NEW n \in Nat, n >= 1, NEW m \in Nat, Copy!Read(n, m),
         Copy!WriteBare(Copy!Piece(n, m)),
         writer.ws = "none" \/ (big /\ writer.bare = "tcp"), ~replyDue, Losing',
         UNCHANGED <<reader, writer, arrived, big, method, replyDue>>
  PROVE  CopyInv'
<1>1. /\ CopyTypes /\ ReadSoFar /\ WritesBelow /\ FrameOpen
  BY DEF CopyInv
<1>2. PICK k \in Nat : /\ lost' \/ Copy!Piece(n, m) = Slice(Copy!Consumed, k)
                       /\ Copy!Consumed' = Copy!Consumed + k
                       /\ Copy!Consumed + k <= Total
  BY <1>1, ReadsNext
<1>3. Copy!Consumed \in Nat /\ (lost => lost') /\ Copy!Piece(n, m) \in Seq(Nat)
  BY <1>1, ReadsNext
<1>4. /\ lost' \/ output' = Reply' \o Copy!Data(Copy!Consumed')
      /\ inside' \in Nat /\ (~big => inside' = 0)
      /\ big => lost' \/ Total - Copy!Consumed' <= inside'
  <2>1. CASE lost'
    <3>1. inside \in Nat /\ (~big => inside = 0)
      BY <1>1 DEF CopyTypes, FrameOpen
    <3>2. inside' \in Nat
      BY <1>3, <3>1, RestOfFrame
    <3>3. ~big => inside' = 0
      BY <3>1 DEF Copy!WriteBare
    <3> QED
      BY <2>1, <3>2, <3>3
  <2>2. CASE ~lost'
    <3>1. ~lost /\ Copy!WriteBare(Slice(Copy!Consumed, k))
      BY <1>2, <1>3, <2>2
    <3> QED
      BY <1>2, <1>3, <3>1, BareKeeps
  <2> QED
    BY <2>1, <2>2
<1>5. WritesBelow'
  BY <1>1 DEF WritesBelow, Copy!CanWSplice, Copy!CanSpliceEventually
<1>6. FrameOpen'
  BY <1>1, <1>4 DEF FrameOpen
<1>7. method' \in Methods /\ replyDue' \in BOOLEAN
  BY <1>1 DEF CopyTypes, Methods
<1> QED
  BY <1>4, <1>5, <1>6, <1>7, SomethingRead

LEMMA CopyBelow ==
  ASSUME CopyInv, Copy!CopyToBare \/ Copy!Splice
  PROVE  CopyInv'
<1>1. /\ CopyTypes /\ ReadSoFar /\ ReadsBelow /\ WritesBelow /\ FrameOpen /\ Losing
      /\ UNCHANGED <<reader, writer, arrived, big, method, replyDue>>
  BY DEF CopyInv, Copy!CopyToBare, Copy!Splice, Copy!SpliceRound
<1>2. ~replyDue /\ (writer.ws = "none" \/ (big /\ writer.bare = "tcp"))
  <2>1. method \in {"bare_writer", "splice"}
    BY DEF Copy!CopyToBare, Copy!Splice
  <2> QED
    BY <1>1, <2>1 DEF WritesBelow, FrameOpen, Copy!CanWSplice
<1>3. CASE Copy!CopyToBare
  <2>1. PICK n \in 1 .. Len(Copy!Stream) :
          Copy!Read(n, CopyRoom) /\ Copy!WriteBare(Copy!Piece(n, CopyRoom))
    BY <1>3 DEF Copy!CopyToBare
  <2>2. n \in Nat /\ n >= 1 /\ CopyRoom \in Nat
    BY CopyAssumption
  <2>3. headDue' = FALSE
    BY <1>1, <2>1, <2>2, ReadsNext
  <2>4. Losing'
    BY <1>1, <1>3, <2>3 DEF Losing, WritesBelow, Copy!CopyToBare
  <2> QED
    BY <1>1, <1>2, <2>1, <2>2, <2>4, BareRoundKeeps
<1>4. CASE Copy!Splice
  <2>1. PICK n \in 1 .. Len(Copy!Stream) : Copy!SpliceRound(n)
    BY <1>4 DEF Copy!Splice
  <2>2. n \in Nat /\ n >= 1
    OBVIOUS
  <2>3. left = 0 /\ ~headDue
    BY <1>1, <1>4 DEF Copy!Splice, ReadsBelow
  <2>4. Copy!ReadBare(n) /\ Copy!WriteBare(Copy!BarePiece(n))
    BY <2>1 DEF Copy!SpliceRound
  <2>5. Copy!Read(n, n) /\ Copy!Piece(n, n) = Copy!BarePiece(n) /\ lost' = lost
    BY <1>1, <2>2, <2>3, <2>4, ReadsNextBelow
  <2>6. Losing'
    BY <1>1, <1>4, <2>5 DEF Losing, Copy!Splice
  <2>7. Copy!WriteBare(Copy!Piece(n, n))
    BY <2>4, <2>5
  <2> QED
    BY <1>1, <1>2, <2>2, <2>5, <2>6, <2>7, BareRoundKeeps
<1> QED
  BY <1>3, <1>4

LEMMA CopyReadv ==
  ASSUME CopyInv, Copy!Readv
  PROVE  CopyInv'
<1>1. /\ CopyTypes /\ ReadSoFar /\ ReadsBelow /\ WritesBelow /\ FrameOpen /\ Losing
      /\ UNCHANGED <<reader, writer, arrived, big, method>> /\ method = "readv"
  BY DEF CopyInv, Copy!Readv
<1>2. left = 0 /\ ~headDue /\ ~big /\ ~lost
  BY <1>1 DEF ReadsBelow, FrameOpen, Losing
<1>3. PICK n \in 1 .. BufLen * BufCount :
        /\ Copy!ReadBare(n)
        /\ IF Copy!IsMultiWriter
           THEN Copy!WriteBuffers(Copy!BarePiece(n))
           ELSE Copy!WriteBare(Copy!BarePiece(n)) /\ UNCHANGED replyDue
  BY DEF Copy!Readv
<1>4. n \in Nat /\ n >= 1
  OBVIOUS
<1>5. Copy!Read(n, n) /\ Copy!Piece(n, n) = Copy!BarePiece(n) /\ ~lost'
  BY <1>1, <1>2, <1>3, <1>4, ReadsNextBelow
<1>6. PICK k \in Nat : /\ Copy!Piece(n, n) = Slice(Copy!Consumed, k)
                       /\ Copy!Consumed' = Copy!Consumed + k
  BY <1>1, <1>4, <1>5, ReadsNext
<1>7. Copy!Consumed \in Nat
  BY <1>1, ConsumedIs
<1>8. Copy!Piece(n, n) \in Seq(Nat)
  BY <1>6, <1>7, SlicesAre
<1>11. Losing'
  BY <1>5 DEF Losing
<1>9. CASE ~Copy!IsMultiWriter
  <2>1. writer.layer = "none" /\ writer.ws = "none"
    BY <1>9 DEF Copy!IsMultiWriter
  <2>2. ~replyDue
    BY <1>1, <2>1 DEF WritesBelow
  <2> QED
    BY <1>1, <1>3, <1>4, <1>5, <1>9, <1>11, <2>1, <2>2, BareRoundKeeps
<1>10. CASE Copy!IsMultiWriter
  <2>1. Copy!WriteBuffers(Copy!Piece(n, n))
    BY <1>3, <1>5, <1>10
  <2>2. replyDue \in BOOLEAN
    BY <1>1 DEF CopyTypes
  <2>3. Copy!Write(Copy!Piece(n, n))
    <3>1. CASE replyDue \/ writer.bare = "tls" \/ writer.ws = "client"
      <4>1. Copy!Write(Copy!MergeBuffers(Copy!Piece(n, n)))
        BY <2>1, <3>1 DEF Copy!WriteBuffers
      <4> QED
        BY <1>8, <4>1, MergedAre
    <3>2. CASE ~(replyDue \/ writer.bare = "tls" \/ writer.ws = "client")
      <4>1. Copy!Below(Copy!Piece(n, n)) /\ replyDue' = replyDue /\ replyDue = FALSE
        BY <2>1, <2>2, <3>2 DEF Copy!WriteBuffers
      <4>2. (IF replyDue THEN <<Copy!ReplyByte, Copy!ReplyByte>> ELSE <<>>)
              \o Copy!Piece(n, n) = Copy!Piece(n, n)
        BY <1>8, <4>1, ConcatEmptySeq
      <4> QED
        BY <4>1, <4>2 DEF Copy!Write
    <3> QED
      BY <3>1, <3>2
  <2>4. /\ output' = Reply' \o Copy!Data(Copy!Consumed')
        /\ inside' = 0 /\ replyDue' = FALSE
    BY <1>1, <1>2, <1>6, <1>7, <2>3, WriteKeeps
  <2>5. WritesBelow'
    BY <1>1, <2>4 DEF WritesBelow
  <2>6. FrameOpen'
    BY <1>1, <1>2, <2>4 DEF FrameOpen
  <2>7. method' \in Methods /\ inside' \in Nat /\ replyDue' \in BOOLEAN
    BY <1>1, <2>4 DEF Methods
  <2> QED
    BY <1>1, <1>4, <1>5, <1>11, <2>4, <2>5, <2>6, <2>7, SomethingRead
<1> QED
  BY <1>9, <1>10

LEMMA CopyStep == CopyInv /\ Copy!Next => CopyInv'
BY CopyChooses, CopyGoesDown, CopyRounds, CopyBelow, CopyReadv DEF Copy!Next

LEMMA CopyKeeps == CopyInv => Copy!StreamKept
<1> SUFFICES ASSUME CopyInv PROVE Copy!StreamKept
  OBVIOUS
<1>1. /\ replyDue => Copy!Consumed = 0
      /\ (big /\ writer.bare = "tls") \/ lost \/ output = Reply \o Copy!Data(Copy!Consumed)
      /\ replyDue \in BOOLEAN
      /\ lost => method \in {"classic", "bare_writer"} /\ writer.layer = "none"
  BY DEF CopyInv, WritesBelow, CopyTypes, Losing
<1>2. CASE replyDue
  <2>1. Reply = <<>> /\ Copy!Data(0) = <<>>
    BY <1>2 DEF Reply, Copy!Data
  <2> QED
    BY <1>1, <1>2, <2>1 DEF Copy!StreamKept
<1>3. CASE ~replyDue
  BY <1>1, <1>3 DEF Copy!StreamKept, Reply
<1> QED
  BY <1>2, <1>3

-----------------------------------------------------------------------------
(* Frames.  f[i] is the token that comes behind the first i items of what  *)
(* is delivered or in flight: tokens come in runs, the first of them is    *)
(* what remains of the frame that is read, and each of the others has the  *)
(* length that the head in front of it says.                               *)
FrameItems ==
  [kind : {"head"}, length : Nat] \cup [kind : {"token"}, value : Nat]
    \cup {Frames!Ping, Frames!Opening}

RunOf(x) == IF x.kind = "head" THEN x.length ELSE 0

Run(s, f, i, n) ==
  /\ i + n <= Len(s)
  /\ f[i + n] = f[i] + n
  /\ \A j \in 1 .. n : s[i + j] = Frames!Token(f[i] + j - 1)
  /\ i + n < Len(s) => s[i + n + 1].kind # "token"

Framed(s, f, n) ==
  /\ f \in [Nat -> Nat]
  /\ Run(s, f, 0, n)
  /\ \A i \in 1 .. Len(s) :
       s[i].kind # "token" => f[i] = f[i - 1] /\ Run(s, f, i, RunOf(s[i]))

(* Of sealed records, c[i] is in the same way the nonce of the next.       *)
Records == [kind : {"sealed"}, nonce : Nat, value : Seq(Nat)] \cup {Frames!Opening}

NonceBehind(x, z) == IF x.kind = "opening" THEN z ELSE (z + 1) % Counters

Recorded(s, f, c) ==
  /\ f \in [Nat -> Nat]
  /\ \A i \in 1 .. Len(s) :
       IF s[i].kind = "opening"
       THEN f[i] = f[i - 1] /\ c[i] = c[i - 1]
       ELSE /\ s[i].nonce = c[i - 1]
            /\ c[i] = (c[i - 1] + 1) % Counters
            /\ \E k \in Nat : /\ s[i].value = Frames!TokensFrom(f[i - 1], k)
                              /\ f[i] = f[i - 1] + k

(* s without its first n items.                                            *)
LeftOf(u, s, n) == Len(u) = Len(s) - n /\ \A i \in 1 .. Len(u) : u[i] = s[n + i]

(* The checksum, token 0, is the first of the tokens of shadowTls.         *)
ToRead(x) ==
  x = Len(handedOut) + 1 \/ (framing = "shadow" /\ Len(handedOut) = 0 /\ x = 0)
ToWrite == IF framing = "shadow" /\ firstDue THEN 0 ELSE wrote + 1 - toCut

FramesTypes ==
  /\ wrote \in Nat /\ toCut \in Nat /\ remain \in Nat /\ firstDue \in BOOLEAN
  /\ firstDue => wrote = 0 /\ toCut = 0 /\ framing \in Frames!Opened
  /\ toCut <= wrote + 1
  /\ handedOut \in Seq(Nat)
  /\ handedOut = Frames!TokensFrom(1, Len(handedOut))

(* Whatever is written, up to the token y (and the nonce z).               *)
Carries(q, y) ==
  /\ q \in Seq(FrameItems)
  /\ \E f : /\ Framed(delivered \o q, f, remain)
            /\ ToRead(f[0]) /\ f[Len(delivered \o q)] = y

CarriesRecords(q, y, z) ==
  /\ q \in Seq(Records)
  /\ \E f, c : /\ Recorded(delivered \o q, f, c)
               /\ f[0] = Len(handedOut) + Len(leftover) + 1 /\ f[Len(delivered \o q)] = y
               /\ c[0] = openCount /\ c[Len(delivered \o q)] = z

FramesRead ==
  /\ delivered \in Seq(FrameItems)
  /\ leftover = <<>>
  /\ Carries(inFlight, ToWrite)

RecordsRead ==
  /\ delivered \in Seq(Records)
  /\ remain = 0 /\ toCut = 0 /\ sealCount \in Nat
  /\ leftover \in Seq(Nat)
  /\ leftover = Frames!TokensFrom(Len(handedOut) + 1, Len(leftover))
  /\ CarriesRecords(inFlight, wrote + 1, sealCount)

FramesInv ==
  merged \/ /\ FramesTypes
            /\ IF framing \in Frames!Sealing THEN RecordsRead ELSE FramesRead

LEMMA LeastIs ==
  ASSUME NEW a \in Nat, NEW b \in Nat
  PROVE  /\ Frames!Least(a, b) \in Nat /\ Frames!Least(a, b) <= a /\ Frames!Least(a, b) <= b
BY DEF Frames!Least

LEMMA RangesAre ==
  ASSUME NEW t \in Nat, NEW n \in Nat
  PROVE  /\ Frames!TokensFrom(t, n) \in Seq(Nat) /\ Len(Frames!TokensFrom(t, n)) = n
         /\ \A i \in 1 .. n : Frames!TokensFrom(t, n)[i] = t + i - 1
<1>1. \A i \in 1 .. n : t + i - 1 \in Nat
  OBVIOUS
<1>2. Frames!TokensFrom(t, n) \in [1 .. n -> Nat]
  BY <1>1 DEF Frames!TokensFrom
<1>3. Frames!TokensFrom(t, n) \in Seq(Nat)
  BY <1>2
<1>4. Len(Frames!TokensFrom(t, n)) = n
  BY <1>2, <1>3, LenProperties
<1> QED
  BY <1>3, <1>4 DEF Frames!TokensFrom

(* A sequence that counts like a range is one.                             *)
LEMMA IsRange ==
  ASSUME NEW p \in Seq(Nat), NEW t \in Nat, NEW n \in Nat, Len(p) = n,
         \A i \in 1 .. n : p[i] = t + i - 1
  PROVE  p = Frames!TokensFrom(t, n)
BY RangesAre, SeqEqual

LEMMA RangesJoin ==
  ASSUME NEW t \in Nat, NEW n \in Nat, NEW k \in Nat
  PROVE  Frames!TokensFrom(t, n) \o Frames!TokensFrom(t + n, k) = Frames!TokensFrom(t, n + k)
<1> DEFINE a == Frames!TokensFrom(t, n)
           b == Frames!TokensFrom(t + n, k)
<1>1. t + n \in Nat /\ n + k \in Nat
  OBVIOUS
<1>2. /\ a \in Seq(Nat) /\ b \in Seq(Nat) /\ Len(a) = n /\ Len(b) = k
      /\ \A i \in 1 .. n : a[i] = t + i - 1
      /\ \A i \in 1 .. k : b[i] = (t + n) + i - 1
  BY <1>1, RangesAre
<1> HIDE DEF a, b
<1>3. /\ a \o b \in Seq(Nat) /\ Len(a \o b) = n + k
      /\ \A i \in 1 .. n + k : (a \o b)[i] = IF i <= n THEN a[i] ELSE b[i - n]
  BY <1>2, ConcatProperties
<1>4. ASSUME NEW i \in 1 .. n + k PROVE (a \o b)[i] = t + i - 1
  <2>1. CASE i <= n
    <3>1. i \in 1 .. n
      BY <2>1
    <3> QED
      BY <1>2, <1>3, <2>1, <3>1
  <2>2. CASE ~(i <= n)
    <3>1. i - n \in 1 .. k /\ (t + n) + (i - n) - 1 = t + i - 1
      BY <2>2
    <3> QED
      BY <1>2, <1>3, <2>2, <3>1
  <2> QED
    BY <2>1, <2>2
<1>5. a \o b = Frames!TokensFrom(t, n + k)
  BY <1>1, <1>3, <1>4, IsRange
<1> QED
  BY <1>5 DEF a, b

LEMMA RangeCut ==
  ASSUME NEW t \in Nat, NEW n \in Nat, NEW b \in 0 .. n, NEW a \in 0 .. b
  PROVE  SubSeq(Frames!TokensFrom(t, n), a + 1, b) = Frames!TokensFrom(t + a, b - a)
<1> DEFINE p == Frames!TokensFrom(t, n)
           q == SubSeq(p, a + 1, b)
<1>1. \A i \in 1 .. n : p[i] = t + i - 1
  BY RangesAre
<1> HIDE DEF p
<1>2. \A i \in (a + 1) .. b : p[i] \in Nat
  <2> SUFFICES ASSUME NEW i \in (a + 1) .. b PROVE p[i] \in Nat
    OBVIOUS
  <2>1. i \in 1 .. n /\ t + i - 1 \in Nat
    OBVIOUS
  <2> QED
    BY <1>1, <2>1
<1>3. /\ q \in Seq(Nat) /\ Len(q) = IF a + 1 <= b THEN b - (a + 1) + 1 ELSE 0
      /\ \A i \in 1 .. b - (a + 1) + 1 : q[i] = p[(a + 1) + i - 1]
  BY <1>2, SubSeqProperties
<1> HIDE DEF q
<1>4. t + a \in Nat /\ b - a \in Nat /\ b - (a + 1) + 1 = b - a
  OBVIOUS
<1>5. Len(q) = b - a
  BY <1>3, <1>4
<1>6. ASSUME NEW i \in 1 .. b - a PROVE q[i] = (t + a) + i - 1
  <2>1. (a + 1) + i - 1 \in 1 .. n /\ t + ((a + 1) + i - 1) - 1 = (t + a) + i - 1
    OBVIOUS
  <2> QED
    BY <1>1, <1>3, <1>4, <2>1
<1>7. q = Frames!TokensFrom(t + a, b - a)
  BY <1>3, <1>4, <1>5, <1>6, IsRange
<1> QED
  BY <1>7 DEF q, p

LEMMA RangeTail ==
  ASSUME NEW n \in Nat, n # 0
  PROVE  Tail(Frames!TokensFrom(0, n)) = Frames!TokensFrom(1, n - 1)
<1> DEFINE p == Frames!TokensFrom(0, n)
<1>1. p \in Seq(Nat) /\ Len(p) = n /\ \A i \in 1 .. n : p[i] = 0 + i - 1
  BY RangesAre
<1> HIDE DEF p
<1>2. p # <<>>
  BY <1>1, EmptySeq
<1>3. /\ Tail(p) \in Seq(Nat) /\ Len(Tail(p)) = n - 1
      /\ \A i \in 1 .. Len(Tail(p)) : Tail(p)[i] = p[i + 1]
  BY <1>1, <1>2, HeadTailProperties
<1>4. n - 1 \in Nat /\ \A i \in 1 .. n - 1 : i + 1 \in 1 .. n /\ 0 + (i + 1) - 1 = 1 + i - 1
  OBVIOUS
<1>5. \A i \in 1 .. n - 1 : Tail(p)[i] = 1 + i - 1
  BY <1>1, <1>3, <1>4
<1>6. Tail(p) = Frames!TokensFrom(1, n - 1)
  BY <1>3, <1>4, <1>5, IsRange
<1> QED
  BY <1>6 DEF p

(* The data that is handed out.                                            *)
LEMMA HandsOut ==
  ASSUME handedOut \in Seq(Nat), NEW h \in Nat, Len(handedOut) = h,
         handedOut = Frames!TokensFrom(1, h),
         NEW x \in Nat, NEW n \in Nat, x = h + 1 \/ (h = 0 /\ x = 0),
         Frames!HandOut(Frames!TokensFrom(x, n))
  PROVE  /\ handedOut' \in Seq(Nat)
         /\ handedOut' = Frames!TokensFrom(1, Len(handedOut'))
         /\ x + n = Len(handedOut') + 1 \/ (Len(handedOut') = 0 /\ x + n = 0 /\ x = 0 /\ h = 0)
         /\ x = h + 1 => Len(handedOut') = h + n
<1> DEFINE p == Frames!TokensFrom(x, n)
<1>1. p \in Seq(Nat) /\ Len(p) = n /\ \A i \in 1 .. n : p[i] = x + i - 1
  BY RangesAre
<1> HIDE DEF p
<1>2. handedOut' = handedOut \o Frames!Unsummed(p)
  BY DEF Frames!HandOut, p
<1>3. CASE x = h + 1
  <2>1. Frames!Unsummed(p) = p
    <3>1. CASE p = <<>>
      BY <3>1 DEF Frames!Unsummed
    <3>2. CASE p # <<>>
      <4>1. 1 \in 1 .. n
        BY <1>1, <3>2, EmptySeq
      <4>2. p[1] # 0
        BY <1>1, <1>3, <4>1
      <4> QED
        BY <4>2 DEF Frames!Unsummed
    <3> QED
      BY <3>1, <3>2
  <2>2. handedOut' = Frames!TokensFrom(1, h) \o Frames!TokensFrom(1 + h, n)
    BY <1>2, <1>3, <2>1 DEF p
  <2>3. 1 \in Nat /\ h + n \in Nat
    OBVIOUS
  <2>4. Frames!TokensFrom(1, h) \o Frames!TokensFrom(1 + h, n) = Frames!TokensFrom(1, h + n)
    BY ONLY <2>3, h \in Nat, n \in Nat, RangesJoin
  <2>5. handedOut' = Frames!TokensFrom(1, h + n)
    BY <2>2, <2>4
  <2>6. handedOut' \in Seq(Nat) /\ Len(handedOut') = h + n
    BY <2>3, <2>5, RangesAre
  <2> QED
    BY <1>3, <2>5, <2>6
<1>4. CASE h = 0 /\ x = 0 /\ n = 0
  <2>1. p = <<>>
    BY <1>1, <1>4, EmptySeq
  <2>2. Frames!Unsummed(p) = <<>>
    BY <2>1 DEF Frames!Unsummed
  <2>3. handedOut' = handedOut
    BY <1>2, <2>2, ConcatEmptySeq
  <2> QED
    BY <1>4, <2>3
<1>5. CASE h = 0 /\ x = 0 /\ n # 0
  <2>1. p # <<>> /\ p[1] = 0
    <3>1. 1 \in 1 .. n
      BY <1>5
    <3>2. p[1] = 0
      BY <1>1, <1>5, <3>1
    <3>3. p # <<>>
      BY <1>1, <1>5, EmptySeq
    <3> QED
      BY <3>2, <3>3
  <2>2. Frames!Unsummed(p) = Tail(p)
    BY <2>1 DEF Frames!Unsummed
  <2>4. n - 1 \in Nat
    BY <1>5
  <2>6. Tail(p) = Frames!TokensFrom(1, n - 1)
    BY <1>5, RangeTail DEF p
  <2>7. Frames!TokensFrom(1, n - 1) \in Seq(Nat) /\ Len(Frames!TokensFrom(1, n - 1)) = n - 1
    BY <2>4, RangesAre
  <2>8. handedOut = <<>>
    BY <1>5, EmptySeq
  <2>9. handedOut' = Frames!TokensFrom(1, n - 1)
    BY <1>2, <2>2, <2>6, <2>7, <2>8, ConcatEmptySeq
  <2> QED
    BY <1>5, <2>4, <2>7, <2>9
<1> QED
  BY <1>3, <1>4, <1>5

-----------------------------------------------------------------------------
LEMMA ItemsAre ==
  /\ \A t \in Nat : /\ Frames!Token(t) \in FrameItems /\ Frames!Token(t).kind = "token"
                    /\ Frames!Token(t).value = t
  /\ \A n \in Nat : /\ Frames!HeadOf(n) \in FrameItems /\ Frames!HeadOf(n).kind = "head"
                    /\ RunOf(Frames!HeadOf(n)) = n
  /\ \A x \in {Frames!Ping, Frames!Opening} :
       x \in FrameItems /\ x.kind \in {"ping", "opening"} /\ RunOf(x) = 0
  /\ \A x \in FrameItems :
       /\ x.kind \in {"head", "token", "ping", "opening"} /\ RunOf(x) \in Nat
       /\ x.kind = "head" => x.length = RunOf(x)
BY DEF FrameItems, RunOf, Frames!Token, Frames!HeadOf, Frames!Ping, Frames!Opening

LEMMA TokensAreTokens == \A t : Frames!Token(t).kind = "token"
BY DEF Frames!Token

(* What a write puts behind it: a head and its run.                        *)
LEMMA FramedBehind ==
  ASSUME NEW s \in Seq(FrameItems), NEW f, NEW r \in Nat, Framed(s, f, r),
         NEW t \in Seq(FrameItems), NEW n \in Nat, Len(t) = n + 1,
         t[1].kind # "token", RunOf(t[1]) = n,
         \A j \in 1 .. n : t[j + 1] = Frames!Token(f[Len(s)] + j - 1)
  PROVE  \E g : /\ Framed(s \o t, g, r)
                /\ g[0] = f[0] /\ g[Len(s \o t)] = f[Len(s)] + n
<1> DEFINE l == Len(s)
           u == s \o t
           g == [k \in Nat |-> IF k <= l THEN f[k] ELSE f[l] + (k - l - 1)]
<1>0. l \in Nat
  BY LenProperties
<1>1. f \in [Nat -> Nat] /\ f[l] \in Nat
  BY <1>0 DEF Framed
<1>2. /\ Len(u) = l + (n + 1)
      /\ \A i \in 1 .. l + (n + 1) : u[i] = IF i <= l THEN s[i] ELSE t[i - l]
  <2>1. /\ Len(u) = Len(s) + Len(t)
        /\ \A i \in 1 .. Len(s) + Len(t) : u[i] = IF i <= Len(s) THEN s[i] ELSE t[i - Len(s)]
    BY ConcatProperties
  <2> QED
    BY <2>1
<1>3. g \in [Nat -> Nat]
  <2> SUFFICES ASSUME NEW k \in Nat
               PROVE  (IF k <= l THEN f[k] ELSE f[l] + (k - l - 1)) \in Nat
    OBVIOUS
  <2>1. CASE k <= l
    BY <1>1, <2>1
  <2>2. CASE ~(k <= l)
    <3>1. k - l - 1 \in Nat
      BY <1>0, <2>2
    <3>2. f[l] + (k - l - 1) \in Nat
      <4>1. ASSUME NEW a \in Nat, NEW b \in Nat PROVE a + b \in Nat
        OBVIOUS
      <4> QED
        BY <1>1, <3>1, <4>1
    <3> QED
      BY <2>2, <3>2
  <2> QED
    BY <2>1, <2>2
<1>4. /\ \A k \in 0 .. l : g[k] = f[k]
      /\ \A k \in 0 .. n : g[l + 1 + k] = f[l] + k
  BY <1>0, <1>1
<1>5. /\ Run(s, f, 0, r)
      /\ \A i \in 1 .. l : s[i].kind # "token" => f[i] = f[i - 1] /\ Run(s, f, i, RunOf(s[i]))
  BY DEF Framed
<1> HIDE DEF l, u, g
<1>6. /\ \A i \in 1 .. l : u[i] = s[i]
      /\ \A k \in 1 .. n + 1 : u[l + k] = t[k]
  <2>1. \A i \in 1 .. l : i \in 1 .. l + (n + 1) /\ i <= l
    BY <1>0
  <2>2. \A k \in 1 .. n + 1 : l + k \in 1 .. l + (n + 1) /\ ~(l + k <= l) /\ (l + k) - l = k
    BY <1>0
  <2> QED
    BY ONLY <1>2, <2>1, <2>2
<1>7. ASSUME NEW i \in 0 .. l, NEW k \in Nat, Run(s, f, i, k)
      PROVE  Run(u, g, i, k)
  <2>1. /\ i + k <= l /\ f[i + k] = f[i] + k
        /\ \A j \in 1 .. k : s[i + j] = Frames!Token(f[i] + j - 1)
        /\ i + k < l => s[i + k + 1].kind # "token"
    BY <1>7 DEF Run, l
  <2>2. i + k <= Len(u) /\ g[i + k] = g[i] + k /\ g[i] = f[i]
    <3>1. i + k \in 0 .. l /\ i + k <= l + (n + 1)
      BY <1>0, <2>1
    <3> QED
      BY <1>2, <1>4, <2>1, <3>1
  <2>3. ASSUME NEW j \in 1 .. k PROVE u[i + j] = Frames!Token(g[i] + j - 1)
    <3>1. i + j \in 1 .. l
      BY <1>0, <2>1
    <3> QED
      BY <1>6, <2>1, <2>2, <3>1
  <2>4. ASSUME i + k < Len(u) PROVE u[i + k + 1].kind # "token"
    <3>1. CASE i + k < l
      <4>1. i + k + 1 \in 1 .. l
        BY <1>0, <3>1
      <4> QED
        BY <1>6, <2>1, <3>1, <4>1
    <3>2. CASE i + k = l
      <4>1. 1 \in 1 .. n + 1 /\ u[i + k + 1] = u[l + 1]
        BY <3>2
      <4> QED
        BY <1>6, <4>1
    <3> QED
      BY <1>0, <2>1, <3>1, <3>2
  <2> QED
    BY <2>2, <2>3, <2>4 DEF Run
<1>8. Run(u, g, 0, r)
  <2>1. 0 \in 0 .. l
    BY <1>0
  <2> QED
    BY <1>5, <1>7, <2>1
<1>9. ASSUME NEW i \in 1 .. Len(u), u[i].kind # "token"
      PROVE  g[i] = g[i - 1] /\ Run(u, g, i, RunOf(u[i]))
  <2>1. CASE i <= l
    <3>1. i \in 1 .. l /\ i \in 0 .. l /\ i - 1 \in 0 .. l
      BY <1>0, <2>1
    <3>2. u[i] = s[i] /\ s[i] \in FrameItems
      BY <1>6, <3>1, ElementOfSeq DEF l
    <3>3. RunOf(s[i]) \in Nat
      BY <3>2, ItemsAre
    <3>4. Run(u, g, i, RunOf(s[i])) /\ f[i] = f[i - 1]
      BY <1>5, <1>7, <1>9, <3>1, <3>2, <3>3
    <3> QED
      BY <1>4, <3>1, <3>2, <3>4
  <2>2. CASE i = l + 1
    <3>1. 1 \in 1 .. n + 1 /\ 0 \in 0 .. n /\ n \in 0 .. n /\ l \in 0 .. l /\ i - 1 = l
      BY <1>0, <2>2
    <3>2. u[i] = t[1] /\ RunOf(u[i]) = n
      BY <1>6, <2>2, <3>1
    <3>3. g[i] = f[l] + 0 /\ g[i - 1] = f[l] /\ g[i + n] = f[l] + n
      BY <1>4, <2>2, <3>1
    <3>4. i + n = Len(u)
      BY <1>0, <1>2, <2>2
    <3>5. ASSUME NEW j \in 1 .. n PROVE u[i + j] = Frames!Token(g[i] + j - 1)
      <4>1. j + 1 \in 1 .. n + 1 /\ i + j = l + (j + 1)
        BY <1>0, <2>2
      <4>2. u[i + j] = t[j + 1]
        BY <1>6, <4>1
      <4>3. g[i] = f[Len(s)]
        BY <1>1, <3>3 DEF l
      <4> QED
        BY <4>2, <4>3
    <3>6. g[i] = f[l]
      <4>1. ASSUME NEW a \in Nat PROVE a + 0 = a
        OBVIOUS
      <4> QED
        BY <1>1, <3>3, <4>1
    <3>7. i + n <= Len(u) /\ ~(i + n < Len(u)) /\ g[i + n] = g[i] + n
      BY <1>0, <3>3, <3>4, <3>6
    <3>8. Run(u, g, i, n)
      BY <3>5, <3>7 DEF Run
    <3> QED
      BY <3>2, <3>3, <3>6, <3>8
  <2>3. CASE i > l + 1
    <3>1. i - l \in 2 .. n + 1 /\ i = l + (i - l) /\ i - l - 1 \in 1 .. n
          /\ (i - l - 1) + 1 = i - l
      BY <1>0, <1>2, <2>3
    <3>2. u[i] = t[i - l]
      BY <1>6, <3>1
    <3>3. t[(i - l - 1) + 1] = Frames!Token(f[l] + (i - l - 1) - 1)
      BY <3>1 DEF l
    <3>4. f[l] + (i - l - 1) - 1 \in Nat
      <4>1. ASSUME NEW a \in Nat, NEW b \in 1 .. n PROVE a + b - 1 \in Nat
        OBVIOUS
      <4> QED
        BY <1>1, <3>1, <4>1
    <3>5. u[i].kind = "token"
      <4>1. u[i] = Frames!Token(f[l] + (i - l - 1) - 1)
        BY <3>1, <3>2, <3>3
      <4> QED
        BY <3>4, <4>1, TokensAreTokens
    <3> QED
      BY <1>9, <3>5
  <2> QED
    BY <1>0, <2>1, <2>2, <2>3
<1>10. Framed(u, g, r)
  BY <1>3, <1>8, <1>9 DEF Framed
<1>11. g[0] = f[0] /\ g[Len(u)] = f[l] + n
  <2>1. 0 \in 0 .. l /\ n \in 0 .. n /\ Len(u) = l + 1 + n
    BY <1>0, <1>2
  <2> QED
    BY <1>4, <2>1
<1> QED
  BY <1>10, <1>11 DEF u, l

(* What is left of a run when n of its tokens are read.                    *)
LEMMA RunIs ==
  ASSUME NEW s \in Seq(FrameItems), NEW f, NEW r \in Nat, Framed(s, f, r)
  PROVE  \A j \in 1 .. r : s[j] = Frames!Token(f[0] + j - 1)
<1>1. \A j \in 1 .. r : s[0 + j] = Frames!Token(f[0] + j - 1)
  BY DEF Framed, Run
<1>2. \A j \in 1 .. r : 0 + j = j
  OBVIOUS
<1> QED
  BY <1>1, <1>2

LEMMA RunRead ==
  ASSUME NEW s \in Seq(FrameItems), NEW f, NEW r \in Nat, Framed(s, f, r),
         NEW n \in Nat, n <= r,
         NEW u \in Seq(FrameItems), LeftOf(u, s, n)
  PROVE  \E g : /\ Framed(u, g, r - n)
                /\ g[0] = f[0] + n /\ g[Len(u)] = f[Len(s)]
<1> DEFINE l == Len(s)
           x == f[0] + n
           g == [k \in Nat |-> IF k = 0 THEN x ELSE f[k + n]]
<1>0. l \in Nat
  BY LenProperties
<1>1. /\ f \in [Nat -> Nat] /\ Run(s, f, 0, r)
      /\ \A i \in 1 .. l : s[i].kind # "token" => f[i] = f[i - 1] /\ Run(s, f, i, RunOf(s[i]))
  BY DEF Framed
<1>2. f[0] \in Nat /\ x \in Nat
  <2>1. f[0] \in Nat
    BY <1>1
  <2> QED
    BY <2>1
<1> HIDE DEF x
<1>3. g \in [Nat -> Nat] /\ g[0] = x /\ \A k \in Nat \ {0} : g[k] = f[k + n]
  <2>1. \A k \in Nat : k + n \in Nat
    OBVIOUS
  <2> QED
    BY <1>1, <1>2, <2>1
<1> HIDE DEF g, l
<1>4. /\ r <= l /\ f[r] = f[0] + r
      /\ \A j \in 1 .. r : s[j] = Frames!Token(f[0] + j - 1)
      /\ r < l => s[r + 1].kind # "token"
  <2>1. /\ 0 + r <= l /\ f[0 + r] = f[0] + r
        /\ \A j \in 1 .. r : s[0 + j] = Frames!Token(f[0] + j - 1)
        /\ 0 + r < l => s[0 + r + 1].kind # "token"
    BY <1>1 DEF Run, l
  <2>2. 0 + r = r /\ \A j \in 1 .. r : 0 + j = j
    OBVIOUS
  <2> QED
    BY <2>1, <2>2
<1>51. Len(u) = l - n /\ \A i \in 1 .. Len(u) : u[i] = s[n + i]
  BY DEF LeftOf, l
<1>5. Len(u) = l - n /\ l - n \in Nat /\ r <= l
  BY <1>0, <1>4, <1>51
<1>52. f[r] = x + (r - n)
  BY <1>2, <1>4 DEF x
(* Behind the run, g is f further on. *)
<1>6. \A k \in (r - n) .. (l - n) : g[k] = f[k + n]
  <2> SUFFICES ASSUME NEW k \in (r - n) .. (l - n) PROVE g[k] = f[k + n]
    OBVIOUS
  <2>1. k \in Nat
    BY <1>0
  <2>2. CASE k = 0
    <3>1. r = n /\ k + n = r
      BY <1>0, <1>5, <2>2
    <3>2. f[r] = x
      BY <1>2, <1>52, <3>1
    <3> QED
      BY <1>3, <2>2, <3>1, <3>2
  <2> QED
    BY <1>3, <2>1, <2>2
<1>7. Run(u, g, 0, r - n)
  <2>1. r - n \in (r - n) .. (l - n) /\ (r - n) + n = r /\ 0 + (r - n) = r - n
        /\ r - n \in Nat /\ r - n <= l - n
    BY <1>0, <1>5
  <2>2. g[r - n] = g[0] + (r - n)
    BY <1>3, <1>52, <1>6, <2>1
  <2>3. ASSUME NEW j \in 1 .. r - n PROVE u[0 + j] = Frames!Token(g[0] + j - 1)
    <3>1. j \in 1 .. Len(u) /\ n + j \in 1 .. r /\ 0 + j = j
      BY <1>0, <1>5, <2>1
    <3>2. g[0] + j - 1 = f[0] + (n + j) - 1
      <4>1. (f[0] + n) + j - 1 = f[0] + (n + j) - 1
        BY <1>2
      <4> QED
        BY <1>3, <4>1 DEF x
    <3> QED
      BY <1>4, <1>51, <3>1, <3>2
  <2>4. ASSUME r - n < Len(u) PROVE u[r - n + 1].kind # "token"
    <3>1. r - n + 1 \in 1 .. Len(u) /\ n + (r - n + 1) = r + 1 /\ r < l
      BY <1>0, <1>5, <2>1, <2>4
    <3> QED
      BY <1>4, <1>51, <3>1
  <2> QED
    BY <1>5, <2>1, <2>2, <2>3, <2>4 DEF Run
<1>8. ASSUME NEW i \in 1 .. Len(u), u[i].kind # "token"
      PROVE  g[i] = g[i - 1] /\ Run(u, g, i, RunOf(u[i]))
  <2>1. n + i \in 1 .. l /\ u[i] = s[n + i] /\ i \in Nat \ {0}
    BY <1>0, <1>5, <1>51
  <2>2. n + i > r
    <3>1. CASE n + i <= r
      <4>1. n + i \in 1 .. r /\ f[0] + (n + i) - 1 \in Nat
        BY <1>2, <2>1, <3>1
      <4>3. s[n + i] = Frames!Token(f[0] + (n + i) - 1)
        BY <1>4, <4>1
      <4>2. s[n + i].kind = "token"
        BY <4>1, <4>3, TokensAreTokens
      <4> QED
        BY <1>8, <2>1, <4>2
    <3> QED
      BY <1>0, <2>1, <3>1
  <2>3. /\ i - 1 \in (r - n) .. (l - n) /\ i \in (r - n) .. (l - n)
        /\ (i - 1) + n = (n + i) - 1 /\ i + n = n + i
    <3>1. n + i <= l /\ i >= 1
      BY <1>0, <2>1
    <3> QED
      BY <1>0, <2>1, <2>2, <3>1
  <2>4. f[n + i] = f[(n + i) - 1] /\ Run(s, f, n + i, RunOf(s[n + i]))
    BY <1>1, <1>8, <2>1
  <2>5. g[i] = f[n + i] /\ g[i - 1] = f[(n + i) - 1]
    BY <1>6, <2>3
  <2> DEFINE m == RunOf(s[n + i])
  <2>6. m \in Nat
    <3>1. s[n + i] \in FrameItems
      BY <2>1, ElementOfSeq DEF l
    <3> QED
      BY <3>1, ItemsAre
  <2>7. /\ (n + i) + m <= l /\ f[(n + i) + m] = f[n + i] + m
        /\ \A j \in 1 .. m : s[(n + i) + j] = Frames!Token(f[n + i] + j - 1)
        /\ (n + i) + m < l => s[(n + i) + m + 1].kind # "token"
    BY <2>4 DEF Run, l
  <2> HIDE DEF m
  <2>8. i + m \in (r - n) .. (l - n) /\ (i + m) + n = (n + i) + m /\ i + m <= Len(u)
    <3>1. (n + i) + m <= l /\ n + i > r /\ i \in Nat
      BY <2>1, <2>2, <2>7
    <3> QED
      BY <1>0, <1>5, <2>6, <3>1
  <2>9. g[i + m] = g[i] + m
    BY <1>6, <2>5, <2>7, <2>8
  <2>10. ASSUME NEW j \in 1 .. m PROVE u[i + j] = Frames!Token(g[i] + j - 1)
    <3>1. i + j \in 1 .. Len(u) /\ n + (i + j) = (n + i) + j
      BY <1>0, <1>5, <2>6, <2>8
    <3> QED
      BY <1>51, <2>5, <2>7, <3>1
  <2>11. ASSUME i + m < Len(u) PROVE u[i + m + 1].kind # "token"
    <3>1. i + m + 1 \in 1 .. Len(u) /\ n + (i + m + 1) = (n + i) + m + 1 /\ (n + i) + m < l
      BY <1>0, <1>5, <2>6, <2>11
    <3> QED
      BY <1>51, <2>7, <3>1
  <2>12. Run(u, g, i, m)
    BY <2>8, <2>9, <2>10, <2>11 DEF Run
  <2> QED
    BY <2>1, <2>4, <2>5, <2>12 DEF m
<1>9. g[Len(u)] = f[l]
  <2>1. Len(u) \in (r - n) .. (l - n) /\ Len(u) + n = l
    BY <1>0, <1>5
  <2> QED
    BY <1>6, <2>1
<1>10. Framed(u, g, r - n)
  BY <1>3, <1>7, <1>8 DEF Framed
<1> QED
  BY <1>3, <1>9, <1>10 DEF x, l

(* The first item, when no run is left, begins the next.                   *)
LEMMA HeadRead ==
  ASSUME NEW s \in Seq(FrameItems), NEW f, Framed(s, f, 0), s # <<>>,
         NEW u \in Seq(FrameItems), LeftOf(u, s, 1)
  PROVE  /\ s[1].kind # "token"
         /\ \E g : /\ Framed(u, g, RunOf(s[1]))
                   /\ g[0] = f[0] /\ g[Len(u)] = f[Len(s)]
<1> DEFINE l == Len(s)
           g == [k \in Nat |-> f[k + 1]]
<1>0. l \in Nat \ {0}
  BY EmptySeq
<1>1. /\ f \in [Nat -> Nat] /\ Run(s, f, 0, 0)
      /\ \A i \in 1 .. l : s[i].kind # "token" => f[i] = f[i - 1] /\ Run(s, f, i, RunOf(s[i]))
  BY DEF Framed
<1>2. g \in [Nat -> Nat] /\ \A k \in Nat : g[k] = f[k + 1]
  <2>1. \A k \in Nat : k + 1 \in Nat
    OBVIOUS
  <2> QED
    BY <1>1, <2>1
<1> HIDE DEF g, l
<1>3. s[1].kind # "token"
  <2>1. 0 + 0 < l => s[0 + 0 + 1].kind # "token"
    BY <1>1 DEF Run, l
  <2>2. 0 + 0 < l /\ 0 + 0 + 1 = 1
    BY <1>0
  <2> QED
    BY <2>1, <2>2
<1>41. Len(u) = l - 1 /\ \A i \in 1 .. Len(u) : u[i] = s[1 + i]
  BY DEF LeftOf, l
<1>4. Len(u) = l - 1
  BY <1>41
<1>5. ASSUME NEW i \in 0 .. Len(u), s[i + 1].kind # "token"
      PROVE  /\ f[i + 1] = f[(i + 1) - 1]
             /\ Run(u, g, i, RunOf(s[i + 1]))
  <2> DEFINE m == RunOf(s[i + 1])
  <2>0. i + 1 \in 1 .. l /\ i \in Nat
    BY <1>0, <1>4
  <2>1. i + 1 \in 1 .. l /\ g[i] = f[i + 1]
    BY <1>2, <2>0
  <2>2. m \in Nat
    <3>1. s[i + 1] \in FrameItems
      BY <2>1, ElementOfSeq DEF l
    <3> QED
      BY <3>1, ItemsAre
  <2>3. f[i + 1] = f[(i + 1) - 1] /\ Run(s, f, i + 1, m)
    BY <1>1, <1>5, <2>1
  <2> HIDE DEF m
  <2>4. /\ (i + 1) + m <= l /\ f[(i + 1) + m] = f[i + 1] + m
        /\ \A j \in 1 .. m : s[(i + 1) + j] = Frames!Token(f[i + 1] + j - 1)
        /\ (i + 1) + m < l => s[(i + 1) + m + 1].kind # "token"
    BY <2>3 DEF Run, l
  <2>5. i + m \in Nat /\ (i + m) + 1 = (i + 1) + m /\ i + m <= Len(u)
    BY <1>0, <1>4, <2>0, <2>2, <2>4
  <2>6. g[i + m] = g[i] + m
    BY <1>2, <2>1, <2>4, <2>5
  <2>7. ASSUME NEW j \in 1 .. m PROVE u[i + j] = Frames!Token(g[i] + j - 1)
    <3>1. i + j \in 1 .. Len(u) /\ 1 + (i + j) = (i + 1) + j
      BY <1>0, <1>4, <2>0, <2>2, <2>5
    <3> QED
      BY <1>41, <2>1, <2>4, <3>1
  <2>8. ASSUME i + m < Len(u) PROVE u[i + m + 1].kind # "token"
    <3>1. i + m + 1 \in 1 .. Len(u) /\ 1 + (i + m + 1) = (i + 1) + m + 1 /\ (i + 1) + m < l
      BY <1>0, <1>4, <2>0, <2>2, <2>8
    <3> QED
      BY <1>41, <2>4, <3>1
  <2>9. Run(u, g, i, m)
    BY <2>5, <2>6, <2>7, <2>8 DEF Run
  <2> QED
    BY <2>3, <2>9 DEF m
<1>6. f[1] = f[0] /\ Run(u, g, 0, RunOf(s[1]))
  <2>1. 0 \in 0 .. Len(u) /\ 0 + 1 = 1 /\ 1 - 1 = 0
    BY <1>0, <1>4
  <2> QED
    BY <1>3, <1>5, <2>1
<1>7. ASSUME NEW i \in 1 .. Len(u), u[i].kind # "token"
      PROVE  g[i] = g[i - 1] /\ Run(u, g, i, RunOf(u[i]))
  <2>1. /\ i \in 0 .. Len(u) /\ u[i] = s[i + 1]
        /\ i \in Nat /\ i - 1 \in Nat /\ (i - 1) + 1 = (i + 1) - 1
    <3>1. /\ i \in 0 .. Len(u) /\ 1 + i = i + 1
          /\ i \in Nat /\ i - 1 \in Nat /\ (i - 1) + 1 = (i + 1) - 1
      BY <1>0, <1>4
    <3> QED
      BY <1>41, <3>1
  <2>2. f[i + 1] = f[(i + 1) - 1] /\ Run(u, g, i, RunOf(s[i + 1]))
    BY <1>5, <1>7, <2>1
  <2> QED
    BY <1>2, <2>1, <2>2
<1>8. Framed(u, g, RunOf(s[1]))
  BY <1>2, <1>6, <1>7 DEF Framed
<1>9. g[0] = f[0] /\ g[Len(u)] = f[l]
  <2>1. 0 \in Nat /\ 0 + 1 = 1 /\ Len(u) \in Nat /\ Len(u) + 1 = l
    BY <1>0, <1>4
  <2> QED
    BY <1>2, <1>6, <2>1
<1> QED
  BY <1>3, <1>8, <1>9 DEF l

-----------------------------------------------------------------------------
(* Sealed records, and what opens a stream.                                *)
LEMMA SealedAre ==
  /\ Frames!Opening \in Records /\ Frames!Opening.kind = "opening"
  /\ \A x \in Records : x.kind # "opening" => x.kind = "sealed"
BY DEF Records, Frames!Opening

LEMMA RecordBehind ==
  ASSUME NEW s \in Seq(Records), NEW f, NEW c, Recorded(s, f, c),
         NEW x \in Records, NEW k \in Nat,
         x.kind = "opening" => k = 0,
         x.kind # "opening" =>
           x.nonce = c[Len(s)] /\ x.value = Frames!TokensFrom(f[Len(s)], k)
  PROVE  \E g, e : /\ Recorded(s \o <<x>>, g, e)
                   /\ g[0] = f[0] /\ g[Len(s \o <<x>>)] = f[Len(s)] + k
                   /\ e[0] = c[0] /\ e[Len(s \o <<x>>)] = NonceBehind(x, c[Len(s)])
<1> DEFINE l == Len(s)
           y == f[l]
           u == s \o <<x>>
           d == NonceBehind(x, c[Len(s)])
           g == [i \in Nat |-> IF i <= l THEN f[i] ELSE y + k]
           e == [i \in Nat |-> IF i <= l THEN c[i] ELSE d]
<1>0. l \in Nat
  BY LenProperties
<1>1. f \in [Nat -> Nat] /\ y \in Nat
  BY <1>0 DEF Recorded
<1>2. Len(u) = l + 1 /\ u[l + 1] = x /\ \A i \in 1 .. l : u[i] = s[i]
  <2>1. <<x>> \in Seq(Records) /\ Len(<<x>>) = 1 /\ <<x>>[1] = x
    OBVIOUS
  <2>2. /\ Len(u) = l + 1
        /\ \A i \in 1 .. l + 1 : u[i] = IF i <= l THEN s[i] ELSE <<x>>[i - l]
    BY <2>1, ConcatProperties
  <2>3. /\ l + 1 \in 1 .. l + 1 /\ ~(l + 1 <= l) /\ (l + 1) - l = 1
        /\ \A i \in 1 .. l : i \in 1 .. l + 1 /\ i <= l
    BY <1>0
  <2> HIDE DEF u, l
  <2> QED
    BY <2>1, <2>2, <2>3
<1>3. \A i \in 1 .. l :
        IF s[i].kind = "opening"
        THEN f[i] = f[i - 1] /\ c[i] = c[i - 1]
        ELSE /\ s[i].nonce = c[i - 1]
             /\ c[i] = (c[i - 1] + 1) % Counters
             /\ \E m \in Nat : /\ s[i].value = Frames!TokensFrom(f[i - 1], m)
                               /\ f[i] = f[i - 1] + m
  BY DEF Recorded
<1> HIDE DEF u, y, d
<1>4. g \in [Nat -> Nat]
  <2>1. y + k \in Nat
    BY <1>1
  <2> QED
    BY <1>1, <2>1
<1>5. /\ \A i \in 0 .. l : g[i] = f[i] /\ e[i] = c[i]
      /\ g[l + 1] = y + k /\ e[l + 1] = d
  <2>1. /\ l + 1 \in Nat /\ ~(l + 1 <= l)
        /\ \A i \in 0 .. l : i \in Nat /\ i <= l
    BY <1>0
  <2> HIDE DEF l
  <2> QED
    BY <2>1
<1> HIDE DEF g, e
<1>6. ASSUME NEW i \in 1 .. Len(u)
      PROVE  IF u[i].kind = "opening"
             THEN g[i] = g[i - 1] /\ e[i] = e[i - 1]
             ELSE /\ u[i].nonce = e[i - 1]
                  /\ e[i] = (e[i - 1] + 1) % Counters
                  /\ \E m \in Nat : /\ u[i].value = Frames!TokensFrom(g[i - 1], m)
                                    /\ g[i] = g[i - 1] + m
  <2>1. CASE i <= l
    <3>1. i \in 1 .. l /\ i \in 0 .. l /\ i - 1 \in 0 .. l
      BY <1>0, <2>1
    <3>2. u[i] = s[i] /\ g[i] = f[i] /\ g[i - 1] = f[i - 1] /\ e[i] = c[i] /\ e[i - 1] = c[i - 1]
      BY <1>2, <1>5, <3>1
    <3> HIDE DEF l
    <3> QED
      BY <1>3, <3>1, <3>2
  <2>2. CASE i = l + 1
    <3>1. i - 1 = l /\ l \in 0 .. l
      BY <1>0, <2>2
    <3>2. /\ u[i] = x /\ g[i] = y + k /\ g[i - 1] = y /\ e[i] = d /\ e[i - 1] = c[Len(s)]
      BY <1>2, <1>5, <2>2, <3>1 DEF y
    <3>3. CASE x.kind = "opening"
      <4>1. y + k = y /\ d = c[Len(s)]
        BY <1>1, <3>3 DEF d, NonceBehind
      <4> QED
        BY <3>2, <3>3, <4>1
    <3>4. CASE x.kind # "opening"
      <4>1. x.nonce = c[Len(s)] /\ d = (c[Len(s)] + 1) % Counters
            /\ x.value = Frames!TokensFrom(y, k)
        BY <3>4 DEF y, d, NonceBehind
      <4> QED
        BY <3>2, <3>4, <4>1
    <3> QED
      BY <3>3, <3>4
  <2> QED
    BY <1>0, <1>2, <2>1, <2>2
<1>7. Recorded(u, g, e)
  BY <1>4, <1>6 DEF Recorded
<1>8. g[0] = f[0] /\ e[0] = c[0] /\ g[Len(u)] = f[Len(s)] + k /\ e[Len(u)] = d
  <2>1. 0 \in 0 .. l
    BY <1>0
  <2> QED
    BY <1>2, <1>5, <2>1 DEF y
<1> QED
  BY <1>7, <1>8 DEF u, d

LEMMA RecordRead ==
  ASSUME NEW s \in Seq(Records), NEW f, NEW c, Recorded(s, f, c), s # <<>>,
         NEW u \in Seq(Records), LeftOf(u, s, 1)
  PROVE  \E g, e : /\ Recorded(u, g, e)
                   /\ g[0] = f[1] /\ g[Len(u)] = f[Len(s)]
                   /\ e[0] = c[1] /\ e[Len(u)] = c[Len(s)]
<1> DEFINE l == Len(s)
           g == [k \in Nat |-> f[k + 1]]
           e == [k \in Nat |-> c[k + 1]]
<1>0. l \in Nat \ {0} /\ Len(u) = l - 1
  BY EmptySeq DEF LeftOf
<1>1. f \in [Nat -> Nat]
  BY DEF Recorded
<1>2. \A i \in 1 .. l :
        IF s[i].kind = "opening"
        THEN f[i] = f[i - 1] /\ c[i] = c[i - 1]
        ELSE /\ s[i].nonce = c[i - 1]
             /\ c[i] = (c[i - 1] + 1) % Counters
             /\ \E m \in Nat : /\ s[i].value = Frames!TokensFrom(f[i - 1], m)
                               /\ f[i] = f[i - 1] + m
  BY DEF Recorded
<1> HIDE DEF l
<1>3. g \in [Nat -> Nat] /\ \A k \in Nat : g[k] = f[k + 1] /\ e[k] = c[k + 1]
  <2>1. \A k \in Nat : k + 1 \in Nat
    OBVIOUS
  <2> QED
    BY <1>1, <2>1
<1> HIDE DEF g, e
<1>4. ASSUME NEW i \in 1 .. Len(u)
      PROVE  IF u[i].kind = "opening"
             THEN g[i] = g[i - 1] /\ e[i] = e[i - 1]
             ELSE /\ u[i].nonce = e[i - 1]
                  /\ e[i] = (e[i - 1] + 1) % Counters
                  /\ \E m \in Nat : /\ u[i].value = Frames!TokensFrom(g[i - 1], m)
                                    /\ g[i] = g[i - 1] + m
  <2>1. /\ i \in Nat /\ i - 1 \in Nat /\ (i - 1) + 1 = i /\ (i + 1) - 1 = i
        /\ i + 1 \in 1 .. l /\ 1 + i = i + 1
    BY <1>0
  <2>2. u[i] = s[i + 1]
    BY <2>1 DEF LeftOf
  <2>3. g[i] = f[i + 1] /\ g[i - 1] = f[i] /\ e[i] = c[i + 1] /\ e[i - 1] = c[i]
    BY <1>3, <2>1
  <2> DEFINE n == i + 1
  <2>4. n \in 1 .. l /\ n - 1 = i /\ u[i] = s[n]
        /\ g[i] = f[n] /\ e[i] = c[n]
    BY <2>1, <2>2, <2>3
  <2> HIDE DEF n
  <2> QED
    BY <1>2, <2>3, <2>4
<1>5. Recorded(u, g, e)
  BY <1>3, <1>4 DEF Recorded
<1>6. g[0] = f[1] /\ g[Len(u)] = f[l] /\ e[0] = c[1] /\ e[Len(u)] = c[l]
  <2>1. 0 \in Nat /\ 0 + 1 = 1 /\ Len(u) \in Nat /\ Len(u) + 1 = l
    BY <1>0
  <2> QED
    BY <1>3, <2>1
<1> QED
  BY <1>5, <1>6 DEF l

-----------------------------------------------------------------------------
(* What is delivered and in flight.                                        *)
LEMMA SeqsJoin ==
  ASSUME NEW S, NEW s \in Seq(S), NEW x \in Seq(S), NEW y \in Seq(S)
  PROVE  /\ x \o y \in Seq(S) /\ s \o x \in Seq(S)
         /\ s \o (x \o y) = (s \o x) \o y
BY ConcatProperties, ConcatAssociative

LEMMA BeginsWith ==
  ASSUME NEW S, NEW s \in Seq(S), NEW x \in Seq(S)
  PROVE  \A i \in 1 .. Len(s) : (s \o x)[i] = s[i]
<1>1. Len(s) \in Nat /\ Len(x) \in Nat
  BY LenProperties
<1>2. \A i \in 1 .. Len(s) + Len(x) : (s \o x)[i] = IF i <= Len(s) THEN s[i] ELSE x[i - Len(s)]
  BY ConcatProperties
<1>3. \A i \in 1 .. Len(s) : i \in 1 .. Len(s) + Len(x) /\ i <= Len(s)
  BY <1>1
<1> QED
  BY <1>2, <1>3

(* The first of what is delivered leaves.                                  *)
LEMMA FrontRead ==
  ASSUME NEW S, NEW s \in Seq(S), NEW x \in Seq(S), NEW n \in Nat, n <= Len(s),
         NEW d, d = SubSeq(s, n + 1, Len(s)),
         NEW w, w = s \o x, NEW u, u = d \o x
  PROVE  /\ d \in Seq(S) /\ w \in Seq(S) /\ u \in Seq(S)
         /\ LeftOf(u, w, n)
<1> DEFINE l == Len(s)
           m == Len(x)
<1>1. l \in Nat /\ m \in Nat /\ n <= l
  BY LenProperties
<1>2. /\ w \in Seq(S) /\ Len(w) = l + m
      /\ \A i \in 1 .. l + m : w[i] = IF i <= l THEN s[i] ELSE x[i - l]
  BY ConcatProperties
<1>3. \A i \in 1 .. l : s[i] \in S
  BY ElementOfSeq
<1>4. /\ d \in Seq(S) /\ Len(d) = IF n + 1 <= l THEN l - (n + 1) + 1 ELSE 0
      /\ \A i \in 1 .. l - (n + 1) + 1 : d[i] = s[(n + 1) + i - 1]
  <2>1. n + 1 \in Int /\ l \in Int /\ \A i \in (n + 1) .. l : i \in 1 .. l
    BY <1>1
  <2>2. \A i \in (n + 1) .. l : s[i] \in S
    BY <1>3, <2>1
  <2> HIDE DEF l
  <2>3. /\ SubSeq(s, n + 1, l) \in Seq(S)
        /\ Len(SubSeq(s, n + 1, l)) = IF n + 1 <= l THEN l - (n + 1) + 1 ELSE 0
        /\ \A i \in 1 .. l - (n + 1) + 1 : SubSeq(s, n + 1, l)[i] = s[(n + 1) + i - 1]
    BY <2>1, <2>2, SubSeqProperties
  <2>4. d = SubSeq(s, n + 1, l)
    BY DEF l
  <2> QED
    BY <2>3, <2>4
<1> HIDE DEF l
<1>5. l - (n + 1) + 1 = l - n /\ Len(d) = l - n /\ l - n \in Nat
  BY <1>1, <1>4
<1>6. /\ u \in Seq(S) /\ Len(u) = Len(d) + m
      /\ \A i \in 1 .. Len(d) + m : u[i] = IF i <= Len(d) THEN d[i] ELSE x[i - Len(d)]
  BY <1>4, ConcatProperties
<1> HIDE DEF m
<1>7. Len(u) = (l + m) - n
  <2>1. \A a \in Nat, b \in Nat, c \in Nat : c <= a => (a - c) + b = (a + b) - c
    OBVIOUS
  <2>2. Len(u) = (l - n) + m
    BY <1>5, <1>6
  <2> QED
    BY ONLY <1>1, <2>1, <2>2, n \in Nat
<1>8. ASSUME NEW i \in 1 .. Len(u) PROVE u[i] = w[n + i]
  <2>1. n + i \in 1 .. l + m /\ i \in 1 .. Len(d) + m
    BY <1>1, <1>5, <1>7
  <2>2. CASE i <= Len(d)
    <3>1. n + i <= l /\ i \in 1 .. l - (n + 1) + 1 /\ (n + 1) + i - 1 = n + i
      BY <1>1, <1>5, <2>2
    <3> QED
      BY <1>2, <1>4, <1>6, <2>1, <2>2, <3>1
  <2>3. CASE ~(i <= Len(d))
    <3>1. ~(n + i <= l) /\ (n + i) - l = i - Len(d)
      BY ONLY <1>1, <1>5, <2>3, i \in 1 .. Len(u), n \in Nat
    <3> QED
      BY <1>2, <1>6, <2>1, <2>3, <3>1
  <2> QED
    BY <2>2, <2>3
<1>9. Len(w) = l + m /\ Len(u) = Len(w) - n
  BY <1>2, <1>7
<1> QED
  BY <1>2, <1>4, <1>6, <1>8, <1>9 DEF l, m, LeftOf

LEMMA TailRead ==
  ASSUME NEW S, NEW s \in Seq(S), NEW x \in Seq(S), s # <<>>,
         NEW d, d = Tail(s), NEW w, w = s \o x, NEW u, u = d \o x
  PROVE  /\ d \in Seq(S) /\ w \in Seq(S) /\ u \in Seq(S)
         /\ w # <<>> /\ w[1] = s[1]
         /\ LeftOf(u, w, 1)
<1>1. Len(s) \in Nat \ {0}
  BY EmptySeq, LenProperties
<1>2. 1 + 1 = 2 /\ 1 \in Nat /\ 1 <= Len(s) /\ 1 \in 1 .. Len(s)
  BY <1>1
<1>3. d = SubSeq(s, 1 + 1, Len(s))
  BY <1>2, TailIsSubSeq
<1>4. /\ d \in Seq(S) /\ w \in Seq(S) /\ u \in Seq(S)
      /\ LeftOf(u, w, 1)
  BY <1>2, <1>3, FrontRead
<1>5. w # <<>>
  <2>1. Len(s \o x) = Len(s) + Len(x) /\ Len(x) \in Nat
    BY ConcatProperties, LenProperties
  <2>2. Len(w) # 0
    BY <1>1, <2>1
  <2> QED
    BY <1>4, <2>2, EmptySeq
<1>6. w[1] = s[1]
  BY <1>2, BeginsWith
<1> QED
  BY <1>4, <1>5, <1>6

LEMMA TailRest ==
  ASSUME NEW S, NEW s \in Seq(S), s # <<>>, NEW n \in Nat, n <= Len(s) - 1
  PROVE  SubSeq(s, n + 2, Len(s)) = SubSeq(Tail(s), n + 1, Len(Tail(s)))
<1> DEFINE l == Len(s)
           t == Tail(s)
<1>1. l \in Nat \ {0} /\ n <= l - 1
  BY EmptySeq, LenProperties
<1>2. t \in Seq(S) /\ Len(t) = l - 1 /\ \A i \in 1 .. Len(t) : t[i] = s[i + 1]
  BY HeadTailProperties
<1>3. \A i \in 1 .. l : s[i] \in S
  BY ElementOfSeq
<1> HIDE DEF l, t
<1> DEFINE a == SubSeq(s, n + 2, l)
           b == SubSeq(t, n + 1, l - 1)
<1>4. /\ a \in Seq(S) /\ Len(a) = l - 1 - n
      /\ \A i \in 1 .. l - 1 - n : a[i] = s[(n + 2) + i - 1]
  <2>1. /\ n + 2 \in Int /\ l \in Int /\ l - (n + 2) + 1 = l - 1 - n
        /\ (IF n + 2 <= l THEN l - (n + 2) + 1 ELSE 0) = l - 1 - n
        /\ \A i \in (n + 2) .. l : i \in 1 .. l
    BY <1>1
  <2>2. \A i \in (n + 2) .. l : s[i] \in S
    BY <1>3, <2>1
  <2>3. /\ a \in Seq(S) /\ Len(a) = IF n + 2 <= l THEN l - (n + 2) + 1 ELSE 0
        /\ \A i \in 1 .. l - (n + 2) + 1 : a[i] = s[(n + 2) + i - 1]
    BY <2>1, <2>2, SubSeqProperties
  <2> QED
    BY <2>1, <2>3
<1>5. /\ b \in Seq(S) /\ Len(b) = l - 1 - n
      /\ \A i \in 1 .. l - 1 - n : b[i] = t[(n + 1) + i - 1]
  <2>1. /\ n + 1 \in Int /\ l - 1 \in Int /\ (l - 1) - (n + 1) + 1 = l - 1 - n
        /\ (IF n + 1 <= l - 1 THEN (l - 1) - (n + 1) + 1 ELSE 0) = l - 1 - n
        /\ \A i \in (n + 1) .. l - 1 : i \in 1 .. l - 1 /\ i + 1 \in 1 .. l
    BY <1>1
  <2>2. \A i \in (n + 1) .. l - 1 : t[i] \in S
    BY <1>2, <1>3, <2>1
  <2>3. /\ b \in Seq(S) /\ Len(b) = IF n + 1 <= l - 1 THEN (l - 1) - (n + 1) + 1 ELSE 0
        /\ \A i \in 1 .. (l - 1) - (n + 1) + 1 : b[i] = t[(n + 1) + i - 1]
    BY <2>1, <2>2, SubSeqProperties
  <2> QED
    BY <2>1, <2>3
<1>6. \A i \in 1 .. l - 1 - n :
        (n + 1) + i - 1 \in 1 .. l - 1 /\ ((n + 1) + i - 1) + 1 = (n + 2) + i - 1
  BY <1>1
<1> HIDE DEF a, b
<1>7. \A i \in 1 .. l - 1 - n : a[i] = b[i]
  BY <1>2, <1>4, <1>5, <1>6
<1>8. a = b
  BY <1>4, <1>5, <1>7, SeqEqual
<1> QED
  BY <1>2, <1>8 DEF a, b, l, t

(* The network moves what is in flight.                                    *)
LEMMA PieceDelivered ==
  ASSUME NEW S, NEW s \in Seq(S), NEW x \in Seq(S), NEW n \in 1 .. Len(x)
  PROVE  /\ s \o SubSeq(x, 1, n) \in Seq(S) /\ SubSeq(x, n + 1, Len(x)) \in Seq(S)
         /\ (s \o SubSeq(x, 1, n)) \o SubSeq(x, n + 1, Len(x)) = s \o x
<1>1. Len(x) \in Nat /\ \A i \in 1 .. Len(x) : x[i] \in S
  BY LenProperties, ElementOfSeq
<1>2. /\ n \in Int /\ n + 1 \in Int /\ Len(x) \in Int /\ 1 \in 1 .. Len(x) + 1
      /\ n \in 1 - 1 .. Len(x) /\ Len(x) \in n .. Len(x)
      /\ \A i \in 1 .. n : i \in 1 .. Len(x)
      /\ \A i \in (n + 1) .. Len(x) : i \in 1 .. Len(x)
  BY <1>1
<1>3. SubSeq(x, 1, n) \in Seq(S)
  BY <1>1, <1>2, SubSeqProperties
<1>4. SubSeq(x, n + 1, Len(x)) \in Seq(S)
  BY <1>1, <1>2, SubSeqProperties
<1>5. SubSeq(x, 1, n) \o SubSeq(x, n + 1, Len(x)) = x
  BY <1>2, ConcatAdjacentSubSeq, SubSeqFull
<1> DEFINE a == SubSeq(x, 1, n)
           b == SubSeq(x, n + 1, Len(x))
<1>6. a \in Seq(S) /\ b \in Seq(S) /\ a \o b = x
  BY <1>3, <1>4, <1>5
<1> HIDE DEF a, b
<1>7. s \o a \in Seq(S) /\ s \o (a \o b) = (s \o a) \o b
  <2>1. a \in Seq(S) /\ b \in Seq(S)
    BY <1>6
  <2> QED
    BY ONLY s \in Seq(S), <2>1, SeqsJoin
<1>8. (s \o a) \o b = s \o x
  BY <1>6, <1>7
<1> QED
  BY <1>6, <1>7, <1>8 DEF a, b

-----------------------------------------------------------------------------
LEMMA FrameIs ==
  ASSUME NEW t \in Nat, NEW n \in Nat
  PROVE  LET x == Frames!Frame(Frames!TokensFrom(t, n))
         IN /\ x \in Seq(FrameItems) /\ Len(x) = n + 1
            /\ x[1].kind # "token" /\ RunOf(x[1]) = n
            /\ \A j \in 1 .. n : x[j + 1] = Frames!Token(t + j - 1)
<1> DEFINE p == Frames!TokensFrom(t, n)
           b == [i \in 1 .. Len(p) |-> Frames!Token(p[i])]
           h == Frames!HeadOf(n)
           x == <<h>> \o b
<1>1. p \in Seq(Nat) /\ Len(p) = n /\ \A i \in 1 .. n : p[i] = t + i - 1
  BY RangesAre
<1> HIDE DEF p
<1>2. \A i \in 1 .. n : t + i - 1 \in Nat
  OBVIOUS
<1>3. \A i \in 1 .. Len(p) : Frames!Token(p[i]) \in FrameItems
  BY <1>1, <1>2, ItemsAre
<1>4. b \in [1 .. Len(p) -> FrameItems]
  BY <1>3
<1>5. b \in Seq(FrameItems) /\ Len(b) = n /\ \A j \in 1 .. n : b[j] = Frames!Token(t + j - 1)
  <2>1. b \in Seq(FrameItems)
    BY <1>1, <1>4
  <2>2. Len(b) = n
    BY <1>1, <1>4, <2>1, LenProperties
  <2>3. \A j \in 1 .. n : b[j] = Frames!Token(t + j - 1)
    BY <1>1
  <2> QED
    BY <2>1, <2>2, <2>3
<1> HIDE DEF b
<1>6. h \in FrameItems /\ h.kind = "head" /\ RunOf(h) = n
  BY ItemsAre
<1> HIDE DEF h
<1>7. <<h>> \in Seq(FrameItems) /\ Len(<<h>>) = 1 /\ <<h>>[1] = h
  BY <1>6
<1>8. /\ x \in Seq(FrameItems) /\ Len(x) = 1 + n
      /\ \A i \in 1 .. 1 + n : x[i] = IF i <= 1 THEN <<h>>[i] ELSE b[i - 1]
  BY <1>5, <1>7, ConcatProperties
<1> HIDE DEF x
<1>9. /\ 1 \in 1 .. 1 + n /\ 1 + n = n + 1
      /\ \A j \in 1 .. n : j + 1 \in 1 .. 1 + n /\ ~(j + 1 <= 1) /\ (j + 1) - 1 = j
  OBVIOUS
<1>10. x[1] = h /\ \A j \in 1 .. n : x[j + 1] = b[j]
  BY <1>7, <1>8, <1>9
<1>11. x = Frames!Frame(Frames!TokensFrom(t, n))
  BY <1>1 DEF Frames!Frame, x, h, b, p
<1>12. /\ x \in Seq(FrameItems) /\ Len(x) = n + 1
       /\ x[1].kind # "token" /\ RunOf(x[1]) = n
       /\ \A j \in 1 .. n : x[j + 1] = Frames!Token(t + j - 1)
  BY <1>5, <1>6, <1>8, <1>9, <1>10
<1> QED
  BY <1>11, <1>12

LEMMA CarriesMore ==
  ASSUME delivered \in Seq(FrameItems), remain \in Nat,
         NEW q, NEW y \in Nat, Carries(q, y),
         NEW t \in Seq(FrameItems), NEW n \in Nat, Len(t) = n + 1,
         t[1].kind # "token", RunOf(t[1]) = n,
         \A j \in 1 .. n : t[j + 1] = Frames!Token(y + j - 1)
  PROVE  Carries(q \o t, y + n)
<1>1. PICK f : /\ Framed(delivered \o q, f, remain)
               /\ ToRead(f[0]) /\ f[Len(delivered \o q)] = y
  BY DEF Carries
<1>2. q \in Seq(FrameItems)
  BY DEF Carries
<1>3. /\ q \o t \in Seq(FrameItems) /\ delivered \o q \in Seq(FrameItems)
      /\ delivered \o (q \o t) = (delivered \o q) \o t
  BY <1>2, SeqsJoin
<1> DEFINE s == delivered \o q
<1>4. s \in Seq(FrameItems) /\ f[Len(s)] = y /\ Framed(s, f, remain)
  BY <1>1, <1>3
<1> HIDE DEF s
<1>5. \E g : Framed(s \o t, g, remain) /\ g[0] = f[0] /\ g[Len(s \o t)] = y + n
  <2>1. \A j \in 1 .. n : t[j + 1] = Frames!Token(f[Len(s)] + j - 1)
    BY <1>4
  <2>2. \E g : Framed(s \o t, g, remain) /\ g[0] = f[0] /\ g[Len(s \o t)] = f[Len(s)] + n
    <3>1. s \in Seq(FrameItems) /\ Framed(s, f, remain)
      BY <1>4
    <3> QED
      BY <3>1, <2>1, FramedBehind
  <2> QED
    BY <1>4, <2>2
<1>6. PICK g : Framed(s \o t, g, remain) /\ g[0] = f[0] /\ g[Len(s \o t)] = y + n
  BY <1>5
<1>7. s \o t = delivered \o (q \o t)
  BY <1>3 DEF s
<1>8. ToRead(g[0])
  BY <1>1, <1>6
<1>9. Framed(delivered \o (q \o t), g, remain) /\ g[Len(delivered \o (q \o t))] = y + n
  BY <1>6, <1>7
<1> QED
  BY <1>3, <1>8, <1>9 DEF Carries

LEMMA CarriesFrame ==
  ASSUME delivered \in Seq(FrameItems), remain \in Nat,
         NEW q, NEW y \in Nat, Carries(q, y), NEW n \in Nat
  PROVE  Carries(q \o Frames!Frame(Frames!TokensFrom(y, n)), y + n)
<1> DEFINE t == Frames!Frame(Frames!TokensFrom(y, n))
<1>1. /\ t \in Seq(FrameItems) /\ Len(t) = n + 1
      /\ t[1].kind # "token" /\ RunOf(t[1]) = n
      /\ \A j \in 1 .. n : t[j + 1] = Frames!Token(y + j - 1)
  BY FrameIs
<1> HIDE DEF t
<1>2. Carries(q \o t, y + n)
  BY <1>1, CarriesMore
<1> QED
  BY <1>2 DEF t

LEMMA CarriesItem ==
  ASSUME delivered \in Seq(FrameItems), remain \in Nat,
         NEW q, NEW y \in Nat, Carries(q, y), NEW x \in {Frames!Ping, Frames!Opening}
  PROVE  Carries(q \o <<x>>, y)
<1> DEFINE t == <<x>>
<1>1. x \in FrameItems /\ x.kind \in {"ping", "opening"} /\ RunOf(x) = 0
  BY ItemsAre
<1>2. t \in Seq(FrameItems) /\ Len(t) = 0 + 1 /\ t[1] = x
  BY <1>1
<1>3. t[1].kind # "token" /\ RunOf(t[1]) = 0
  BY <1>1, <1>2
<1> HIDE DEF t
<1>4. Carries(q \o t, y + 0)
  <2>1. 0 \in Nat /\ \A j \in 1 .. 0 : t[j + 1] = Frames!Token(y + j - 1)
    OBVIOUS
  <2> QED
    BY <1>2, <1>3, <2>1, CarriesMore
<1>5. y + 0 = y
  OBVIOUS
<1> QED
  BY <1>4, <1>5 DEF t

LEMMA CarriesRecord ==
  ASSUME delivered \in Seq(Records),
         NEW q, NEW y \in Nat, NEW z, CarriesRecords(q, y, z),
         NEW x \in Records, NEW k \in Nat,
         x.kind = "opening" => k = 0,
         x.kind # "opening" => x.nonce = z /\ x.value = Frames!TokensFrom(y, k)
  PROVE  CarriesRecords(q \o <<x>>, y + k, NonceBehind(x, z))
<1>1. PICK f, c : /\ Recorded(delivered \o q, f, c)
                  /\ f[0] = Len(handedOut) + Len(leftover) + 1 /\ f[Len(delivered \o q)] = y
                  /\ c[0] = openCount /\ c[Len(delivered \o q)] = z
  BY DEF CarriesRecords
<1>2. q \in Seq(Records) /\ <<x>> \in Seq(Records)
  BY DEF CarriesRecords
<1>3. /\ q \o <<x>> \in Seq(Records) /\ delivered \o q \in Seq(Records)
      /\ delivered \o (q \o <<x>>) = (delivered \o q) \o <<x>>
  BY <1>2, SeqsJoin
<1> DEFINE s == delivered \o q
<1>4. s \in Seq(Records) /\ f[Len(s)] = y /\ c[Len(s)] = z /\ Recorded(s, f, c)
  BY <1>1, <1>3
<1> HIDE DEF s
<1>5. \E g, e : /\ Recorded(s \o <<x>>, g, e)
                /\ g[0] = f[0] /\ g[Len(s \o <<x>>)] = y + k
                /\ e[0] = c[0] /\ e[Len(s \o <<x>>)] = NonceBehind(x, z)
  <2>1. x.kind # "opening" =>
          x.nonce = c[Len(s)] /\ x.value = Frames!TokensFrom(f[Len(s)], k)
    BY <1>4
  <2>2. \E g, e : /\ Recorded(s \o <<x>>, g, e)
                  /\ g[0] = f[0] /\ g[Len(s \o <<x>>)] = f[Len(s)] + k
                  /\ e[0] = c[0] /\ e[Len(s \o <<x>>)] = NonceBehind(x, c[Len(s)])
    <3>1. s \in Seq(Records) /\ Recorded(s, f, c)
      BY <1>4
    <3> QED
      BY <3>1, <2>1, RecordBehind
  <2> QED
    BY <1>4, <2>2
<1>6. s \o <<x>> = delivered \o (q \o <<x>>)
  BY <1>3 DEF s
<1>7. \E g, e : /\ Recorded(delivered \o (q \o <<x>>), g, e)
                /\ g[0] = Len(handedOut) + Len(leftover) + 1
                /\ g[Len(delivered \o (q \o <<x>>))] = y + k
                /\ e[0] = openCount
                /\ e[Len(delivered \o (q \o <<x>>))] = NonceBehind(x, z)
  BY <1>1, <1>5, <1>6
<1> QED
  BY <1>3, <1>7 DEF CarriesRecords

(* A write begins with the token t.                                        *)
LEMMA WritesFrames ==
  ASSUME FramesTypes, FramesRead, framing \notin Frames!Sealing, toCut = 0,
         NEW opening \in {<<>>, <<Frames!Opening>>}, NEW n \in Nat,
         NEW t \in Nat, t = ToWrite,
         Frames!WriteFrames(opening, t, n)
  PROVE  /\ toCut' \in Nat /\ toCut' <= n
         /\ Carries(inFlight', t + n - toCut')
<1>1. delivered \in Seq(FrameItems) /\ Carries(inFlight, t) /\ remain \in Nat
  BY DEF FramesTypes, FramesRead
<1>2. inFlight \in Seq(FrameItems)
  BY <1>1 DEF Carries
<1> DEFINE q == inFlight \o opening
<1>3. Carries(q, t)
  <2>1. CASE opening = <<>>
    <3>1. q = inFlight
      BY <1>2, <2>1, ConcatEmptySeq
    <3> QED
      BY <1>1, <3>1
  <2>2. CASE opening = <<Frames!Opening>>
    BY <1>1, <2>2, CarriesItem
  <2> QED
    BY <2>1, <2>2
<1>4. q \in Seq(FrameItems)
  BY <1>3 DEF Carries
<1>5. /\ inFlight' = q \o (IF Frames!Loops(n) THEN <<>> ELSE Frames!Frame(Frames!TokensFrom(t, n)))
      /\ toCut' = IF Frames!Loops(n) THEN n ELSE 0
  BY DEF Frames!WriteFrames
<1> HIDE DEF q
<1>6. CASE Frames!Loops(n)
  <2>1. inFlight' = q /\ toCut' = n
    BY <1>4, <1>5, <1>6, ConcatEmptySeq
  <2>2. t + n - n = t
    OBVIOUS
  <2> QED
    BY <1>3, <2>1, <2>2
<1>7. CASE ~Frames!Loops(n)
  <2>1. inFlight' = q \o Frames!Frame(Frames!TokensFrom(t, n)) /\ toCut' = 0
    BY <1>5, <1>7
  <2>2. Carries(q \o Frames!Frame(Frames!TokensFrom(t, n)), t + n)
    BY <1>1, <1>3, CarriesFrame
  <2>3. t + n - 0 = t + n
    OBVIOUS
  <2> QED
    BY <2>1, <2>2, <2>3
<1> QED
  BY <1>6, <1>7

LEMMA SealsRecord ==
  ASSUME FramesTypes, RecordsRead, framing \in Frames!Sealing,
         NEW opening \in {<<>>, <<Frames!Opening>>}, NEW n \in Nat,
         Frames!WriteFrames(opening, wrote + 1, n)
  PROVE  /\ toCut' = 0 /\ sealCount' \in Nat
         /\ CarriesRecords(inFlight', wrote + n + 1, sealCount')
<1> DEFINE y == wrote + 1
           q == inFlight \o opening
<1>1. delivered \in Seq(Records) /\ CarriesRecords(inFlight, y, sealCount) /\ toCut = 0
  BY DEF RecordsRead
<1>2. inFlight \in Seq(Records)
  BY <1>1 DEF CarriesRecords
<1>3. y \in Nat /\ y + n = wrote + n + 1 /\ y + 0 = y
  BY DEF FramesTypes
<1>0. sealCount' \in Nat
  <2>1. sealCount \in Nat /\ Counters \in Nat \ {0}
    BY FramesAssumption DEF RecordsRead
  <2>2. sealCount + 1 \in Nat /\ (sealCount + 1) % Counters \in Nat
    BY <2>1
  <2> QED
    BY <2>1, <2>2 DEF Frames!WriteFrames
<1>4. /\ inFlight' = q \o (IF n = 0 THEN <<>> ELSE <<Frames!Sealed(y, n)>>)
      /\ sealCount' = IF n = 0 THEN sealCount ELSE (sealCount + 1) % Counters
      /\ toCut' = toCut
  BY DEF Frames!WriteFrames
<1> HIDE DEF y
<1>5. CarriesRecords(q, y, sealCount)
  <2>1. CASE opening = <<>>
    <3>1. q = inFlight
      BY <1>2, <2>1, ConcatEmptySeq
    <3> QED
      BY <1>1, <3>1
  <2>2. CASE opening = <<Frames!Opening>>
    <3>1. CarriesRecords(inFlight \o <<Frames!Opening>>, y + 0, sealCount)
      BY <1>1, <1>3, CarriesRecord, SealedAre DEF NonceBehind
    <3> QED
      BY <1>3, <2>2, <3>1
  <2> QED
    BY <2>1, <2>2
<1>6. q \in Seq(Records)
  BY <1>5 DEF CarriesRecords
<1> HIDE DEF q
<1>7. CASE n = 0
  <2>1. inFlight' = q /\ sealCount' = sealCount
    BY <1>4, <1>6, <1>7, ConcatEmptySeq
  <2>2. wrote + n + 1 = y
    BY <1>3, <1>7
  <2> QED
    BY <1>0, <1>1, <1>4, <1>5, <2>1, <2>2
<1>8. CASE n # 0
  <2> DEFINE x == Frames!Sealed(y, n)
  <2>1. x \in Records /\ x.kind = "sealed" /\ x.nonce = sealCount /\ x.value = Frames!TokensFrom(y, n)
    <3>1. Frames!TokensFrom(y, n) \in Seq(Nat)
      BY <1>3, RangesAre
    <3> QED
      BY <3>1 DEF Frames!Sealed, Records, RecordsRead
  <2> HIDE DEF x
  <2>2. inFlight' = q \o <<x>> /\ sealCount' = (sealCount + 1) % Counters
    BY <1>4, <1>8 DEF x
  <2>3. CarriesRecords(q \o <<x>>, y + n, NonceBehind(x, sealCount))
    BY <1>1, <1>3, <1>5, <2>1, CarriesRecord
  <2>4. NonceBehind(x, sealCount) = (sealCount + 1) % Counters
    BY <2>1 DEF NonceBehind
  <2> QED
    BY <1>0, <1>1, <1>3, <1>4, <2>2, <2>3, <2>4
<1> QED
  BY <1>7, <1>8

-----------------------------------------------------------------------------
(* What a read returns.                                                    *)
LEMMA ValuesAre ==
  ASSUME NEW d \in Seq(FrameItems), NEW a \in Nat, NEW n \in Nat, a + n <= Len(d),
         NEW x \in Nat, \A j \in 1 .. n : d[a + j] = Frames!Token(x + j - 1)
  PROVE  Frames!Values(SubSeq(d, a + 1, a + n)) = Frames!TokensFrom(x, n)
<1> DEFINE e == SubSeq(d, a + 1, a + n)
           v == Frames!Values(e)
<1>1. Len(d) \in Nat /\ \A i \in 1 .. Len(d) : d[i] \in FrameItems
  BY LenProperties, ElementOfSeq
<1>2. /\ a + 1 \in Int /\ a + n \in Int /\ (a + n) - (a + 1) + 1 = n
      /\ (IF a + 1 <= a + n THEN (a + n) - (a + 1) + 1 ELSE 0) = n
      /\ \A i \in (a + 1) .. (a + n) : i \in 1 .. Len(d)
      /\ \A j \in 1 .. n : (a + 1) + j - 1 = a + j
  BY <1>1
<1>3. /\ e \in Seq(FrameItems)
      /\ Len(e) = IF a + 1 <= a + n THEN (a + n) - (a + 1) + 1 ELSE 0
      /\ \A i \in 1 .. (a + n) - (a + 1) + 1 : e[i] = d[(a + 1) + i - 1]
  <2>1. \A i \in (a + 1) .. (a + n) : d[i] \in FrameItems
    BY <1>1, <1>2
  <2> QED
    BY <1>2, <2>1, SubSeqProperties
<1>4. Len(e) = n /\ \A j \in 1 .. n : e[j] = Frames!Token(x + j - 1)
  BY <1>2, <1>3
<1> HIDE DEF e
<1>5. \A j \in 1 .. n : e[j].kind = "token" /\ e[j].value = x + j - 1 /\ x + j - 1 \in Nat
  <2>1. \A j \in 1 .. n : x + j - 1 \in Nat
    OBVIOUS
  <2> SUFFICES ASSUME NEW j \in 1 .. n
               PROVE  e[j].kind = "token" /\ e[j].value = x + j - 1 /\ x + j - 1 \in Nat
    OBVIOUS
  <2> DEFINE t == x + j - 1
  <2>2. t \in Nat /\ e[j] = Frames!Token(t)
    BY <1>4, <2>1
  <2> HIDE DEF t
  <2>3. e[j].kind = "token" /\ e[j].value = t
    BY <2>2, ItemsAre
  <2> QED
    BY <2>2, <2>3 DEF t
<1>6. v = [i \in 1 .. n |-> x + i - 1]
  BY <1>4, <1>5 DEF Frames!Values
<1> QED
  BY <1>6 DEF v, e, Frames!TokensFrom

LEMMA AmountsAre ==
  ASSUME NEW room \in Nat, NEW have \in Nat, NEW n \in Frames!Amounts(room, have)
  PROVE  n \in Nat /\ n <= room /\ n <= have
<1>1. CASE framing = "grpc"
  BY <1>1 DEF Frames!Amounts
<1>2. CASE framing # "grpc" /\ room = 0
  BY <1>2 DEF Frames!Amounts
<1>3. CASE framing # "grpc" /\ room # 0
  <2>1. n \in 1 .. Frames!Least(room, have)
    BY <1>3 DEF Frames!Amounts
  <2> QED
    BY <2>1, LeastIs
<1> QED
  BY <1>1, <1>2, <1>3

(* A part of a run is handed out, and the rest of it is still to come.     *)
LEMMA RunHandedOut ==
  ASSUME FramesTypes, UNCHANGED framing,
         NEW x \in Nat, ToRead(x), NEW n \in Nat,
         Frames!HandOut(Frames!TokensFrom(x, n))
  PROVE  /\ handedOut' \in Seq(Nat)
         /\ handedOut' = Frames!TokensFrom(1, Len(handedOut'))
         /\ ToRead(x + n)'
<1> DEFINE h == Len(handedOut)
<1>1. /\ handedOut \in Seq(Nat) /\ h \in Nat
      /\ handedOut = Frames!TokensFrom(1, h)
  BY LenProperties DEF FramesTypes
<1>2. x = h + 1 \/ (h = 0 /\ x = 0)
  BY DEF ToRead
<1>3. x = h + 1 \/ framing = "shadow"
  BY DEF ToRead
<1> HIDE DEF h
<1>4. /\ handedOut' \in Seq(Nat)
      /\ handedOut' = Frames!TokensFrom(1, Len(handedOut'))
      /\ x + n = Len(handedOut') + 1 \/ (Len(handedOut') = 0 /\ x + n = 0 /\ x = 0 /\ h = 0)
  BY <1>1, <1>2, HandsOut DEF h
<1>5. CASE x + n = Len(handedOut') + 1
  BY <1>4, <1>5 DEF ToRead
<1>6. CASE Len(handedOut') = 0 /\ x + n = 0 /\ x = 0 /\ h = 0
  <2>1. framing' = "shadow"
    BY <1>3, <1>6
  <2> QED
    BY <1>4, <1>6, <2>1 DEF ToRead
<1> QED
  BY <1>4, <1>5, <1>6

LEMMA RestRead ==
  ASSUME FramesTypes, FramesRead, NEW m \in Nat, Frames!ReadRest(m),
         UNCHANGED <<framing, wrote, firstDue, toCut, inFlight>>
  PROVE  /\ remain' \in Nat
         /\ handedOut' \in Seq(Nat) /\ handedOut' = Frames!TokensFrom(1, Len(handedOut'))
         /\ FramesRead'
<1>1. /\ delivered \in Seq(FrameItems) /\ inFlight \in Seq(FrameItems)
      /\ remain \in Nat /\ leftover = <<>> /\ leftover' = <<>>
  BY DEF FramesTypes, FramesRead, Carries, Frames!ReadRest
<1> DEFINE w == delivered \o inFlight
<1>2. PICK f : Framed(w, f, remain) /\ ToRead(f[0]) /\ f[Len(w)] = ToWrite
  BY DEF FramesRead, Carries
<1>3. Len(delivered) \in Nat /\ Frames!Least(m, remain) \in Nat /\ Frames!Least(m, remain) <= remain
  BY <1>1, LenProperties, LeastIs
<1>4. PICK n \in Frames!Amounts(Frames!Least(m, remain), Len(delivered)) :
        /\ Frames!HandOut(Frames!Values(SubSeq(delivered, 1, n)))
        /\ delivered' = SubSeq(delivered, n + 1, Len(delivered))
        /\ remain' = remain - n
  BY DEF Frames!ReadRest
<1>5. n \in Nat /\ n <= remain /\ n <= Len(delivered)
  <2>1. n \in Nat /\ n <= Frames!Least(m, remain) /\ n <= Len(delivered)
    BY <1>3, AmountsAre
  <2> QED
    BY <1>1, <1>3, <2>1
<1> DEFINE u == delivered' \o inFlight
<1>6. /\ delivered' \in Seq(FrameItems)
      /\ w \in Seq(FrameItems) /\ u \in Seq(FrameItems)
      /\ LeftOf(u, w, n)
  <2> DEFINE d == SubSeq(delivered, n + 1, Len(delivered))
  <2>1. delivered' = d
    BY <1>4
  <2>2. delivered \in Seq(FrameItems) /\ inFlight \in Seq(FrameItems)
    BY <1>1
  <2>3. n \in Nat /\ n <= Len(delivered)
    BY <1>5
  <2>4. d \in Seq(FrameItems) /\ w \in Seq(FrameItems) /\ d \o inFlight \in Seq(FrameItems)
        /\ LeftOf(d \o inFlight, w, n)
    BY ONLY <2>2, <2>3, FrontRead
  <2> QED
    BY <2>1, <2>4
<1> HIDE DEF w, u
<1>71. Framed(w, f, remain)
  BY <1>2
<1>72. \A j \in 1 .. n : w[j] = Frames!Token(f[0] + j - 1)
  <2>1. \A j \in 1 .. n : j \in 1 .. remain
    BY <1>1, <1>5
  <2> QED
    BY <1>1, <1>6, <1>71, <2>1, RunIs
<1>7. \E g : /\ Framed(u, g, remain - n)
             /\ g[0] = f[0] + n /\ g[Len(u)] = f[Len(w)]
  BY <1>1, <1>5, <1>6, <1>71, RunRead
<1>8. f[0] \in Nat
  BY <1>2 DEF Framed
<1>9. Frames!Values(SubSeq(delivered, 1, n)) = Frames!TokensFrom(f[0], n)
  <2>1. /\ 0 \in Nat /\ 0 + n = n /\ 0 + 1 = 1 /\ 0 + n <= Len(delivered)
        /\ \A j \in 1 .. n : 0 + j = j /\ j \in 1 .. Len(delivered)
    BY <1>3, <1>5
  <2>4. \A i \in 1 .. Len(delivered) : w[i] = delivered[i]
    BY <1>1, BeginsWith DEF w
  <2>2. \A j \in 1 .. n : delivered[0 + j] = Frames!Token(f[0] + j - 1)
    BY <1>72, <2>1, <2>4
  <2>3. Frames!Values(SubSeq(delivered, 0 + 1, 0 + n)) = Frames!TokensFrom(f[0], n)
    BY <1>1, <1>5, <1>8, <2>1, <2>2, ValuesAre
  <2> QED
    BY <2>1, <2>3
<1>10. /\ handedOut' \in Seq(Nat) /\ handedOut' = Frames!TokensFrom(1, Len(handedOut'))
       /\ ToRead(f[0] + n)'
  <2>1. Frames!HandOut(Frames!TokensFrom(f[0], n))
    BY <1>4, <1>9
  <2> QED
    BY <1>2, <1>5, <1>8, <2>1, RunHandedOut
<1>11. remain' \in Nat /\ remain' = remain - n
  BY <1>1, <1>4, <1>5
<1>12. ToWrite' = ToWrite /\ inFlight' = inFlight
  BY DEF ToWrite
<1>13. PICK g : Framed(u, g, remain - n) /\ g[0] = f[0] + n /\ g[Len(u)] = ToWrite
  BY <1>2, <1>7
<1>14. /\ Framed(delivered' \o inFlight', g, remain') /\ ToRead(g[0])'
       /\ g[Len(delivered' \o inFlight')] = ToWrite'
  BY <1>10, <1>11, <1>12, <1>13 DEF u, ToRead
<1> QED
  BY <1>1, <1>6, <1>10, <1>11, <1>12, <1>14 DEF FramesRead, Carries

(* Nothing is left of a frame: what comes next is no token.                *)
LEMMA FrontIs ==
  ASSUME FramesTypes, FramesRead, remain = 0, delivered # <<>>
  PROVE  /\ Tail(delivered) \in Seq(FrameItems) /\ inFlight \in Seq(FrameItems)
         /\ delivered[1] \in FrameItems /\ delivered[1].kind # "token"
         /\ \E f, g : /\ f[0] \in Nat /\ ToRead(f[0]) /\ g[0] = f[0]
                      /\ Framed(Tail(delivered) \o inFlight, g, RunOf(delivered[1]))
                      /\ g[Len(Tail(delivered) \o inFlight)] = ToWrite
<1> DEFINE w == delivered \o inFlight
           d == Tail(delivered)
           u == d \o inFlight
<1>1. delivered \in Seq(FrameItems) /\ inFlight \in Seq(FrameItems)
  BY DEF FramesRead, Carries
<1>2. /\ d \in Seq(FrameItems) /\ w \in Seq(FrameItems) /\ u \in Seq(FrameItems)
      /\ w # <<>> /\ w[1] = delivered[1] /\ LeftOf(u, w, 1)
  BY <1>1, TailRead
<1>3. delivered[1] \in FrameItems
  <2>1. 1 \in 1 .. Len(delivered)
    BY <1>1, EmptySeq, LenProperties
  <2> QED
    BY <1>1, <2>1, ElementOfSeq
<1>4. PICK f : Framed(w, f, 0) /\ ToRead(f[0]) /\ f[Len(w)] = ToWrite
  BY DEF FramesRead, Carries
<1>5. f[0] \in Nat
  BY <1>4 DEF Framed
<1> HIDE DEF w, u, d
<1>6. Framed(w, f, 0)
  BY <1>4
<1>7. /\ w[1].kind # "token"
      /\ \E g : Framed(u, g, RunOf(w[1])) /\ g[0] = f[0] /\ g[Len(u)] = f[Len(w)]
  BY <1>2, <1>6, HeadRead
<1>8. PICK g : Framed(u, g, RunOf(w[1])) /\ g[0] = f[0] /\ g[Len(u)] = f[Len(w)]
  BY <1>7
<1>9. /\ f[0] \in Nat /\ ToRead(f[0]) /\ g[0] = f[0]
      /\ Framed(u, g, RunOf(delivered[1])) /\ g[Len(u)] = ToWrite
  BY <1>2, <1>4, <1>5, <1>8
<1>10. \E h, k : /\ h[0] \in Nat /\ ToRead(h[0]) /\ k[0] = h[0]
                 /\ Framed(u, k, RunOf(delivered[1])) /\ k[Len(u)] = ToWrite
  BY <1>9
<1> QED
  BY <1>1, <1>2, <1>3, <1>7, <1>10 DEF u, d

LEMMA Skipped ==
  ASSUME FramesTypes, FramesRead, NEW kind \in {"ping", "opening"}, Frames!Skip(kind),
         UNCHANGED <<framing, wrote, firstDue, toCut, inFlight>>
  PROVE  FramesRead'
<1>1. /\ remain = 0 /\ delivered # <<>> /\ delivered[1].kind = kind
      /\ delivered' = Tail(delivered)
      /\ UNCHANGED <<remain, leftover, handedOut>>
  BY DEF Frames!Skip
<1>2. /\ Tail(delivered) \in Seq(FrameItems) /\ inFlight \in Seq(FrameItems)
      /\ delivered[1] \in FrameItems
      /\ \E f, g : /\ f[0] \in Nat /\ ToRead(f[0]) /\ g[0] = f[0]
                   /\ Framed(Tail(delivered) \o inFlight, g, RunOf(delivered[1]))
                   /\ g[Len(Tail(delivered) \o inFlight)] = ToWrite
  BY <1>1, FrontIs
<1>3. RunOf(delivered[1]) = 0
  BY <1>1 DEF RunOf
<1>4. PICK g : /\ ToRead(g[0]) /\ Framed(delivered' \o inFlight', g, remain')
               /\ g[Len(delivered' \o inFlight')] = ToWrite
  BY <1>1, <1>2, <1>3
<1>5. ToWrite' = ToWrite /\ ToRead(g[0])'
  BY <1>1, <1>4 DEF ToWrite, ToRead
<1> QED
  BY <1>1, <1>2, <1>4, <1>5 DEF FramesRead, Carries

LEMMA FrameRead ==
  ASSUME FramesTypes, FramesRead, NEW m \in Nat, Frames!ReadFrame(m),
         UNCHANGED <<framing, wrote, firstDue, toCut, inFlight>>
  PROVE  /\ remain' \in Nat
         /\ handedOut' \in Seq(Nat) /\ handedOut' = Frames!TokensFrom(1, Len(handedOut'))
         /\ FramesRead'
<1> DEFINE x == delivered[1]
           length == IF x.kind = "head" THEN x.length ELSE Frames!Noise
           r == RunOf(x)
           s == Tail(delivered)
           w == s \o inFlight
<1>1. /\ remain = 0 /\ delivered # <<>> /\ x.kind \notin {"ping", "opening"}
      /\ leftover' = leftover
  BY DEF Frames!ReadFrame
<1>2. /\ s \in Seq(FrameItems) /\ inFlight \in Seq(FrameItems)
      /\ x \in FrameItems /\ x.kind # "token"
      /\ \E f, g : /\ f[0] \in Nat /\ ToRead(f[0]) /\ g[0] = f[0]
                   /\ Framed(w, g, r) /\ g[Len(w)] = ToWrite
  BY <1>1, FrontIs
<1>3. length = r /\ r \in Nat
  BY <1>1, <1>2, ItemsAre
<1>4. delivered \in Seq(FrameItems) /\ leftover = <<>>
  BY DEF FramesRead
<1>5. Len(delivered) \in Nat \ {0}
  BY <1>1, <1>4, EmptySeq, LenProperties
<1>6. PICK n \in Frames!Amounts(Frames!Least(m, length), Len(delivered) - 1) :
        /\ Frames!HandOut(Frames!Values(SubSeq(delivered, 2, n + 1)))
        /\ delivered' = SubSeq(delivered, n + 2, Len(delivered))
        /\ remain' = Frames!Rest(length, n)
  BY DEF Frames!ReadFrame
<1> HIDE DEF length
<1>7. n \in Nat /\ n <= r /\ n <= Len(delivered) - 1
  <2> HIDE DEF r
  <2>3. r \in Nat /\ Len(delivered) - 1 \in Nat
    BY <1>3, <1>5
  <2>4. Frames!Least(m, r) \in Nat /\ Frames!Least(m, r) <= r
    BY <2>3, LeastIs
  <2>1. Frames!Least(m, r) \in Nat /\ Frames!Least(m, r) <= r /\ Len(delivered) - 1 \in Nat
    BY <2>3, <2>4
  <2>2. n \in Nat /\ n <= Frames!Least(m, r) /\ n <= Len(delivered) - 1
    BY <1>3, <1>6, <2>1, AmountsAre
  <2> QED
    BY <1>3, <2>1, <2>2
<1>8. PICK f : /\ f[0] \in Nat /\ ToRead(f[0])
               /\ Framed(w, f, r) /\ f[Len(w)] = ToWrite
  <2>1. PICK f, g : /\ f[0] \in Nat /\ ToRead(f[0]) /\ g[0] = f[0]
                    /\ Framed(w, g, r) /\ g[Len(w)] = ToWrite
    BY <1>2
  <2>2. g[0] \in Nat /\ ToRead(g[0]) /\ Framed(w, g, r) /\ g[Len(w)] = ToWrite
    BY <2>1
  <2> QED
    BY <2>2
<1> HIDE DEF r
(* Without its head, what is delivered is s, and n of it are read. *)
<1>9. /\ Len(s) = Len(delivered) - 1
      /\ \A i \in 1 .. Len(s) : s[i] = delivered[i + 1]
  BY <1>1, <1>4, HeadTailProperties
<1>10. n <= Len(s) /\ Len(s) \in Nat
  BY <1>5, <1>7, <1>9
<1> DEFINE d == SubSeq(s, n + 1, Len(s))
           u == d \o inFlight
<1>11. delivered' = d
  BY <1>1, <1>4, <1>5, <1>6, <1>7, <1>9, TailRest
<1>12. d \in Seq(FrameItems) /\ w \in Seq(FrameItems) /\ u \in Seq(FrameItems) /\ LeftOf(u, w, n)
  <2>1. n \in Nat /\ s \in Seq(FrameItems) /\ inFlight \in Seq(FrameItems)
    BY <1>2, <1>7
  <2> HIDE DEF s
  <2> QED
    BY ONLY <2>1, <1>10, FrontRead
<1>13. \A i \in 1 .. Len(s) : w[i] = s[i]
  BY <1>2, BeginsWith
<1> HIDE DEF w, s, u, d
<1>14. Framed(w, f, r)
  BY <1>8
<1>15. \A j \in 1 .. n : w[j] = Frames!Token(f[0] + j - 1)
  <2>1. \A j \in 1 .. n : j \in 1 .. r
    BY <1>3, <1>7
  <2> QED
    BY <1>3, <1>12, <1>14, <2>1, RunIs
<1>16. \E g : Framed(u, g, r - n) /\ g[0] = f[0] + n /\ g[Len(u)] = f[Len(w)]
  BY <1>3, <1>7, <1>12, <1>14, RunRead
<1>17. Frames!Values(SubSeq(delivered, 2, n + 1)) = Frames!TokensFrom(f[0], n)
  <2>1. /\ 1 \in Nat /\ 1 + n = n + 1 /\ 1 + 1 = 2 /\ 1 + n <= Len(delivered)
        /\ \A j \in 1 .. n : 1 + j = j + 1 /\ j \in 1 .. Len(s)
    BY <1>5, <1>7, <1>10
  <2>2. \A j \in 1 .. n : delivered[1 + j] = Frames!Token(f[0] + j - 1)
    BY <1>9, <1>13, <1>15, <2>1
  <2>3. Frames!Values(SubSeq(delivered, 1 + 1, 1 + n)) = Frames!TokensFrom(f[0], n)
    BY <1>4, <1>7, <1>8, <2>1, <2>2, ValuesAre
  <2> QED
    BY <2>1, <2>3
<1>18. /\ handedOut' \in Seq(Nat) /\ handedOut' = Frames!TokensFrom(1, Len(handedOut'))
       /\ ToRead(f[0] + n)'
  <2>1. Frames!HandOut(Frames!TokensFrom(f[0], n))
    BY <1>6, <1>17
  <2> QED
    BY <1>7, <1>8, <2>1, RunHandedOut
<1>19. remain' \in Nat /\ remain' = r - n
  BY <1>3, <1>6, <1>7 DEF Frames!Rest
<1>20. ToWrite' = ToWrite /\ inFlight' = inFlight
  BY DEF ToWrite
<1>21. PICK g : Framed(u, g, r - n) /\ g[0] = f[0] + n /\ g[Len(u)] = ToWrite
  BY <1>8, <1>16
<1>22. /\ Framed(delivered' \o inFlight', g, remain') /\ ToRead(g[0])'
       /\ g[Len(delivered' \o inFlight')] = ToWrite'
  BY <1>11, <1>18, <1>19, <1>20, <1>21 DEF u, ToRead
<1>23. delivered' \in Seq(FrameItems) /\ inFlight' \in Seq(FrameItems) /\ leftover' = <<>>
  BY <1>1, <1>2, <1>4, <1>11, <1>12, <1>20
<1> QED
  BY <1>18, <1>19, <1>22, <1>23 DEF FramesRead, Carries

-----------------------------------------------------------------------------
(* Sealed records are read.                                                *)
LEMMA RangeSplit ==
  ASSUME NEW x \in Nat, NEW k \in Nat, NEW a \in 0 .. k
  PROVE  /\ SubSeq(Frames!TokensFrom(x, k), 1, a) = Frames!TokensFrom(x, a)
         /\ SubSeq(Frames!TokensFrom(x, k), a + 1, k) = Frames!TokensFrom(x + a, k - a)
<1>1. SubSeq(Frames!TokensFrom(x, k), 0 + 1, a) = Frames!TokensFrom(x + 0, a - 0)
  <2>1. 0 \in 0 .. a
    OBVIOUS
  <2> QED
    BY <2>1, RangeCut
<1>2. SubSeq(Frames!TokensFrom(x, k), a + 1, k) = Frames!TokensFrom(x + a, k - a)
  <2>1. k \in 0 .. k
    OBVIOUS
  <2> QED
    BY <2>1, RangeCut
<1>3. 0 + 1 = 1 /\ x + 0 = x /\ a - 0 = a
  OBVIOUS
<1> QED
  BY <1>1, <1>2, <1>3

LEMMA PartHandedOut ==
  ASSUME FramesTypes, NEW m \in Nat, NEW h \in Nat, h = Len(handedOut), NEW k \in Nat,
         Frames!HandOutOf(m, Frames!TokensFrom(h + 1, k))
  PROVE  /\ handedOut' \in Seq(Nat)
         /\ handedOut' = Frames!TokensFrom(1, Len(handedOut'))
         /\ leftover' \in Seq(Nat)
         /\ leftover' = Frames!TokensFrom(Len(handedOut') + 1, Len(leftover'))
         /\ Len(handedOut') + Len(leftover') + 1 = (h + 1) + k
<1> DEFINE x == h + 1
           a == Frames!Least(m, k)
           p == Frames!TokensFrom(x, k)
<1>1. x \in Nat /\ x = h + 1
  OBVIOUS
<1>2. a \in Nat /\ a <= k
  BY LeastIs
<1>3. Len(p) = k
  BY <1>1, RangesAre
<1>4. /\ Frames!HandOut(SubSeq(p, 1, a))
      /\ leftover' = SubSeq(p, a + 1, k)
  BY <1>3 DEF Frames!HandOutOf
<1> HIDE DEF a, x
<1>5. /\ SubSeq(p, 1, a) = Frames!TokensFrom(x, a)
      /\ SubSeq(p, a + 1, k) = Frames!TokensFrom(x + a, k - a)
  <2>1. x \in Nat /\ a \in 0 .. k
    BY <1>1, <1>2
  <2> QED
    BY ONLY <2>1, k \in Nat, RangeSplit
<1>7. handedOut \in Seq(Nat) /\ handedOut = Frames!TokensFrom(1, h)
  BY DEF FramesTypes
<1>8. Frames!HandOut(Frames!TokensFrom(x, a))
  BY <1>4, <1>5
<1>9. /\ handedOut' \in Seq(Nat) /\ handedOut' = Frames!TokensFrom(1, Len(handedOut'))
      /\ Len(handedOut') = h + a
  <2>1. Len(handedOut) = h
    OBVIOUS
  <2> QED
    BY <1>1, <1>2, <1>7, <1>8, <2>1, HandsOut
<1>10. k - a \in Nat /\ x + a \in Nat /\ x + a = (h + a) + 1 /\ (h + a) + (k - a) + 1 = x + k
  BY <1>1, <1>2
<1>11. /\ leftover' \in Seq(Nat) /\ Len(leftover') = k - a
       /\ leftover' = Frames!TokensFrom(x + a, k - a)
  <2>1. leftover' = Frames!TokensFrom(x + a, k - a)
    BY <1>4, <1>5
  <2>2. /\ Frames!TokensFrom(x + a, k - a) \in Seq(Nat)
        /\ Len(Frames!TokensFrom(x + a, k - a)) = k - a
    BY <1>10, RangesAre
  <2> QED
    BY <2>1, <2>2
<1> QED
  BY <1>9, <1>10, <1>11 DEF x

LEMMA RecordFront ==
  ASSUME RecordsRead, delivered # <<>>
  PROVE  /\ Tail(delivered) \in Seq(Records) /\ inFlight \in Seq(Records)
         /\ delivered[1] \in Records
         /\ \E y, z :
              /\ \E g, e : /\ Recorded(Tail(delivered) \o inFlight, g, e)
                           /\ g[0] = y /\ g[Len(Tail(delivered) \o inFlight)] = wrote + 1
                           /\ e[0] = z /\ e[Len(Tail(delivered) \o inFlight)] = sealCount
              /\ IF delivered[1].kind = "opening"
                 THEN y = Len(handedOut) + Len(leftover) + 1 /\ z = openCount
                 ELSE /\ delivered[1].nonce = openCount /\ z = (openCount + 1) % Counters
                      /\ \E k \in Nat :
                           /\ delivered[1].value
                                = Frames!TokensFrom(Len(handedOut) + Len(leftover) + 1, k)
                           /\ y = (Len(handedOut) + Len(leftover) + 1) + k
<1> DEFINE w == delivered \o inFlight
           d == Tail(delivered)
           u == d \o inFlight
           b == Len(handedOut) + Len(leftover) + 1
<1>1. delivered \in Seq(Records) /\ inFlight \in Seq(Records)
  BY DEF RecordsRead, CarriesRecords
<1>2. /\ d \in Seq(Records) /\ w \in Seq(Records) /\ u \in Seq(Records)
      /\ w # <<>> /\ w[1] = delivered[1] /\ LeftOf(u, w, 1)
  BY <1>1, TailRead
<1>3. delivered[1] \in Records
  <2>1. 1 \in 1 .. Len(delivered)
    BY <1>1, EmptySeq, LenProperties
  <2> QED
    BY <1>1, <2>1, ElementOfSeq
<1>4. PICK f, c : /\ Recorded(w, f, c)
                  /\ f[0] = b /\ f[Len(w)] = wrote + 1
                  /\ c[0] = openCount /\ c[Len(w)] = sealCount
  BY DEF RecordsRead, CarriesRecords
<1> HIDE DEF w, u, d, b
<1>5. Recorded(w, f, c)
  BY <1>4
<1>6. \E g, e : /\ Recorded(u, g, e)
                /\ g[0] = f[1] /\ g[Len(u)] = f[Len(w)]
                /\ e[0] = c[1] /\ e[Len(u)] = c[Len(w)]
  BY <1>2, <1>5, RecordRead
<1>7. IF delivered[1].kind = "opening"
      THEN f[1] = f[0] /\ c[1] = c[0]
      ELSE /\ delivered[1].nonce = c[0]
           /\ c[1] = (c[0] + 1) % Counters
           /\ \E k \in Nat : /\ delivered[1].value = Frames!TokensFrom(f[0], k)
                             /\ f[1] = f[0] + k
  <2>1. 1 \in 1 .. Len(w) /\ 1 - 1 = 0
    BY <1>2, EmptySeq, LenProperties
  <2>2. IF w[1].kind = "opening"
        THEN f[1] = f[1 - 1] /\ c[1] = c[1 - 1]
        ELSE /\ w[1].nonce = c[1 - 1]
             /\ c[1] = (c[1 - 1] + 1) % Counters
             /\ \E k \in Nat : /\ w[1].value = Frames!TokensFrom(f[1 - 1], k)
                               /\ f[1] = f[1 - 1] + k
    BY <1>5, <2>1 DEF Recorded
  <2> QED
    BY <1>2, <2>1, <2>2
<1>8. IF delivered[1].kind = "opening"
      THEN f[1] = b /\ c[1] = openCount
      ELSE /\ delivered[1].nonce = openCount /\ c[1] = (openCount + 1) % Counters
           /\ \E k \in Nat : /\ delivered[1].value = Frames!TokensFrom(b, k)
                             /\ f[1] = b + k
  BY <1>4, <1>7
<1>9. \E g, e : /\ Recorded(u, g, e)
                /\ g[0] = f[1] /\ g[Len(u)] = wrote + 1
                /\ e[0] = c[1] /\ e[Len(u)] = sealCount
  BY <1>4, <1>6
<1>10. \E y, z :
         /\ \E g, e : /\ Recorded(u, g, e)
                      /\ g[0] = y /\ g[Len(u)] = wrote + 1
                      /\ e[0] = z /\ e[Len(u)] = sealCount
         /\ IF delivered[1].kind = "opening"
            THEN y = b /\ z = openCount
            ELSE /\ delivered[1].nonce = openCount /\ z = (openCount + 1) % Counters
                 /\ \E k \in Nat : /\ delivered[1].value = Frames!TokensFrom(b, k)
                                   /\ y = b + k
  BY <1>8, <1>9
<1> QED
  BY <1>1, <1>2, <1>3, <1>10 DEF u, d, b

LEMMA RecordOpened ==
  ASSUME FramesTypes, RecordsRead, NEW m \in Nat, Frames!ReadRecord(m),
         UNCHANGED <<framing, wrote, firstDue, toCut, inFlight, sealCount>>
  PROVE  /\ handedOut' \in Seq(Nat) /\ handedOut' = Frames!TokensFrom(1, Len(handedOut'))
         /\ RecordsRead' /\ UNCHANGED remain
<1> DEFINE h == Len(handedOut)
           b == h + Len(leftover) + 1
           s == Tail(delivered)
           w == s \o inFlight
           x == delivered[1]
<1>1. /\ leftover = <<>> /\ delivered # <<>> /\ x.kind # "opening"
      /\ Frames!HandOutOf(m, Frames!Opens(x))
      /\ openCount' = (openCount + 1) % Counters
      /\ delivered' = s /\ remain' = remain
  BY DEF Frames!ReadRecord
<1>2. h \in Nat /\ b = h + 1
  <2>1. h \in Nat
    BY LenProperties DEF FramesTypes
  <2>2. Len(leftover) = 0
    BY <1>1
  <2> HIDE DEF h
  <2> QED
    BY <2>1, <2>2
<1>3. /\ s \in Seq(Records) /\ inFlight \in Seq(Records) /\ x \in Records
      /\ \E y, z : /\ \E g, e : /\ Recorded(w, g, e)
                                /\ g[0] = y /\ g[Len(w)] = wrote + 1
                                /\ e[0] = z /\ e[Len(w)] = sealCount
                   /\ IF x.kind = "opening"
                      THEN y = b /\ z = openCount
                      ELSE /\ x.nonce = openCount /\ z = (openCount + 1) % Counters
                           /\ \E k \in Nat : x.value = Frames!TokensFrom(b, k) /\ y = b + k
  BY <1>1, RecordFront
<1> HIDE DEF b, w
<1>4. PICK y, z : /\ \E g, e : /\ Recorded(w, g, e)
                               /\ g[0] = y /\ g[Len(w)] = wrote + 1
                               /\ e[0] = z /\ e[Len(w)] = sealCount
                  /\ x.nonce = openCount /\ z = (openCount + 1) % Counters
                  /\ \E k \in Nat : x.value = Frames!TokensFrom(b, k) /\ y = b + k
  BY <1>1, <1>3
<1>5. PICK k \in Nat : x.value = Frames!TokensFrom(b, k) /\ y = b + k
  BY <1>4
<1>6. Frames!HandOutOf(m, Frames!TokensFrom(h + 1, k))
  BY <1>1, <1>2, <1>4, <1>5 DEF Frames!Opens
<1>7. /\ handedOut' \in Seq(Nat) /\ handedOut' = Frames!TokensFrom(1, Len(handedOut'))
      /\ leftover' \in Seq(Nat)
      /\ leftover' = Frames!TokensFrom(Len(handedOut') + 1, Len(leftover'))
      /\ Len(handedOut') + Len(leftover') + 1 = y
  <2>1. h = Len(handedOut)
    OBVIOUS
  <2> HIDE DEF h
  <2>2. (h + 1) + k = y
    BY <1>2, <1>5
  <2> QED
    BY <1>2, <1>6, <2>1, <2>2, PartHandedOut
<1>8. /\ delivered' = s /\ inFlight' = inFlight /\ wrote' = wrote /\ sealCount' = sealCount
      /\ openCount' = z
  BY <1>1, <1>4
<1>9. \E g, e : /\ Recorded(delivered' \o inFlight', g, e)
                /\ g[0] = Len(handedOut') + Len(leftover') + 1
                /\ g[Len(delivered' \o inFlight')] = wrote' + 1
                /\ e[0] = openCount' /\ e[Len(delivered' \o inFlight')] = sealCount'
  BY <1>4, <1>7, <1>8 DEF w
<1>10. remain' = 0 /\ toCut' = 0 /\ sealCount' \in Nat
  BY <1>1, <1>8 DEF RecordsRead
<1> QED
  BY <1>1, <1>3, <1>7, <1>8, <1>9, <1>10 DEF RecordsRead, CarriesRecords

LEMMA OpeningRead ==
  ASSUME FramesTypes, RecordsRead, Frames!ReadOpening,
         UNCHANGED <<framing, wrote, firstDue, toCut, inFlight, sealCount>>
  PROVE  RecordsRead'
<1> DEFINE b == Len(handedOut) + Len(leftover) + 1
           s == Tail(delivered)
           w == s \o inFlight
           x == delivered[1]
<1>1. /\ delivered # <<>> /\ x.kind = "opening" /\ delivered' = s
      /\ UNCHANGED <<remain, leftover, openCount, handedOut>>
  BY DEF Frames!ReadOpening, Frames!Skip
<1>2. /\ s \in Seq(Records) /\ inFlight \in Seq(Records)
      /\ \E y, z : /\ \E g, e : /\ Recorded(w, g, e)
                                /\ g[0] = y /\ g[Len(w)] = wrote + 1
                                /\ e[0] = z /\ e[Len(w)] = sealCount
                   /\ IF x.kind = "opening"
                      THEN y = b /\ z = openCount
                      ELSE /\ x.nonce = openCount /\ z = (openCount + 1) % Counters
                           /\ \E k \in Nat : x.value = Frames!TokensFrom(b, k) /\ y = b + k
  BY <1>1, RecordFront
<1>3. b' = b /\ w = delivered' \o inFlight'
  BY <1>1
<1> HIDE DEF b, w
<1>4. \E g, e : /\ Recorded(w, g, e)
                /\ g[0] = b /\ g[Len(w)] = wrote + 1
                /\ e[0] = openCount /\ e[Len(w)] = sealCount
  BY <1>1, <1>2
<1>5. \E g, e : /\ Recorded(delivered' \o inFlight', g, e)
                /\ g[0] = b' /\ g[Len(delivered' \o inFlight')] = wrote' + 1
                /\ e[0] = openCount' /\ e[Len(delivered' \o inFlight')] = sealCount'
  BY <1>1, <1>3, <1>4
<1>6. /\ remain' = 0 /\ toCut' = 0 /\ sealCount' \in Nat
      /\ leftover' \in Seq(Nat)
      /\ leftover' = Frames!TokensFrom(Len(handedOut') + 1, Len(leftover'))
  BY <1>1 DEF RecordsRead
<1> QED
  BY <1>1, <1>2, <1>5, <1>6 DEF RecordsRead, CarriesRecords, b

LEMMA LeftoverRead ==
  ASSUME FramesTypes, RecordsRead, NEW m \in Nat, Frames!ReadLeftover(m),
         UNCHANGED <<framing, wrote, firstDue, toCut, inFlight, sealCount>>
  PROVE  /\ handedOut' \in Seq(Nat) /\ handedOut' = Frames!TokensFrom(1, Len(handedOut'))
         /\ RecordsRead' /\ UNCHANGED remain
<1> DEFINE h == Len(handedOut)
           k == Len(leftover)
           w == delivered \o inFlight
<1>1. h \in Nat /\ k \in Nat
  BY LenProperties DEF FramesTypes, RecordsRead
<1>2. /\ Frames!HandOutOf(m, Frames!TokensFrom(h + 1, k))
      /\ UNCHANGED <<delivered, remain, openCount>>
  BY DEF Frames!ReadLeftover, RecordsRead
<1>3. h = Len(handedOut)
  OBVIOUS
<1>4. \E g, e : /\ Recorded(w, g, e)
                /\ g[0] = h + k + 1 /\ g[Len(w)] = wrote + 1
                /\ e[0] = openCount /\ e[Len(w)] = sealCount
  BY DEF RecordsRead, CarriesRecords
<1> HIDE DEF h, k, w
<1>5. /\ handedOut' \in Seq(Nat) /\ handedOut' = Frames!TokensFrom(1, Len(handedOut'))
      /\ leftover' \in Seq(Nat)
      /\ leftover' = Frames!TokensFrom(Len(handedOut') + 1, Len(leftover'))
      /\ Len(handedOut') + Len(leftover') + 1 = (h + 1) + k
  BY <1>1, <1>2, <1>3, PartHandedOut
<1>6. (h + 1) + k = h + k + 1
  BY <1>1
<1>7. w = delivered' \o inFlight'
  BY <1>2 DEF w
<1>8. \E g, e : /\ Recorded(delivered' \o inFlight', g, e)
                /\ g[0] = Len(handedOut') + Len(leftover') + 1
                /\ g[Len(delivered' \o inFlight')] = wrote' + 1
                /\ e[0] = openCount' /\ e[Len(delivered' \o inFlight')] = sealCount'
  BY <1>2, <1>4, <1>5, <1>6, <1>7
<1>9. /\ remain' = 0 /\ toCut' = 0 /\ sealCount' \in Nat
      /\ delivered' \in Seq(Records) /\ inFlight' \in Seq(Records)
  BY <1>2 DEF RecordsRead, CarriesRecords
<1> QED
  BY <1>2, <1>5, <1>8, <1>9 DEF RecordsRead, CarriesRecords

-----------------------------------------------------------------------------
(* What a write, and the network, make of what is under way.               *)
LEMMA FramesCarried ==
  ASSUME FramesTypes, FramesRead, NEW q, q = inFlight', NEW y, Carries(q, y), y = ToWrite',
         UNCHANGED <<framing, delivered, remain, leftover, openCount, handedOut>>
  PROVE  FramesRead'
<1>1. PICK f : /\ Framed(delivered \o q, f, remain)
               /\ ToRead(f[0]) /\ f[Len(delivered \o q)] = y
  BY DEF Carries
<1>2. ToRead(f[0])'
  BY <1>1 DEF ToRead
<1> QED
  BY <1>1, <1>2 DEF FramesRead, Carries

LEMMA RecordsCarried ==
  ASSUME FramesTypes, RecordsRead, NEW q, q = inFlight', NEW y, CarriesRecords(q, y, sealCount'),
         y = wrote' + 1, toCut' = 0, sealCount' \in Nat,
         UNCHANGED <<framing, delivered, remain, leftover, openCount, handedOut>>
  PROVE  RecordsRead'
BY DEF RecordsRead, CarriesRecords

LEMMA Written ==
  ASSUME FramesTypes, framing \notin Frames!Sealing, FramesRead,
         NEW n \in Nat, Frames!Write(n)
  PROVE  FramesTypes' /\ FramesRead'
<1>1. /\ toCut = 0 /\ wrote' = wrote + n /\ ~firstDue'
      /\ UNCHANGED <<framing, delivered, remain, leftover, openCount, handedOut>>
      /\ IF ~firstDue THEN Frames!WriteFrames(<<>>, wrote + 1, n)
         ELSE IF framing = "shadow" THEN Frames!Summed(n)
         ELSE Frames!WriteFrames(<<Frames!Opening>>, wrote + 1, n)
  BY DEF Frames!Write
<1>2. /\ wrote \in Nat /\ firstDue \in BOOLEAN
      /\ firstDue => wrote = 0
  BY DEF FramesTypes
<1>0. wrote' = wrote + n
  BY <1>1
<1>3. wrote' \in Nat /\ wrote + 1 \in Nat /\ n + 1 \in Nat /\ 0 \in Nat
  BY <1>0, <1>2
<1>4. /\ toCut' \in Nat /\ toCut' <= wrote' + 1
      /\ Carries(inFlight', wrote' + 1 - toCut')
  <2>1. CASE firstDue /\ framing = "shadow"
    <3>1. Frames!WriteFrames(<<>>, 0, n + 1)
      BY <1>1, <2>1 DEF Frames!Summed
    <3>2. 0 = ToWrite
      BY <2>1 DEF ToWrite
    <3>3. /\ toCut' \in Nat /\ toCut' <= n + 1
          /\ Carries(inFlight', 0 + (n + 1) - toCut')
      BY <1>1, <1>3, <3>1, <3>2, WritesFrames
    <3>4. wrote' + 1 = n + 1 /\ 0 + (n + 1) - toCut' = wrote' + 1 - toCut'
      BY <1>0, <1>2, <2>1, <3>3
    <3> QED
      BY <3>3, <3>4
  <2>2. CASE ~(firstDue /\ framing = "shadow")
    <3>1. PICK opening \in {<<>>, <<Frames!Opening>>} : Frames!WriteFrames(opening, wrote + 1, n)
      BY <1>1, <1>2, <2>2
    <3>2. wrote + 1 = ToWrite
      BY <1>1, <1>2, <2>2 DEF ToWrite
    <3>3. /\ toCut' \in Nat /\ toCut' <= n
          /\ Carries(inFlight', (wrote + 1) + n - toCut')
      BY <1>1, <1>3, <3>1, <3>2, WritesFrames
    <3>4. toCut' <= wrote' + 1 /\ (wrote + 1) + n - toCut' = wrote' + 1 - toCut'
      BY <1>0, <1>2, <3>3
    <3> QED
      BY <3>3, <3>4
  <2> QED
    BY <2>1, <2>2
<1>5. ToWrite' = wrote' + 1 - toCut'
  BY <1>1 DEF ToWrite
<1>6. FramesRead'
  BY <1>1, <1>4, <1>5, FramesCarried
<1>7. FramesTypes'
  <2>1. /\ remain \in Nat /\ handedOut \in Seq(Nat)
        /\ handedOut = Frames!TokensFrom(1, Len(handedOut))
    BY DEF FramesTypes
  <2>2. firstDue' = FALSE
    BY DEF Frames!Write
  <2> QED
    BY <1>1, <1>3, <1>4, <2>1, <2>2 DEF FramesTypes
<1> QED
  BY <1>6, <1>7

LEMMA RecordsWritten ==
  ASSUME FramesTypes, framing \in Frames!Sealing, RecordsRead,
         NEW n \in Nat, Frames!Write(n)
  PROVE  FramesTypes' /\ RecordsRead'
<1>1. /\ toCut = 0 /\ wrote' = wrote + n /\ firstDue' = FALSE
      /\ UNCHANGED <<framing, delivered, remain, leftover, openCount, handedOut>>
      /\ IF ~firstDue THEN Frames!WriteFrames(<<>>, wrote + 1, n)
         ELSE IF framing = "shadow" THEN Frames!Summed(n)
         ELSE Frames!WriteFrames(<<Frames!Opening>>, wrote + 1, n)
  BY DEF Frames!Write
<1>2. wrote \in Nat /\ wrote' \in Nat /\ firstDue \in BOOLEAN
  BY <1>1 DEF FramesTypes
<1>3. framing # "shadow"
  BY DEF Frames!Sealing
<1>4. PICK opening \in {<<>>, <<Frames!Opening>>} : Frames!WriteFrames(opening, wrote + 1, n)
  BY <1>1, <1>2, <1>3
<1>5. /\ toCut' = 0 /\ sealCount' \in Nat
      /\ CarriesRecords(inFlight', wrote + n + 1, sealCount')
  BY <1>4, SealsRecord
<1>6. wrote + n + 1 = wrote' + 1
  BY <1>1
<1>7. RecordsRead'
  BY <1>1, <1>5, <1>6, RecordsCarried
<1>8. FramesTypes'
  <2>1. /\ remain \in Nat /\ handedOut \in Seq(Nat)
        /\ handedOut = Frames!TokensFrom(1, Len(handedOut))
    BY DEF FramesTypes
  <2>4. toCut' = 0 /\ wrote' \in Nat
    BY <1>2, <1>5
  <2>5. \A x \in Nat : 0 \in Nat /\ 0 <= x + 1
    OBVIOUS
  <2>2. toCut' \in Nat /\ toCut' <= wrote' + 1
    BY ONLY <2>4, <2>5
  <2>3. /\ remain' \in Nat /\ handedOut' \in Seq(Nat)
        /\ handedOut' = Frames!TokensFrom(1, Len(handedOut'))
    BY <1>1, <2>1
  <2> QED
    BY <1>1, <1>2, <2>2, <2>3 DEF FramesTypes
<1> QED
  BY <1>7, <1>8

LEMMA ChunkWritten ==
  ASSUME FramesTypes, FramesRead, Frames!WriteChunk
  PROVE  FramesTypes' /\ FramesRead'
<1> DEFINE a == Frames!Least(MaxFrame, toCut)
           t == wrote + 1 - toCut
<1>1. /\ toCut > 0 /\ toCut' = toCut - a
      /\ inFlight' = inFlight \o Frames!Frame(Frames!TokensFrom(t, a))
      /\ UNCHANGED <<framing, wrote, firstDue, delivered, remain, leftover, openCount, handedOut>>
  BY DEF Frames!WriteChunk
<1>2. /\ wrote \in Nat /\ toCut \in Nat /\ toCut <= wrote + 1 /\ firstDue \in BOOLEAN
      /\ firstDue => toCut = 0
      /\ remain \in Nat /\ delivered \in Seq(FrameItems) /\ Carries(inFlight, ToWrite)
  BY DEF FramesTypes, FramesRead
<1>3. ~firstDue /\ t \in Nat
  BY <1>1, <1>2
<1>4. a \in Nat /\ a <= toCut
  BY <1>2, LeastIs, FramesAssumption
<1>5. ToWrite = t
  BY <1>3 DEF ToWrite
<1> HIDE DEF a, t
<1>6. Carries(inFlight', t + a)
  <2>1. Carries(inFlight, t)
    BY <1>2, <1>5
  <2>2. Carries(inFlight \o Frames!Frame(Frames!TokensFrom(t, a)), t + a)
    BY <1>2, <1>3, <1>4, <2>1, CarriesFrame
  <2> QED
    BY <1>1, <2>2
<1>7. toCut' \in Nat /\ toCut' <= wrote + 1 /\ wrote + 1 - toCut' = t + a
  BY <1>1, <1>2, <1>4 DEF t
<1>8. ToWrite' = t + a
  <2>1. ~firstDue' /\ wrote' = wrote
    BY <1>1, <1>3
  <2> QED
    BY <1>7, <2>1 DEF ToWrite
<1>9. FramesRead'
  BY <1>1, <1>6, <1>8, FramesCarried
<1>10. FramesTypes'
  <2>1. ~firstDue' /\ firstDue' \in BOOLEAN
    BY <1>1, <1>2, <1>3
  <2> QED
    BY <1>1, <1>7, <2>1 DEF FramesTypes
<1> QED
  BY <1>9, <1>10

LEMMA BuffersWritten ==
  ASSUME FramesTypes, FramesRead, framing \notin Frames!Sealing,
         NEW n \in Nat, Frames!WriteBuffers(n), ~merged'
  PROVE  FramesTypes' /\ FramesRead'
<1>1. /\ toCut = 0 /\ wrote' = wrote + n /\ firstDue' = FALSE
      /\ UNCHANGED <<framing, delivered, remain, leftover, openCount, handedOut>>
  BY DEF Frames!WriteBuffers
<1>2. /\ wrote \in Nat /\ firstDue \in BOOLEAN
      /\ firstDue => wrote = 0 /\ framing \in Frames!Opened
      /\ remain \in Nat /\ delivered \in Seq(FrameItems) /\ Carries(inFlight, ToWrite)
      /\ handedOut \in Seq(Nat) /\ handedOut = Frames!TokensFrom(1, Len(handedOut))
  BY DEF FramesTypes, FramesRead
<1>0. wrote' = wrote + n /\ wrote \in Nat
  BY <1>1, <1>2
<1>3. wrote' \in Nat /\ wrote + 1 \in Nat /\ n + 1 \in Nat /\ 0 \in Nat
  BY <1>0
<1>4. /\ toCut' \in Nat /\ toCut' <= wrote' + 1
      /\ Carries(inFlight', wrote' + 1 - toCut')
  <2>1. CASE firstDue
    <3>1. framing = "shadow"
      BY <1>2, <2>1 DEF Frames!Opened, Frames!WriteBuffers
    <3>2. Frames!WriteFrames(<<>>, 0, n + 1)
      BY <2>1 DEF Frames!WriteBuffers, Frames!Summed
    <3>3. 0 = ToWrite
      BY <2>1, <3>1 DEF ToWrite
    <3>4. /\ toCut' \in Nat /\ toCut' <= n + 1
          /\ Carries(inFlight', 0 + (n + 1) - toCut')
      BY <1>1, <1>3, <3>2, <3>3, WritesFrames
    <3>5. wrote = 0
      BY <1>2, <2>1
    <3>6. wrote' + 1 = n + 1 /\ 0 + (n + 1) - toCut' = wrote' + 1 - toCut'
      BY <1>0, <3>4, <3>5
    <3> QED
      BY <3>4, <3>6
  <2>2. CASE ~firstDue
    <3>1. /\ inFlight' = inFlight \o Frames!Frame(Frames!TokensFrom(wrote + 1, n))
          /\ toCut' = toCut
      BY <2>2 DEF Frames!WriteBuffers
    <3>2. ToWrite = wrote + 1
      BY <1>0, <1>1, <2>2 DEF ToWrite
    <3>3. Carries(inFlight, wrote + 1)
      BY <1>2, <3>2
    <3>4. Carries(inFlight', (wrote + 1) + n)
      <4>1. Carries(inFlight \o Frames!Frame(Frames!TokensFrom(wrote + 1, n)), (wrote + 1) + n)
        BY <1>2, <1>3, <3>3, CarriesFrame
      <4> QED
        BY <3>1, <4>1
    <3>5. toCut' = 0 /\ (wrote + 1) + n = wrote' + 1 - toCut' /\ toCut' <= wrote' + 1
      BY <1>0, <1>1, <3>1
    <3> QED
      BY <3>4, <3>5
  <2> QED
    BY <1>2, <2>1, <2>2
<1>5. ToWrite' = wrote' + 1 - toCut'
  BY <1>1 DEF ToWrite
<1>6. FramesRead'
  BY <1>1, <1>4, <1>5, FramesCarried
<1>7. FramesTypes'
  BY <1>1, <1>2, <1>3, <1>4 DEF FramesTypes
<1> QED
  BY <1>6, <1>7

LEMMA PingSent ==
  ASSUME FramesTypes, FramesRead, Frames!SendPing
  PROVE  FramesTypes' /\ FramesRead'
<1>1. /\ framing = "ws" /\ inFlight = <<>> /\ inFlight' = <<Frames!Ping>>
      /\ UNCHANGED <<framing, wrote, firstDue, toCut, delivered, remain, leftover, openCount,
                     handedOut>>
  BY DEF Frames!SendPing, Frames!Quiet
<1>2. remain \in Nat /\ delivered \in Seq(FrameItems) /\ Carries(inFlight, ToWrite)
  BY DEF FramesTypes, FramesRead
<1>3. ToWrite \in Nat
  <2>1. wrote \in Nat /\ toCut \in Nat /\ toCut <= wrote + 1
    BY DEF FramesTypes
  <2> QED
    BY <2>1 DEF ToWrite
<1>4. Carries(inFlight', ToWrite)
  <2>1. Carries(inFlight \o <<Frames!Ping>>, ToWrite)
    BY <1>2, <1>3, CarriesItem
  <2>2. <<Frames!Ping>> \in Seq(FrameItems)
    BY ItemsAre
  <2>3. <<>> \o <<Frames!Ping>> = <<Frames!Ping>>
    BY <2>2, ConcatEmptySeq
  <2> QED
    BY <1>1, <2>1, <2>3
<1>5. ToWrite' = ToWrite
  BY <1>1 DEF ToWrite
<1>6. FramesRead'
  BY <1>1, <1>4, <1>5, FramesCarried
<1> QED
  BY <1>1, <1>6 DEF FramesTypes

LEMMA FramesMoved ==
  ASSUME FramesTypes, FramesRead, Frames!Deliver
  PROVE  FramesRead'
<1>1. /\ delivered \in Seq(FrameItems) /\ inFlight \in Seq(FrameItems)
      /\ UNCHANGED <<framing, wrote, firstDue, toCut, remain, leftover, handedOut>>
  BY DEF FramesRead, Carries, Frames!Deliver
<1>2. PICK n \in 1 .. Len(inFlight) :
        /\ delivered' = delivered \o SubSeq(inFlight, 1, n)
        /\ inFlight' = SubSeq(inFlight, n + 1, Len(inFlight))
  BY DEF Frames!Deliver
<1>3. /\ delivered' \in Seq(FrameItems) /\ inFlight' \in Seq(FrameItems)
      /\ delivered' \o inFlight' = delivered \o inFlight
  BY <1>1, <1>2, PieceDelivered
<1>4. PICK f : /\ Framed(delivered \o inFlight, f, remain)
               /\ ToRead(f[0]) /\ f[Len(delivered \o inFlight)] = ToWrite
  BY DEF FramesRead, Carries
<1>5. ToRead(f[0])' /\ ToWrite' = ToWrite
  BY <1>1, <1>4 DEF ToRead, ToWrite
<1>6. leftover' = <<>>
  BY <1>1 DEF FramesRead
<1> QED
  BY <1>1, <1>3, <1>4, <1>5, <1>6 DEF FramesRead, Carries

LEMMA RecordsMoved ==
  ASSUME FramesTypes, RecordsRead, Frames!Deliver
  PROVE  RecordsRead'
<1>1. /\ delivered \in Seq(Records) /\ inFlight \in Seq(Records)
      /\ UNCHANGED <<wrote, toCut, remain, leftover, sealCount, openCount, handedOut>>
  BY DEF RecordsRead, CarriesRecords, Frames!Deliver
<1>2. PICK n \in 1 .. Len(inFlight) :
        /\ delivered' = delivered \o SubSeq(inFlight, 1, n)
        /\ inFlight' = SubSeq(inFlight, n + 1, Len(inFlight))
  BY DEF Frames!Deliver
<1>3. /\ delivered' \in Seq(Records) /\ inFlight' \in Seq(Records)
      /\ delivered' \o inFlight' = delivered \o inFlight
  BY <1>1, <1>2, PieceDelivered
<1> QED
  BY <1>1, <1>3 DEF RecordsRead, CarriesRecords

-----------------------------------------------------------------------------
(* What FramesInv says while nothing was merged.                           *)
FramesOpen ==
  /\ FramesTypes
  /\ framing \notin Frames!Sealing => FramesRead
  /\ framing \in Frames!Sealing => RecordsRead

LEMMA FramesReadKept ==
  ASSUME FramesOpen, Frames!Read
  PROVE  FramesOpen'
<1>1. /\ FramesTypes
      /\ UNCHANGED <<framing, wrote, firstDue, toCut, inFlight, sealCount, merged>>
  BY DEF FramesOpen, Frames!Read
<1>2. ASSUME remain' \in Nat, handedOut' \in Seq(Nat),
             handedOut' = Frames!TokensFrom(1, Len(handedOut'))
      PROVE  FramesTypes'
  BY <1>1, <1>2 DEF FramesTypes
<1>3. remain \in Nat /\ handedOut \in Seq(Nat) /\ handedOut = Frames!TokensFrom(1, Len(handedOut))
  BY <1>1 DEF FramesTypes
<1>4. \A m \in 1 .. MaxBuffer : m \in Nat
  BY FramesAssumption
<1>5. CASE framing \notin Frames!Sealing
  <2>1. FramesRead /\ framing' \notin Frames!Sealing
    BY <1>1, <1>5 DEF FramesOpen
  <2>2. /\ remain' \in Nat /\ handedOut' \in Seq(Nat)
        /\ handedOut' = Frames!TokensFrom(1, Len(handedOut'))
        /\ FramesRead'
    <3>1. ASSUME NEW kind \in {"ping", "opening"}, Frames!Skip(kind)
          PROVE  /\ remain' \in Nat /\ handedOut' \in Seq(Nat)
                 /\ handedOut' = Frames!TokensFrom(1, Len(handedOut'))
                 /\ FramesRead'
      <4>1. FramesRead'
        BY <1>1, <2>1, <3>1, Skipped
      <4>2. remain' = remain /\ handedOut' = handedOut
        BY <3>1 DEF Frames!Skip
      <4> QED
        BY <1>3, <4>1, <4>2
    <3>2. ASSUME NEW m \in 1 .. MaxBuffer, Frames!ReadRest(m)
          PROVE  /\ remain' \in Nat /\ handedOut' \in Seq(Nat)
                 /\ handedOut' = Frames!TokensFrom(1, Len(handedOut'))
                 /\ FramesRead'
      BY <1>1, <1>4, <2>1, <3>2, RestRead
    <3>3. ASSUME NEW m \in 1 .. MaxBuffer, Frames!ReadFrame(m)
          PROVE  /\ remain' \in Nat /\ handedOut' \in Seq(Nat)
                 /\ handedOut' = Frames!TokensFrom(1, Len(handedOut'))
                 /\ FramesRead'
      BY <1>1, <1>4, <2>1, <3>3, FrameRead
    <3>4. ASSUME NEW m \in 1 .. MaxBuffer, Frames!ReadRecord(m) \/ Frames!ReadLeftover(m)
          PROVE  FALSE
      BY <1>5, <2>1, <3>4 DEF Frames!ReadRecord, Frames!ReadLeftover, FramesRead
    <3> QED
      BY <3>1, <3>2, <3>3, <3>4 DEF Frames!Read, Frames!SkipPing, Frames!ReadOpening
  <2> QED
    BY <1>2, <2>1, <2>2 DEF FramesOpen
<1>6. CASE framing \in Frames!Sealing
  <2>1. RecordsRead /\ framing' \in Frames!Sealing
    BY <1>1, <1>6 DEF FramesOpen
  <2>2. /\ remain' \in Nat /\ handedOut' \in Seq(Nat)
        /\ handedOut' = Frames!TokensFrom(1, Len(handedOut'))
        /\ RecordsRead'
    <3>1. CASE Frames!SkipPing
      <4>1. delivered # <<>> /\ delivered[1].kind = "ping"
        BY <3>1 DEF Frames!SkipPing, Frames!Skip
      <4>2. delivered[1] \in Records
        BY <2>1, <4>1, RecordFront
      <4> QED
        BY <4>1, <4>2, SealedAre
    <3>2. CASE Frames!ReadOpening
      <4>1. RecordsRead'
        BY <1>1, <2>1, <3>2, OpeningRead
      <4>2. remain' = remain /\ handedOut' = handedOut
        BY <3>2 DEF Frames!ReadOpening, Frames!Skip
      <4> QED
        BY <1>3, <4>1, <4>2
    <3>3. ASSUME NEW m \in 1 .. MaxBuffer, Frames!ReadRest(m) \/ Frames!ReadFrame(m)
          PROVE  FALSE
      <4>1. remain = 0
        BY <2>1 DEF RecordsRead
      <4> QED
        BY <1>6, <3>3, <4>1 DEF Frames!ReadRest, Frames!ReadFrame
    <3>4. ASSUME NEW m \in 1 .. MaxBuffer, Frames!ReadRecord(m)
          PROVE  /\ remain' \in Nat /\ handedOut' \in Seq(Nat)
                 /\ handedOut' = Frames!TokensFrom(1, Len(handedOut'))
                 /\ RecordsRead'
      BY <1>1, <1>3, <1>4, <2>1, <3>4, RecordOpened
    <3>5. ASSUME NEW m \in 1 .. MaxBuffer, Frames!ReadLeftover(m)
          PROVE  /\ remain' \in Nat /\ handedOut' \in Seq(Nat)
                 /\ handedOut' = Frames!TokensFrom(1, Len(handedOut'))
                 /\ RecordsRead'
      BY <1>1, <1>3, <1>4, <2>1, <3>5, LeftoverRead
    <3> QED
      BY <3>1, <3>2, <3>3, <3>4, <3>5 DEF Frames!Read
  <2> QED
    BY <1>2, <2>1, <2>2 DEF FramesOpen
<1> QED
  BY <1>5, <1>6

LEMMA FramesWrittenKept ==
  ASSUME FramesOpen, NEW n \in Nat,
         Frames!Write(n) \/ Frames!WriteBuffers(n) \/ Frames!WriteChunk \/ Frames!SendPing,
         ~merged'
  PROVE  FramesOpen'
<1>1. FramesTypes /\ framing' = framing
  BY DEF FramesOpen, Frames!Write, Frames!WriteBuffers, Frames!WriteChunk, Frames!SendPing
<1>2. CASE framing \notin Frames!Sealing
  <2>1. FramesRead
    BY <1>2 DEF FramesOpen
  <2>2. FramesTypes' /\ FramesRead'
    BY <1>1, <1>2, <2>1, Written, BuffersWritten, ChunkWritten, PingSent
  <2> QED
    BY <1>1, <1>2, <2>2 DEF FramesOpen
<1>3. CASE framing \in Frames!Sealing
  <2>1. RecordsRead /\ toCut = 0
    BY <1>3 DEF FramesOpen, RecordsRead
  <2>2. Frames!Write(n)
    BY <1>3, <2>1 DEF Frames!Sealing, Frames!WriteBuffers, Frames!WriteChunk, Frames!SendPing
  <2>3. FramesTypes' /\ RecordsRead'
    BY <1>1, <1>3, <2>1, <2>2, RecordsWritten
  <2> QED
    BY <1>1, <1>3, <2>3 DEF FramesOpen
<1> QED
  BY <1>2, <1>3

LEMMA FramesMovedKept ==
  ASSUME FramesOpen, Frames!Deliver
  PROVE  FramesOpen'
<1>1. /\ FramesTypes
      /\ UNCHANGED <<framing, wrote, firstDue, toCut, remain, handedOut>>
  BY DEF FramesOpen, Frames!Deliver
<1>2. FramesTypes'
  BY <1>1 DEF FramesTypes
<1> QED
  BY <1>1, <1>2, FramesMoved, RecordsMoved DEF FramesOpen

LEMMA FramesStep ==
  ASSUME FramesInv, Frames!Next
  PROVE  FramesInv'
<1>1. CASE merged'
  BY <1>1 DEF FramesInv
<1>2. CASE ~merged'
  <2>1. ~merged
    <3>1. CASE merged
      BY <1>2, <3>1 DEF Frames!Next, Frames!Write, Frames!WriteBuffers, Frames!WriteChunk,
                        Frames!SendPing, Frames!Deliver, Frames!Read
    <3> QED
      BY <3>1
  <2>2. FramesOpen
    BY <2>1 DEF FramesInv, FramesOpen
  <2>3. FramesOpen'
    <3>1. ASSUME NEW n \in 0 .. MaxTokens - wrote, Frames!Write(n) \/ Frames!WriteBuffers(n)
          PROVE  FramesOpen'
      <4>1. n \in Nat
        BY FramesAssumption, <2>2 DEF FramesOpen, FramesTypes
      <4> QED
        BY <1>2, <2>2, <3>1, <4>1, FramesWrittenKept
    <3>2. CASE Frames!WriteChunk \/ Frames!SendPing
      <4>1. 0 \in Nat
        OBVIOUS
      <4> QED
        BY <1>2, <2>2, <3>2, <4>1, FramesWrittenKept
    <3> QED
      BY <2>2, <3>1, <3>2, FramesMovedKept, FramesReadKept DEF Frames!Next
  <2> QED
    BY <2>3 DEF FramesInv, FramesOpen
<1> QED
  BY <1>1, <1>2

LEMMA FramesStart ==
  ASSUME Frames!Init
  PROVE  FramesInv
<1> DEFINE y == IF framing = "shadow" THEN 0 ELSE 1
           f == [k \in Nat |-> y]
           c == [k \in Nat |-> 0]
           e == <<>> \o <<>>
<1>1. /\ wrote = 0 /\ toCut = 0 /\ remain = 0 /\ firstDue = (framing \in Frames!Opened)
      /\ inFlight = <<>> /\ delivered = <<>> /\ leftover = <<>> /\ handedOut = <<>>
      /\ sealCount = 0 /\ openCount = 0
  BY DEF Frames!Init
<1>2. /\ Len(e) = 0
      /\ <<>> \in Seq(Nat) /\ <<>> \in Seq(FrameItems) /\ <<>> \in Seq(Records)
  BY ConcatEmptySeq, EmptySeq
<1>3. <<>> = Frames!TokensFrom(1, 0)
  BY RangesAre, EmptySeq
<1>4. ToWrite = y /\ y \in Nat /\ ToRead(y)
  <2>1. "shadow" \in Frames!Opened
    BY DEF Frames!Opened
  <2>2. Len(handedOut) = 0
    BY <1>1
  <2>3. CASE framing = "shadow"
    <3>1. firstDue /\ y = 0
      BY <1>1, <2>1, <2>3
    <3> QED
      BY <2>2, <2>3, <3>1 DEF ToWrite, ToRead
  <2>4. CASE framing # "shadow"
    <3>1. y = 1 /\ wrote + 1 - toCut = 1 /\ Len(handedOut) + 1 = 1
      BY <1>1, <2>2, <2>4
    <3> HIDE DEF y
    <3> QED
      BY <2>4, <3>1 DEF ToWrite, ToRead
  <2> QED
    BY <2>3, <2>4
<1>5. FramesTypes
  <2>1. firstDue \in BOOLEAN /\ (firstDue => framing \in Frames!Opened)
    <3>1. firstDue = (framing \in Frames!Opened)
      BY <1>1
    <3>2. CASE framing \in Frames!Opened
      BY <3>1, <3>2, Zenon
    <3>3. CASE framing \notin Frames!Opened
      <4>1. (framing \in Frames!Opened) = FALSE
        BY <3>3
      <4>2. firstDue = FALSE
        BY <3>1, <4>1
      <4> QED
        BY <4>2
    <3> QED
      BY <3>2, <3>3
  <2>2. Len(handedOut) = 0 /\ 0 \in Nat /\ 0 <= 0 + 1
    BY <1>1
  <2>3. /\ handedOut \in Seq(Nat)
        /\ handedOut = Frames!TokensFrom(1, Len(handedOut))
    BY <1>1, <1>2, <1>3, <2>2
  <2> QED
    BY <1>1, <2>1, <2>2, <2>3 DEF FramesTypes
<1>6. f[0] = y /\ f \in [Nat -> Nat] /\ c[0] = 0
  BY <1>4
<1> HIDE DEF f, c, e
<1>7. CASE framing \notin Frames!Sealing
  <2>1. Framed(e, f, 0)
    BY <1>2, <1>6 DEF Framed, Run
  <2>2. Framed(e, f, 0) /\ ToRead(f[0]) /\ f[Len(e)] = ToWrite
    BY <1>2, <1>4, <1>6, <2>1
  <2>3. Carries(inFlight, ToWrite)
    BY <1>1, <1>2, <2>2 DEF Carries, e
  <2> QED
    BY <1>1, <1>2, <1>5, <1>7, <2>3 DEF FramesInv, FramesRead
<1>8. CASE framing \in Frames!Sealing
  <2>1. y = 1 /\ 1 = 0 + 0 + 1
    BY <1>8 DEF Frames!Sealing
  <2>2. Recorded(e, f, c)
    BY <1>2, <1>6 DEF Recorded
  <2>3. CarriesRecords(inFlight, wrote + 1, sealCount)
    <3>1. /\ Recorded(e, f, c) /\ f[0] = Len(handedOut) + Len(leftover) + 1
          /\ f[Len(e)] = wrote + 1 /\ c[0] = openCount /\ c[Len(e)] = sealCount
      BY <1>1, <1>2, <1>6, <2>1, <2>2
    <3> QED
      BY <1>1, <1>2, <3>1 DEF CarriesRecords, e
  <2>4. leftover = Frames!TokensFrom(Len(handedOut) + 1, Len(leftover))
    BY <1>1, <1>3
  <2> QED
    BY <1>1, <1>2, <1>5, <1>8, <2>3, <2>4 DEF FramesInv, RecordsRead
<1> QED
  BY <1>7, <1>8

LEMMA FramesKeeps ==
  ASSUME FramesInv
  PROVE  Frames!StreamKept
<1>1. CASE merged
  BY <1>1 DEF Frames!StreamKept
<1>2. CASE ~merged
  <2>1. handedOut \in Seq(Nat) /\ handedOut = Frames!TokensFrom(1, Len(handedOut))
    BY <1>2 DEF FramesInv, FramesTypes
  <2>2. Len(handedOut) \in Nat /\ \A i \in 1 .. Len(handedOut) : 1 + i - 1 = i
    BY <2>1, LenProperties
  <2>3. Frames!TokensFrom(1, Len(handedOut)) = [i \in 1 .. Len(handedOut) |-> i]
    BY <2>2 DEF Frames!TokensFrom
  <2> QED
    BY <2>1, <2>3 DEF Frames!StreamKept
<1> QED
  BY <1>1, <1>2

-----------------------------------------------------------------------------
(* The whole: a behaviour is about one part from its start on.             *)
Inv ==
  /\ part = "packets" => PacketInv
  /\ part = "lazy" => LazyInv
  /\ part = "socks5udp" => SocksInv
  /\ part = "copy" => CopyInv
  /\ part = "frames" => FramesInv

LEMMA InvStart ==
  ASSUME Init
  PROVE  Inv
<1>1. part = "packets" => PacketStream!Init
  BY DEF Init
<1>2. part = "lazy" => TlsLazy!Init
  BY DEF Init
<1>3. part = "socks5udp" => Socks5UDP!Init
  BY DEF Init
<1>4. part = "copy" => Copy!Init
  BY DEF Init
<1>5. part = "frames" => Frames!Init
  BY DEF Init
<1> QED
  BY <1>1, <1>2, <1>3, <1>4, <1>5, PacketStart, LazyStart, SocksStart, CopyStart, FramesStart
     DEF Inv

LEMMA InvStutters ==
  ASSUME Inv, UNCHANGED vars
  PROVE  Inv'
<1>1. UNCHANGED <<part, packetsVars, lazyVars, socksVars, copyVars, framesVars, underWay>>
  BY DEF vars
<1>2. ASSUME PacketInv PROVE PacketInv'
  <2>1. UNCHANGED <<format, lc_mutex, owed, written, wire, bufr, message, read, state>>
    BY <1>1 DEF packetsVars
  <2>2. PacketTypes' /\ OwedByHolder'
    BY <1>2, <2>1 DEF PacketInv, PacketTypes, OwedByHolder
  <2>3. AllFields' = AllFields
    BY <2>1, SameFields
  <2>4. AllUnderWay' = AllUnderWay
    BY <2>1 DEF AllUnderWay, StillOwed, Owing
  <2>5. state' = "open" => state = "open" /\ WithinOne'
    BY <1>2, <2>1, <2>3 DEF PacketInv, WithinOne
  <2> QED
    BY <1>2, <2>1, <2>2, <2>4, <2>5, SameStream
<1>3. LazyInv' = LazyInv
  <2>1. UNCHANGED <<dir, known, taken, writing, cut, announced, sender, sentCount, net, rawInput,
                    last, receiver, gotCount, found, forwarded>>
    BY <1>1 DEF lazyVars
  <2>2. WrittenTo' = WrittenTo /\ Room' = Room /\ LastIsLeft' = LastIsLeft
    BY <2>1 DEF WrittenTo, Room, LastIsLeft
  <2>3. ASSUME NEW c, NEW e PROVE Counted(c, e)' = Counted(c, e)
    BY <2>1, <2>2 DEF Counted
  <2>4. Under' = Under
    BY <2>1, <2>2, <2>3 DEF Under
  <2>5. Pending' = Pending /\ InOrder' = InOrder /\ GivenUp' = GivenUp /\ Switched' = Switched
    BY <2>1, <2>2 DEF Pending, InOrder, GivenUp, Switched
  <2>6. LazyTypes' = LazyTypes
    BY <2>1 DEF LazyTypes
  <2> QED
    BY <2>1, <2>4, <2>5, <2>6 DEF LazyInv
<1>4. SocksInv' = SocksInv
  BY <1>1 DEF socksVars, underWay, SocksInv, SocksTypes, ServedOnce, Answered
<1>5. CopyInv' = CopyInv
  <2>1. UNCHANGED <<reader, writer, useReadv, arrived, pos, left, headDue, lost, replyDue, big,
                    method, output, inside>>
    BY <1>1 DEF copyVars
  <2>2. /\ Copy!HeadLen' = Copy!HeadLen /\ Reply' = Reply
        /\ Copy!CanWSplice' = Copy!CanWSplice
        /\ Copy!CanSpliceEventually' = Copy!CanSpliceEventually
    BY <2>1 DEF Copy!HeadLen, Reply, Copy!ReplyByte, Copy!CanWSplice, Copy!CanSpliceEventually
  <2>3. Copy!Consumed' = Copy!Consumed
    BY <2>1, <2>2 DEF Copy!Consumed
  <2>4. CopyTypes' = CopyTypes /\ ReadSoFar' = ReadSoFar
    BY <2>1, <2>2 DEF CopyTypes, ReadSoFar
  <2>5. /\ ReadsBelow' = ReadsBelow /\ WritesBelow' = WritesBelow
        /\ FrameOpen' = FrameOpen /\ Losing' = Losing
    BY <2>1, <2>2, <2>3 DEF ReadsBelow, WritesBelow, FrameOpen, Losing
  <2> QED
    BY <2>1, <2>2, <2>3, <2>4, <2>5 DEF CopyInv
<1>6. FramesInv' = FramesInv
  <2>1. UNCHANGED <<framing, wrote, firstDue, toCut, inFlight, delivered, remain, leftover,
                    sealCount, openCount, handedOut, merged>>
    BY <1>1 DEF framesVars
  <2>2. FramesTypes' = FramesTypes /\ ToWrite' = ToWrite
    BY <2>1 DEF FramesTypes, ToWrite
  <2>3. FramesRead' = FramesRead
    BY <2>1, <2>2 DEF FramesRead, Carries, ToRead
  <2>4. RecordsRead' = RecordsRead
    BY <2>1 DEF RecordsRead, CarriesRecords
  <2> QED
    BY <2>1, <2>2, <2>3, <2>4 DEF FramesInv
<1> QED
  BY <1>1, <1>2, <1>3, <1>4, <1>5, <1>6 DEF Inv

LEMMA InvStep ==
  ASSUME Inv, Next
  PROVE  Inv'
<1>1. CASE Of("packets", PacketStream!Next)
  BY <1>1, PacketStep DEF Of, Inv
<1>2. CASE Of("lazy", TlsLazy!Next)
  BY <1>2, LazyStep DEF Of, Inv
<1>3. CASE Of("socks5udp", Socks5UDP!Next)
  BY <1>3, SocksStep DEF Of, Inv
<1>4. CASE Of("copy", Copy!Next)
  BY <1>4, CopyStep DEF Of, Inv
<1>5. CASE Of("frames", Frames!Next)
  BY <1>5, FramesStep DEF Of, Inv
<1>6. CASE Of("handshake", Handshakes!Next) \/ Of("shadow", ShadowTls!Next)
  <2>1. part \notin {"packets", "lazy", "socks5udp", "copy", "frames"} /\ part' = part
    BY <1>6 DEF Of
  <2> QED
    BY <2>1 DEF Inv
<1> QED
  BY <1>1, <1>2, <1>3, <1>4, <1>5, <1>6 DEF Next

LEMMA Invariance == Spec => []Inv
<1>1. Init => Inv
  BY InvStart
<1>2. Inv /\ [Next]_vars => Inv'
  BY InvStep, InvStutters
<1> QED
  BY <1>1, <1>2, PTL DEF Spec

(* The reader of a lazily encrypted connection switches to the bare        *)
(* connection exactly where the writer does, however the network cuts the  *)
(* records, for any counts of packets: whatever it has handed on is what   *)
(* was written, in that order.  It misses the command only when a packet   *)
(* was written in more records than one, and then it encrypts to the end.  *)
(* Left out are the switches of a receiver whose last buffer does not      *)
(* begin with the record of the command (tls_lazy.go,                      *)
(* GetTlsRecordNextIndex; sniff.go, CommonDetect).                         *)
THEOREM EndsSwitchTogether == Spec => []SwitchedAtOnce
<1>1. Inv => SwitchedAtOnce
  BY LazySwitches DEF Inv, SwitchedAtOnce
<1> QED
  BY <1>1, Invariance, PTL

(* Datagrams that many downlinks write to one stream are read whole, in    *)
(* the order of the lock, and each with the address it was written with,   *)
(* for every format, any number of downlinks and any cuts of the network   *)
(* (vless, trojan and simplesocks, ReadMsg and WriteMsg; relay.go,         *)
(* lc_mutex); and socks5 gives each request and reply the address it was   *)
(* sent with (socks5, ServerUDPConn).                                      *)
THEOREM DatagramsAreKept == Spec => []DatagramsKept
<1>1. Inv => DatagramsKept
  BY PacketsKept, SocksKeeps DEF Inv, DatagramsKept
<1> QED
  BY <1>1, Invariance, PTL

(* Whichever way a relay copies, and whenever it changes to the            *)
(* connections below the layers, the far end gets what was read, once and  *)
(* in order, for any number of tokens and any buffers (TryCopy,            *)
(* TryReadFrom_withSplice, WriteBuffers), unless io.Copy copies with a     *)
(* buffer too small for the first read of vless 0, the one way to lose     *)
(* some of it; a reader of frames returns what was written for any sizes   *)
(* of frames, buffers and pieces and any width of the counter (Read and    *)
(* Write of ws.Conn, commonPart, aeadReader, chunkedReader and             *)
(* FakeAppDataConn); and the handshake that a shadowTls server copies      *)
(* stays apart from the tunnel (shadowTls2, CopyTls12Handshake).           *)
THEOREM BytesKeepTheirOrder == Spec => []StreamKept
<1>1. Inv => (part = "copy" => Copy!StreamKept) /\ (part = "frames" => Frames!StreamKept)
  BY CopyKeeps, FramesKeeps DEF Inv
<1>2. Inv /\ (part = "shadow" => ShadowTls!StreamKept) => StreamKept
  BY <1>1 DEF StreamKept
<1> QED
  BY <1>2, Invariance, HandshakesStayApart, PTL
=============================================================================
