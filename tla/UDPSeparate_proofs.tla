-------------------------- MODULE UDPSeparate_proofs --------------------------
(***************************************************************************)
(* Proofs about UDPSeparate for any set of addresses and of channels: the  *)
(* types, that without a first payload no datagram goes astray, that a nil *)
(* channel is only met after a failed dialing, and that until something    *)
(* fails the end of lc leaves no channel open.                             *)
(***************************************************************************)
EXTENDS UDPSeparate, TLAPS

(* The state of every variable keeps to its type (relay_udp.go:199-308).   *)
(* The loop looks up and stores at the address of its datagram, and what   *)
(* it stores and writes to is a channel: a failed dialing ends the round.  *)
THEOREM TypeCorrect == Spec => []TypeOK
<1> USE FirstAssumption, RcsAssumption
<1>1. Init => TypeOK
  BY DEF Init, TypeOK, LoopHasAddr, LoopHasRc, LoopPCs, ReaderPCs
<1>2. TypeOK /\ [Next]_vars => TypeOK'
  <2> SUFFICES ASSUME TypeOK, [Next]_vars
               PROVE  TypeOK'
    OBVIOUS
  <2> USE DEF TypeOK, LoopHasAddr, LoopHasRc, LoopPCs, ReaderPCs, LoopAt, ReaderAt
  <2>1. CASE LoopRead
    BY <2>1 DEF LoopRead
  <2>2. CASE LoopLookup
    BY <2>2 DEF LoopLookup
  <2>3. CASE LoopDial
    <3>1. ASSUME NEW c \in Rcs, rc' = c, open' = open \cup {c}, loop' = "store",
                 target' = [target EXCEPT ![c] = IF payload THEN First ELSE raddr],
                 raddr' = raddr
          PROVE  TypeOK'
      <4>1. raddr \in Addrs
        BY <2>3 DEF LoopDial
      <4>2. target' \in [Rcs -> Addrs \cup {None}]
        BY <3>1, <4>1
      <4> QED
        BY <2>3, <3>1, <4>1, <4>2 DEF LoopDial
    <3>2. CASE rc' = None /\ raddr' = None /\ loop' = "read" /\ UNCHANGED <<target, open>>
      BY <2>3, <3>2 DEF LoopDial
    <3> QED
      BY <2>3, <3>1, <3>2 DEF LoopDial
  <2>4. CASE LoopStore
    BY <2>4 DEF LoopStore
  <2>5. CASE LoopWrite
    BY <2>5 DEF LoopWrite
  <2>6. ASSUME NEW c \in Rcs, ReaderStart(c) PROVE TypeOK'
    <3>1. reads' \in [Rcs -> Rcs \cup {None}] /\ reader' \in [Rcs -> ReaderPCs]
      BY <2>6 DEF ReaderStart
    <3>2. crashed' \in BOOLEAN
      BY <2>6 DEF ReaderStart
    <3> QED
      BY <2>6, <3>1, <3>2 DEF ReaderStart
  <2>7. ASSUME NEW c \in Rcs, ReaderError(c) PROVE TypeOK'
    BY <2>7 DEF ReaderError
  <2>8. ASSUME NEW c \in Rcs, ReaderDelete(c) PROVE TypeOK'
    BY <2>8 DEF ReaderDelete
  <2>9. ASSUME NEW c \in Rcs, ReaderClose(c) PROVE TypeOK'
    BY <2>9 DEF ReaderClose
  <2>10. CASE Terminated \/ UNCHANGED vars
    BY <2>10 DEF Terminated, vars
  <2> QED
    BY <2>1, <2>2, <2>3, <2>4, <2>5, <2>6,
       <2>7, <2>8, <2>9, <2>10 DEF Next, LoopLocal
<1> QED
  BY <1>1, <1>2, PTL DEF Spec

-----------------------------------------------------------------------------
(* Without a first payload every channel of the map, and the one the loop  *)
(* is about to store or to write to, was established for its address.      *)
MapOnTarget ==
  ~payload => /\ \A a \in Addrs : rcMap[a] # None => target[rcMap[a]] = a
              /\ loop \in {"store", "write"} => target[rc] = raddr

OwnTargetInv == MapOnTarget /\ OwnTargetWithoutPayload

(* The loop stores a channel only under the address it was dialled for.    *)
LEMMA OwnTargetStep ==
  ASSUME TypeOK, OwnTargetInv, [Next]_vars
  PROVE  OwnTargetInv'
<1> USE FirstAssumption, RcsAssumption
    DEF TypeOK, LoopHasAddr, LoopHasRc, LoopPCs, ReaderPCs, OwnTargetInv,
        MapOnTarget, OwnTargetWithoutPayload, OwnTarget, LoopAt, ReaderAt
<1>1. CASE LoopRead
  BY <1>1 DEF LoopRead
<1>2. CASE LoopLookup
  BY <1>2 DEF LoopLookup
<1>3. CASE LoopDial
  BY <1>3 DEF LoopDial
<1>4. CASE LoopStore
  BY <1>4 DEF LoopStore
<1>5. CASE LoopWrite
  BY <1>5 DEF LoopWrite
<1>6. ASSUME NEW c \in Rcs, ReaderStart(c) PROVE OwnTargetInv'
  BY <1>6 DEF ReaderStart
<1>7. ASSUME NEW c \in Rcs, ReaderError(c) PROVE OwnTargetInv'
  BY <1>7 DEF ReaderError
<1>8. ASSUME NEW c \in Rcs, ReaderDelete(c) PROVE OwnTargetInv'
  BY <1>8 DEF ReaderDelete
<1>9. ASSUME NEW c \in Rcs, ReaderClose(c) PROVE OwnTargetInv'
  BY <1>9 DEF ReaderClose
<1>10. CASE Terminated \/ UNCHANGED vars
  BY <1>10 DEF Terminated, vars
<1> QED
  BY <1>1, <1>2, <1>3, <1>4, <1>5, <1>6,
     <1>7, <1>8, <1>9, <1>10 DEF Next, LoopLocal

(* Without a first payload no datagram is written to a channel that the    *)
(* dialfunc of main.go:1783 established for another address.               *)
THEOREM OwnTargetSafe == Spec => []OwnTargetWithoutPayload
<1>1. Init => OwnTargetInv
  BY FirstAssumption, RcsAssumption
     DEF Init, OwnTargetInv, MapOnTarget, OwnTargetWithoutPayload, OwnTarget
<1>2. TypeOK /\ OwnTargetInv /\ [Next]_vars => OwnTargetInv'
  BY OwnTargetStep
<1>3. OwnTargetInv => OwnTargetWithoutPayload
  BY DEF OwnTargetInv
<1> QED
  BY <1>1, <1>2, <1>3, TypeCorrect, PTL DEF Spec

-----------------------------------------------------------------------------
(* rc is only set to nil where a dialing has failed, and only then is a    *)
(* method of it called while it is nil.                                    *)
LEMMA NilStep ==
  ASSUME TypeOK, NilOnlyAfterFailedDial, [Next]_vars
  PROVE  NilOnlyAfterFailedDial'
<1> USE RcsAssumption
    DEF TypeOK, LoopPCs, ReaderPCs, NilOnlyAfterFailedDial, LoopAt, ReaderAt
<1>1. CASE LoopRead
  BY <1>1 DEF LoopRead
<1>2. CASE LoopLookup
  BY <1>2 DEF LoopLookup
<1>3. CASE LoopDial
  BY <1>3 DEF LoopDial
<1>4. CASE LoopStore
  BY <1>4 DEF LoopStore
<1>5. CASE LoopWrite
  BY <1>5 DEF LoopWrite
<1>6. ASSUME NEW c \in Rcs, ReaderStart(c) PROVE NilOnlyAfterFailedDial'
  BY <1>6 DEF ReaderStart
<1>7. ASSUME NEW c \in Rcs, ReaderError(c) PROVE NilOnlyAfterFailedDial'
  BY <1>7 DEF ReaderError
<1>8. ASSUME NEW c \in Rcs, ReaderDelete(c) PROVE NilOnlyAfterFailedDial'
  BY <1>8 DEF ReaderDelete
<1>9. ASSUME NEW c \in Rcs, ReaderClose(c) PROVE NilOnlyAfterFailedDial'
  BY <1>9 DEF ReaderClose
<1>10. CASE Terminated \/ UNCHANGED vars
  BY <1>10 DEF Terminated, vars
<1> QED
  BY <1>1, <1>2, <1>3, <1>4, <1>5, <1>6,
     <1>7, <1>8, <1>9, <1>10 DEF Next, LoopLocal

(* The goroutines of relay_udp.go:249 and the handler meet a nil channel   *)
(* only after dialfunc has returned one.                                   *)
THEOREM NilSafe == Spec => []NilOnlyAfterFailedDial
<1>1. Init => NilOnlyAfterFailedDial
  BY RcsAssumption DEF Init, NilOnlyAfterFailedDial
<1>2. TypeOK /\ NilOnlyAfterFailedDial /\ [Next]_vars => NilOnlyAfterFailedDial'
  BY NilStep
<1> QED
  BY <1>1, <1>2, TypeCorrect, PTL DEF Spec

-----------------------------------------------------------------------------
(* The address the loop dials for has no channel in the map: nobody else   *)
(* stores one, so LoopStore overwrites nothing.                            *)
DialledIsAbsent ==
  loop \in {"dial", "store"} => raddr \in Addrs /\ rcMap[raddr] = None

(* A reader only deletes and closes after its channel has failed.          *)
ReaderLeavesInTrouble ==
  \A c \in Rcs : reader[c] \in {"delete", "close"} => trouble

(* Before that every open channel is in the map, or just dialled.          *)
OpenIsMapped ==
  ~trouble =>
    \A c \in open : (\E a \in Addrs : rcMap[a] = c) \/ (loop = "store" /\ rc = c)

NoneLeftInv ==
  /\ DialledIsAbsent
  /\ ReaderLeavesInTrouble
  /\ OpenIsMapped
  /\ NoneLeftUntilTrouble

(* Storing a channel overwrites none, and none leaves the map before a     *)
(* failure.                                                                *)
LEMMA NoneLeftStep ==
  ASSUME TypeOK, NoneLeftInv, [Next]_vars
  PROVE  NoneLeftInv'
<1> USE RcsAssumption
    DEF TypeOK, LoopHasAddr, LoopHasRc, LoopPCs, ReaderPCs, NoneLeftInv,
        DialledIsAbsent, ReaderLeavesInTrouble, OpenIsMapped, NoneLeftUntilTrouble,
        LoopAt, ReaderAt
<1>1. CASE LoopRead
  BY <1>1 DEF LoopRead
<1>2. CASE LoopLookup
  BY <1>2 DEF LoopLookup
<1>3. CASE LoopDial
  BY <1>3 DEF LoopDial
<1>4. CASE LoopStore
  BY <1>4 DEF LoopStore
<1>5. CASE LoopWrite
  BY <1>5 DEF LoopWrite
<1>6. ASSUME NEW c \in Rcs, ReaderStart(c) PROVE NoneLeftInv'
  BY <1>6 DEF ReaderStart
<1>7. ASSUME NEW c \in Rcs, ReaderError(c) PROVE NoneLeftInv'
  BY <1>7 DEF ReaderError
<1>8. ASSUME NEW c \in Rcs, ReaderDelete(c) PROVE NoneLeftInv'
  BY <1>8 DEF ReaderDelete
<1>9. ASSUME NEW c \in Rcs, ReaderClose(c) PROVE NoneLeftInv'
  BY <1>9 DEF ReaderClose
<1>10. CASE Terminated \/ UNCHANGED vars
  BY <1>10 DEF Terminated, vars
<1> QED
  BY <1>1, <1>2, <1>3, <1>4, <1>5, <1>6,
     <1>7, <1>8, <1>9, <1>10 DEF Next, LoopLocal

(* Until a channel or a dialing fails, the loop over the map at the end of *)
(* lc (relay_udp.go:283) closes every channel there is.                    *)
THEOREM NoneLeft == Spec => []NoneLeftUntilTrouble
<1>1. Init => NoneLeftInv
  BY FirstAssumption, RcsAssumption
     DEF Init, NoneLeftInv, DialledIsAbsent, ReaderLeavesInTrouble, OpenIsMapped,
         NoneLeftUntilTrouble
<1>2. TypeOK /\ NoneLeftInv /\ [Next]_vars => NoneLeftInv'
  BY NoneLeftStep
<1>3. NoneLeftInv => NoneLeftUntilTrouble
  BY DEF NoneLeftInv
<1> QED
  BY <1>1, <1>2, <1>3, TypeCorrect, PTL DEF Spec
=============================================================================
