--------------------------- MODULE QuicPool_proofs ---------------------------
(***************************************************************************)
(* Proofs about QuicPool for any finite set of requests, any connections,  *)
(* any limit of the server and any number of Close calls: the types, that  *)
(* no live connection is forgotten, and that no connection looks fuller    *)
(* than it is.                                                             *)
(***************************************************************************)
EXTENDS QuicPool, FiniteSetTheorems, TLAPS

(* Who is still to lower the count has set the flag.                       *)
FlaggedFirst == \A r \in Requests : leaving[r] > 0 => isclosed[r]

(* A request that works on a connection has one.                           *)
HasConn == \A r \in Requests :
             pc[r] \in PCs \ {"get", "dial", "failed"} => conn[r] \in dialled

(* The Close calls that are still to come and those under way.             *)
CloseBudget == \A r \in Requests : calls[r] + closing[r] + leaving[r] <= Closers

(* Nobody closes a stream before dialSubConn has returned it.              *)
ClosedAfterOpened ==
  \A r \in Requests : pc[r] # "stream" => closing[r] = 0 /\ leaving[r] = 0 /\ ~isclosed[r]

TypeInv == TypeOK /\ HasConn /\ CloseBudget /\ ClosedAfterOpened /\ FlaggedFirst

(* TypeOK alone is not inductive: a step on the connection of a request    *)
(* needs HasConn, a Close call needs the other two.                        *)
LEMMA TypeInvariance == Spec => []TypeInv
<1> USE NoneAssumption, ClosersAssumption
<1>1. Init => TypeInv
  BY DEF Init, TypeInv, TypeOK, HasConn, CloseBudget, ClosedAfterOpened, FlaggedFirst, PCs, Ended
<1>2. TypeInv /\ [Next]_vars => TypeInv'
  <2> SUFFICES ASSUME TypeInv, [Next]_vars
               PROVE  TypeInv'
    OBVIOUS
  <2> USE DEF TypeInv, TypeOK, HasConn, CloseBudget, ClosedAfterOpened, FlaggedFirst, PCs, Ended,
              At, Goto, Given, poolVars, streamVars
  <2>1. ASSUME NEW r \in Requests, GetAny(r) PROVE TypeInv'
    BY <2>1 DEF GetAny
  <2>2. ASSUME NEW r \in Requests, GetLeast(r) PROVE TypeInv'
    BY <2>2 DEF GetLeast, Least, Usable
  <2>3. ASSUME NEW r \in Requests, GetNone(r) PROVE TypeInv'
    BY <2>3 DEF GetNone, Usable
  <2>4. ASSUME NEW r \in Requests, Dial(r) PROVE TypeInv'
    BY <2>4 DEF Dial
  <2>5. ASSUME NEW r \in Requests, Insert(r) PROVE TypeInv'
    BY <2>5 DEF Insert
  <2>6. ASSUME NEW r \in Requests, Mark(r) PROVE TypeInv'
    BY <2>6 DEF Mark
  <2>7. ASSUME NEW r \in Requests, OpenOk(r) PROVE TypeInv'
    BY <2>7 DEF OpenOk, StreamsAt
  <2>8. ASSUME NEW r \in Requests, OpenFull(r) PROVE TypeInv'
    BY <2>8 DEF OpenFull, StreamsAt
  <2>9. ASSUME NEW r \in Requests, OpenFailed(r) PROVE TypeInv'
    BY <2>9 DEF OpenFailed
  <2>10. ASSUME NEW r \in Requests, Full(r) PROVE TypeInv'
    BY <2>10 DEF Full
  <2>11. ASSUME NEW r \in Requests, LearnCheck(r) PROVE TypeInv'
    BY <2>11 DEF LearnCheck
  <2>12. ASSUME NEW r \in Requests, Learn(r) PROVE TypeInv'
    BY <2>12 DEF Learn
  <2>13. ASSUME NEW r \in Requests, Count(r) PROVE TypeInv'
    <3>1. conn[r] \in Conns
      BY <2>13 DEF Count
    <3>2. opened' \in [Conns -> Int]
      BY <2>13, <3>1 DEF Count
    <3>3. redialing' \in [Conns -> BOOLEAN]
      BY <2>13, <3>1 DEF Count
    <3> QED
      BY <2>13, <3>2, <3>3 DEF Count
  <2>14. ASSUME NEW r \in Requests, CloseCheck(r) PROVE TypeInv'
    BY <2>14 DEF CloseCheck
  <2>15. ASSUME NEW r \in Requests, CloseFlag(r) PROVE TypeInv'
    BY <2>15 DEF CloseFlag
  <2>19. ASSUME NEW r \in Requests, CloseCount(r) PROVE TypeInv'
    BY <2>19 DEF CloseCount
  <2>16. ASSUME NEW r \in Requests, ServerReleases(r) PROVE TypeInv'
    BY <2>16 DEF ServerReleases
  <2>17. ASSUME NEW c \in Conns, ConnDies(c) PROVE TypeInv'
    BY <2>17 DEF ConnDies
  <2>18. CASE UNCHANGED vars
    BY <2>18 DEF vars, poolVars, streamVars
  <2> QED
    BY <2>1, <2>2, <2>3, <2>4, <2>5, <2>6, <2>7, <2>8, <2>9, <2>10, <2>11,
       <2>12, <2>13, <2>14, <2>15, <2>16, <2>17, <2>18, <2>19
       DEF Next, LocalStep, CloseStep, Terminated
<1> QED
  BY <1>1, <1>2, PTL DEF Spec

(* Type correctness of the quic client.                                    *)
THEOREM TypeCorrect == Spec => []TypeOK
<1>1. TypeInv => TypeOK
  BY DEF TypeInv
<1> QED
  BY <1>1, TypeInvariance, PTL

-----------------------------------------------------------------------------
(* trimBadConns, the new map of getCommonConn and the insertion after the  *)
(* dialing never lose a connection that is alive.                          *)
THEOREM NeverForgotten == Spec => []AlivePooled
<1> USE NoneAssumption
<1>1. Init => AlivePooled
  BY DEF Init, AlivePooled
<1>2. TypeInv /\ AlivePooled /\ [Next]_vars => AlivePooled'
  <2> SUFFICES ASSUME TypeInv, AlivePooled, [Next]_vars
               PROVE  AlivePooled'
    OBVIOUS
  <2> USE DEF TypeInv, TypeOK, AlivePooled, HasConn, PCs, Ended, At, Goto, Given,
              poolVars, streamVars
  <2>1. ASSUME NEW r \in Requests, GetAny(r) PROVE AlivePooled'
    BY <2>1 DEF GetAny
  <2>2. ASSUME NEW r \in Requests, GetLeast(r) PROVE AlivePooled'
    BY <2>2 DEF GetLeast
  <2>3. ASSUME NEW r \in Requests, GetNone(r) PROVE AlivePooled'
    BY <2>3 DEF GetNone
  <2>4. ASSUME NEW r \in Requests, Dial(r) PROVE AlivePooled'
    BY <2>4 DEF Dial
  <2>5. ASSUME NEW r \in Requests, Insert(r) PROVE AlivePooled'
    BY <2>5 DEF Insert
  <2>6. ASSUME NEW r \in Requests, Mark(r) PROVE AlivePooled'
    BY <2>6 DEF Mark
  <2>7. ASSUME NEW r \in Requests, OpenOk(r) PROVE AlivePooled'
    BY <2>7 DEF OpenOk
  <2>8. ASSUME NEW r \in Requests, OpenFull(r) PROVE AlivePooled'
    BY <2>8 DEF OpenFull
  <2>9. ASSUME NEW r \in Requests, OpenFailed(r) PROVE AlivePooled'
    BY <2>9 DEF OpenFailed
  <2>10. ASSUME NEW r \in Requests, Full(r) PROVE AlivePooled'
    BY <2>10 DEF Full
  <2>11. ASSUME NEW r \in Requests, LearnCheck(r) PROVE AlivePooled'
    BY <2>11 DEF LearnCheck
  <2>12. ASSUME NEW r \in Requests, Learn(r) PROVE AlivePooled'
    BY <2>12 DEF Learn
  <2>13. ASSUME NEW r \in Requests, Count(r) PROVE AlivePooled'
    BY <2>13 DEF Count
  <2>14. ASSUME NEW r \in Requests, CloseCheck(r) PROVE AlivePooled'
    BY <2>14 DEF CloseCheck
  <2>15. ASSUME NEW r \in Requests, CloseFlag(r) PROVE AlivePooled'
    BY <2>15 DEF CloseFlag
  <2>19. ASSUME NEW r \in Requests, CloseCount(r) PROVE AlivePooled'
    BY <2>19 DEF CloseCount
  <2>16. ASSUME NEW r \in Requests, ServerReleases(r) PROVE AlivePooled'
    BY <2>16 DEF ServerReleases
  <2>17. ASSUME NEW c \in Conns, ConnDies(c) PROVE AlivePooled'
    BY <2>17 DEF ConnDies
  <2>18. CASE UNCHANGED vars
    BY <2>18 DEF vars, poolVars, streamVars
  <2> QED
    BY <2>1, <2>2, <2>3, <2>4, <2>5, <2>6, <2>7, <2>8, <2>9, <2>10, <2>11,
       <2>12, <2>13, <2>14, <2>15, <2>16, <2>17, <2>18, <2>19
       DEF Next, LocalStep, CloseStep, Terminated
<1> QED
  BY <1>1, <1>2, TypeInvariance, PTL DEF Spec

-----------------------------------------------------------------------------
(* The streams that may be counted in a connection.                        *)
Held(c) == InUse(c) \cup Leaving(c)

(* What a step does to them is to add one or to take one away.             *)
LEMMA HeldFinite ==
  ASSUME NEW c PROVE IsFiniteSet(Held(c)) /\ Cardinality(Held(c)) \in Nat
<1>1. Held(c) \in SUBSET Requests
  BY DEF Held, InUse, Leaving
<1> QED
  BY <1>1, RequestsAssumption, FS_Subset, FS_CardinalityType

LEMMA HeldKept ==
  ASSUME TypeInv, CountNeverHigh,
         opened' = opened,
         \A c \in Conns : Held(c)' = Held(c)
  PROVE  CountNeverHigh'
BY DEF CountNeverHigh, Held

(* The counts follow the streams in use in spite of the races: a stream is *)
(* counted after it is open, and every pass through Close takes one from   *)
(* the count while the first alone takes one from the streams in use.      *)
THEOREM CountIsNoOverestimate == Spec => []CountNeverHigh
<1> USE NoneAssumption
<1>1. Init => CountNeverHigh
  <2> SUFFICES ASSUME Init, NEW c \in Conns PROVE opened[c] <= Cardinality(Held(c))
    BY DEF CountNeverHigh, Held
  <2> QED
    BY HeldFinite DEF Init
<1>2. TypeInv /\ CountNeverHigh /\ [Next]_vars => CountNeverHigh'
  <2> SUFFICES ASSUME TypeInv, CountNeverHigh, [Next]_vars
               PROVE  CountNeverHigh'
    OBVIOUS
  <2> USE DEF At, Goto, Given, poolVars, streamVars
  <2>1. ASSUME NEW r \in Requests, GetAny(r) PROVE CountNeverHigh'
    BY <2>1, HeldKept DEF GetAny, Held, InUse, Leaving, TypeInv, TypeOK, PCs, Ended
  <2>2. ASSUME NEW r \in Requests, GetLeast(r) PROVE CountNeverHigh'
    BY <2>2, HeldKept DEF GetLeast, Held, InUse, Leaving, TypeInv, TypeOK, PCs, Ended
  <2>3. ASSUME NEW r \in Requests, GetNone(r) PROVE CountNeverHigh'
    BY <2>3, HeldKept DEF GetNone, Held, InUse, Leaving, TypeInv, TypeOK, PCs, Ended
  <2>4. ASSUME NEW r \in Requests, Dial(r) PROVE CountNeverHigh'
    BY <2>4, HeldKept DEF Dial, Held, InUse, Leaving, TypeInv, TypeOK, PCs, Ended
  <2>5. ASSUME NEW r \in Requests, Insert(r) PROVE CountNeverHigh'
    BY <2>5, HeldKept DEF Insert, Held, InUse, Leaving, TypeInv, TypeOK, PCs, Ended
  <2>6. ASSUME NEW r \in Requests, Mark(r) PROVE CountNeverHigh'
    BY <2>6, HeldKept DEF Mark, Held, InUse, Leaving, TypeInv, TypeOK, PCs, Ended
  <2>7. ASSUME NEW r \in Requests, OpenOk(r) PROVE CountNeverHigh'
    BY <2>7, HeldKept DEF OpenOk, Held, InUse, Leaving, TypeInv, TypeOK, PCs, Ended
  <2>8. ASSUME NEW r \in Requests, OpenFull(r) PROVE CountNeverHigh'
    BY <2>8, HeldKept DEF OpenFull, Held, InUse, Leaving, TypeInv, TypeOK, PCs, Ended
  <2>9. ASSUME NEW r \in Requests, OpenFailed(r) PROVE CountNeverHigh'
    BY <2>9, HeldKept DEF OpenFailed, Held, InUse, Leaving, TypeInv, TypeOK, PCs, Ended
  <2>10. ASSUME NEW r \in Requests, Full(r) PROVE CountNeverHigh'
    BY <2>10, HeldKept DEF Full, Held, InUse, Leaving, TypeInv, TypeOK, PCs, Ended
  <2>11. ASSUME NEW r \in Requests, LearnCheck(r) PROVE CountNeverHigh'
    BY <2>11, HeldKept DEF LearnCheck, Held, InUse, Leaving, TypeInv, TypeOK, PCs, Ended
  <2>12. ASSUME NEW r \in Requests, Learn(r) PROVE CountNeverHigh'
    BY <2>12, HeldKept DEF Learn, Held, InUse, Leaving, TypeInv, TypeOK, PCs, Ended
  <2>13. ASSUME NEW r \in Requests, Count(r) PROVE CountNeverHigh'
    <3>0. PICK d \in Conns : d = conn[r]
      BY <2>13 DEF Count, TypeInv, TypeOK, HasConn, ClosedAfterOpened, PCs, Ended
    <3>1. r \notin Held(d)
      BY <2>13, <3>0 DEF Count, Held, InUse, Leaving, TypeInv, TypeOK, HasConn, PCs, Ended
    <3>2. Held(d)' = Held(d) \cup {r}
      BY <2>13, <3>0 DEF Count, Held, InUse, Leaving, TypeInv, TypeOK, ClosedAfterOpened
    <3>3. Cardinality(Held(d)') = Cardinality(Held(d)) + 1
      BY <3>1, <3>2, HeldFinite, FS_AddElement
    <3>4. \A c \in Conns \ {d} : Held(c)' = Held(c)
      BY <2>13, <3>0 DEF Count, Held, InUse, Leaving, TypeInv, TypeOK
    <3>5. /\ opened'[d] = opened[d] + 1
          /\ \A c \in Conns \ {d} : opened'[c] = opened[c]
      BY <2>13, <3>0 DEF Count, TypeInv, TypeOK
    <3>6. opened[d] \in Int /\ Cardinality(Held(d)) \in Nat
      BY HeldFinite DEF TypeInv, TypeOK
    <3>7. opened'[d] <= Cardinality(Held(d)')
      BY <3>3, <3>5, <3>6 DEF CountNeverHigh, Held
    <3>8. \A c \in Conns \ {d} : opened'[c] <= Cardinality(Held(c)')
      BY <3>4, <3>5 DEF CountNeverHigh, Held
    <3> QED
      BY <3>7, <3>8 DEF CountNeverHigh, Held
  <2>14. ASSUME NEW r \in Requests, CloseCheck(r) PROVE CountNeverHigh'
    BY <2>14, HeldKept DEF CloseCheck, Held, InUse, Leaving, TypeInv, TypeOK, PCs, Ended
  <2>15. ASSUME NEW r \in Requests, CloseFlag(r) PROVE CountNeverHigh'
    <3>1. PICK d \in Conns : d = conn[r]
      BY <2>15 DEF CloseFlag, TypeInv, TypeOK, HasConn, ClosedAfterOpened, PCs, Ended
    <3>2. r \in Leaving(d)' /\ pc[r] = "stream"
      BY <2>15, <3>1 DEF CloseFlag, Leaving, TypeInv, TypeOK, ClosedAfterOpened
    <3>3. /\ Held(d) \subseteq Held(d)'
          /\ \A c \in Conns \ {d} : Held(c)' = Held(c)
      BY <2>15, <3>1, <3>2 DEF CloseFlag, Held, InUse, Leaving, TypeInv, TypeOK
    <3>4. \A c \in Conns : Held(c)' \in SUBSET Requests
      BY DEF Held, InUse, Leaving
    <3>5. \A c \in Conns : IsFiniteSet(Held(c)') /\ Cardinality(Held(c)') \in Nat
      BY <3>4, RequestsAssumption, FS_Subset, FS_CardinalityType
    <3>6. Cardinality(Held(d)) <= Cardinality(Held(d)')
      BY <3>3, <3>5, FS_Subset
    <3>7. \A c \in Conns : Cardinality(Held(c)) <= Cardinality(Held(c)')
      BY <3>3, <3>5, <3>6, HeldFinite
    <3>8. opened' = opened /\ \A c \in Conns : opened[c] \in Int /\ opened[c] <= Cardinality(Held(c))
      BY <2>15 DEF CloseFlag, CountNeverHigh, Held, TypeInv, TypeOK
    <3>9. \A c \in Conns : Cardinality(Held(c)) \in Nat
      BY HeldFinite
    <3>10. \A c \in Conns : opened'[c] <= Cardinality(Held(c)')
      BY <3>5, <3>7, <3>8, <3>9
    <3> QED
      BY <3>10 DEF CountNeverHigh, Held
  <2>19. ASSUME NEW r \in Requests, CloseCount(r) PROVE CountNeverHigh'
    <3>1. PICK d \in Conns : d = conn[r]
      BY <2>19 DEF CloseCount, TypeInv, TypeOK, HasConn, ClosedAfterOpened, PCs, Ended
    <3>2. Held(d) \ {r} \subseteq Held(d)'
      BY <2>19, <3>1 DEF CloseCount, Held, InUse, Leaving, TypeInv, TypeOK
    <3>3. /\ opened[d] \in Int
          /\ Cardinality(Held(d)) \in Nat
          /\ Cardinality(Held(d) \ {r}) \in Nat
      BY HeldFinite, FS_RemoveElement, FS_CardinalityType DEF TypeInv, TypeOK
    <3>4. Cardinality(Held(d)') \in Nat /\ Cardinality(Held(d)') >= Cardinality(Held(d)) - 1
      <4>1. Cardinality(Held(d) \ {r}) = IF r \in Held(d) THEN Cardinality(Held(d)) - 1
                                                            ELSE Cardinality(Held(d))
        BY HeldFinite, FS_RemoveElement
      <4>2. Held(d)' \in SUBSET Requests
        BY DEF Held, InUse, Leaving
      <4>3. IsFiniteSet(Held(d)') /\ Cardinality(Held(d)') \in Nat
        BY <4>2, RequestsAssumption, FS_Subset, FS_CardinalityType
      <4>4. Cardinality(Held(d) \ {r}) <= Cardinality(Held(d)')
        BY <3>2, <4>3, FS_Subset
      <4> QED
        BY <3>3, <4>1, <4>3, <4>4
    <3>5. \A c \in Conns \ {d} : Held(c)' = Held(c)
      BY <2>19, <3>1 DEF CloseCount, Held, InUse, Leaving, TypeInv, TypeOK
    <3>6. /\ opened'[d] = opened[d] - 1
          /\ \A c \in Conns \ {d} : opened'[c] = opened[c]
      BY <2>19, <3>1 DEF CloseCount, TypeInv, TypeOK
    <3>7. opened'[d] <= Cardinality(Held(d)')
      BY <3>3, <3>4, <3>6 DEF CountNeverHigh, Held
    <3>8. \A c \in Conns \ {d} : opened'[c] <= Cardinality(Held(c)')
      BY <3>5, <3>6 DEF CountNeverHigh, Held
    <3> QED
      BY <3>7, <3>8 DEF CountNeverHigh, Held
  <2>16. ASSUME NEW r \in Requests, ServerReleases(r) PROVE CountNeverHigh'
    BY <2>16, HeldKept DEF ServerReleases, Held, InUse, Leaving, TypeInv, TypeOK, PCs, Ended
  <2>17. ASSUME NEW c \in Conns, ConnDies(c) PROVE CountNeverHigh'
    BY <2>17, HeldKept DEF ConnDies, Held, InUse, Leaving, TypeInv, TypeOK
  <2>18. CASE UNCHANGED vars
    BY <2>18, HeldKept DEF vars, Held, InUse, Leaving
  <2> QED
    BY <2>1, <2>2, <2>3, <2>4, <2>5, <2>6, <2>7, <2>8, <2>9, <2>10, <2>11,
       <2>12, <2>13, <2>14, <2>15, <2>16, <2>17, <2>18, <2>19
       DEF Next, LocalStep, CloseStep, Terminated
<1> QED
  BY <1>1, <1>2, TypeInvariance, PTL DEF Spec
=============================================================================
