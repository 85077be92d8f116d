---------------------------- MODULE InnerMux_proofs ----------------------------
(***************************************************************************)
(* Proofs about InnerMux for any set of requests: the types, who holds the *)
(* lock, and that until the first failure there is one session.            *)
(***************************************************************************)
EXTENDS InnerMux, TLAPS

LEMMA SessionsAreTyped ==
  ASSUME NEW r \in Requests
  PROVE  Session(r) \in Sessions /\ Session(r) # None
<1>1. (r \in wrcs) \in BOOLEAN
  OBVIOUS
<1>2. Session(r) \in Sessions
  BY <1>1 DEF Session, Sessions
<1> QED
  BY <1>2, NoneAssumption DEF Sessions

(* The state of every variable keeps to its type: what each branch of      *)
(* dialClient assigns (main.go:1196-1650) stays inside the model's sets.   *)
THEOREM TypeCorrect == Spec => []TypeOK
<1>1. Init => TypeOK
  BY DEF Init, TypeOK, PCs, Paths
<1>2. TypeOK /\ [Next]_vars => TypeOK'
  <2> SUFFICES ASSUME TypeOK, [Next]_vars
               PROVE  TypeOK'
    OBVIOUS
  <2> USE NoneAssumption DEF TypeOK, PCs, Paths, Ended, At, Goto, Return
  <2>1. ASSUME NEW r \in Requests, Lock(r) PROVE TypeOK'
    BY <2>1 DEF Lock
  <2>2. ASSUME NEW r \in Requests, Check(r) PROVE TypeOK'
    BY <2>2 DEF Check
  <2>3. ASSUME NEW r \in Requests, GetSession(r) PROVE TypeOK'
    BY <2>3, SessionsAreTyped DEF GetSession
  <2>4. ASSUME NEW r \in Requests, LoadSession(r) PROVE TypeOK'
    BY <2>4 DEF LoadSession
  <2>5. ASSUME NEW r \in Requests, StoreSession(r) PROVE TypeOK'
    BY <2>5, SessionsAreTyped DEF StoreSession
  <2>6. ASSUME NEW r \in Requests, OpenStream(r) PROVE TypeOK'
    BY <2>6 DEF OpenStream
  <2>7. ASSUME NEW r \in Requests, CloseCheck(r) PROVE TypeOK'
    BY <2>7 DEF CloseCheck
  <2>8. ASSUME NEW r \in Requests, CloseCall(r) PROVE TypeOK'
    BY <2>8 DEF CloseCall
  <2>9. ASSUME NEW r \in Requests, CloseNil(r) PROVE TypeOK'
    BY <2>9 DEF CloseNil
  <2>10. ASSUME NEW r \in Requests, InnerFailed(r) PROVE TypeOK'
    BY <2>10 DEF InnerFailed
  <2>11. ASSUME NEW r \in Requests, OuterDial(r) PROVE TypeOK'
    BY <2>11 DEF OuterDial
  <2>12. ASSUME NEW r \in Requests, InnerHandshake(r) PROVE TypeOK'
    <3>1. /\ pc' \in [Requests -> PCs] /\ lock' \in Requests \cup {None}
          /\ trouble' \in BOOLEAN
      BY <2>12 DEF InnerHandshake
    <3>2. \A q \in Requests : pc'[q] \in {"open", "shake", "relay"} => sess[q] # None
      BY <2>12 DEF InnerHandshake
    <3> QED
      BY <2>12, <3>1, <3>2 DEF InnerHandshake
  <2>13. ASSUME NEW s \in Sessions, SessionDies(s) PROVE TypeOK'
    BY <2>13 DEF SessionDies
  <2>14. CASE Stop \/ NilPanics
    BY <2>14 DEF Stop, NilPanics
  <2>15. CASE Terminated \/ UNCHANGED vars
    BY <2>15 DEF Terminated, vars
  <2> QED
    BY <2>1, <2>2, <2>3, <2>4, <2>5, <2>6, <2>7, <2>8, <2>9, <2>10, <2>11,
       <2>12, <2>13, <2>14, <2>15 DEF Next, LocalStep, PeerStep
<1> QED
  BY <1>1, <1>2, PTL DEF Spec

-----------------------------------------------------------------------------
(* LockDiscipline is inductive over well-typed states. *)
LEMMA LockDisciplineStep ==
  ASSUME TypeOK, LockDiscipline, [Next]_vars
  PROVE  LockDiscipline'
<1> USE NoneAssumption DEF TypeOK, PCs, Paths, Ended, LockDiscipline, At, Goto, Return
<1>1. ASSUME NEW r \in Requests, Lock(r) PROVE LockDiscipline'
  BY <1>1 DEF Lock
<1>2. ASSUME NEW r \in Requests, Check(r) PROVE LockDiscipline'
  BY <1>2 DEF Check
<1>3. ASSUME NEW r \in Requests, GetSession(r) PROVE LockDiscipline'
  BY <1>3 DEF GetSession
<1>4. ASSUME NEW r \in Requests, LoadSession(r) PROVE LockDiscipline'
  BY <1>4 DEF LoadSession
<1>5. ASSUME NEW r \in Requests, StoreSession(r) PROVE LockDiscipline'
  BY <1>5 DEF StoreSession
<1>6. ASSUME NEW r \in Requests, OpenStream(r) PROVE LockDiscipline'
  BY <1>6 DEF OpenStream
<1>7. ASSUME NEW r \in Requests, CloseCheck(r) PROVE LockDiscipline'
  BY <1>7 DEF CloseCheck
<1>8. ASSUME NEW r \in Requests, CloseCall(r) PROVE LockDiscipline'
  BY <1>8 DEF CloseCall
<1>9. ASSUME NEW r \in Requests, CloseNil(r) PROVE LockDiscipline'
  BY <1>9 DEF CloseNil
<1>10. ASSUME NEW r \in Requests, InnerFailed(r) PROVE LockDiscipline'
  BY <1>10 DEF InnerFailed
<1>11. ASSUME NEW r \in Requests, OuterDial(r) PROVE LockDiscipline'
  BY <1>11 DEF OuterDial
<1>12. ASSUME NEW r \in Requests, InnerHandshake(r) PROVE LockDiscipline'
  BY <1>12 DEF InnerHandshake
<1>13. ASSUME NEW s \in Sessions, SessionDies(s) PROVE LockDiscipline'
  BY <1>13 DEF SessionDies
<1>14. CASE Stop \/ NilPanics \/ Terminated \/ UNCHANGED vars
  BY <1>14 DEF Stop, NilPanics, Terminated, vars
<1> QED
  BY <1>1, <1>2, <1>3, <1>4, <1>5, <1>6, <1>7, <1>8, <1>9, <1>10, <1>11,
     <1>12, <1>13, <1>14 DEF Next, LocalStep, PeerStep

(* The client is locked exactly by the request between its check and the   *)
(* end of its first dial: the deferred Unlock of main.go:1247 runs once,   *)
(* and the early Unlock of main.go:1209 is never followed by a second one. *)
THEOREM LockSafe == Spec => []LockDiscipline
<1>1. Init => LockDiscipline
  BY NoneAssumption DEF Init, LockDiscipline
<1> QED
  BY <1>1, TypeCorrect, LockDisciplineStep, PTL DEF Spec

-----------------------------------------------------------------------------
-----------------------------------------------------------------------------
(* What holds until the first failure.  The lock is held through a first   *)
(* dial, so while one request is before its store the field is empty and   *)
(* no other request is there; afterwards the field is never cleared.       *)
Healthy ==
  /\ ~crashed
  /\ \A s \in open : s = innermux
  /\ \A s \in made : s.dialled
  /\ innermux # None => innermux \in open
  /\ \A r \in Requests :
       /\ pc[r] \notin {"closeCheck", "closeCall", "closeNil", "innerFailed"}
       /\ path[r] # "redial"
       /\ path[r] = "none" <=> pc[r] \in {"lock", "check"}
       /\ path[r] = "first" /\ pc[r] \in {"dial", "get", "store"} => innermux = None
       /\ path[r] = "first" /\ pc[r] = "get" => r \in wrcs
       /\ path[r] = "first" => pc[r] # "load"
       /\ path[r] = "reuse" => innermux # None /\ pc[r] \notin {"dial", "store", "failed"}
       /\ path[r] = "first" /\ pc[r] = "store" => r \in wrcs
       /\ r \in wrcs => path[r] = "first" /\ (Session(r) \in open \/ pc[r] \in {"get", "store"})

HealthyUntilTrouble == ~trouble => Healthy

(* A step that breaks it is a failure of a peer, and sets trouble.         *)
LEMMA HealthyStep ==
  ASSUME TypeOK, LockDiscipline, HealthyUntilTrouble, [Next]_vars
  PROVE  HealthyUntilTrouble'
<1> USE NoneAssumption
    DEF TypeOK, PCs, Paths, Ended, Sessions, Session, LockDiscipline, HealthyUntilTrouble, Healthy,
        InnerMuxEstablished, At, Goto, Return
<1>1. ASSUME NEW r \in Requests, Lock(r) PROVE HealthyUntilTrouble'
  BY <1>1 DEF Lock
<1>2. ASSUME NEW r \in Requests, Check(r) PROVE HealthyUntilTrouble'
  BY <1>2 DEF Check
<1>3. ASSUME NEW r \in Requests, GetSession(r) PROVE HealthyUntilTrouble'
  <2>1. CASE InnerMuxEstablished
    BY <1>3, <2>1 DEF GetSession
  <2>2. CASE ~InnerMuxEstablished
    <3>1. ~trouble => path[r] = "first" /\ r \in wrcs
      BY <1>3, <2>2 DEF GetSession
    <3>2. ~trouble => made' = made \cup {Session(r)} /\ Session(r).dialled
      BY <1>3, <2>2, <3>1 DEF GetSession
    <3> QED
      BY <1>3, <2>2, <3>1, <3>2 DEF GetSession
  <2> QED
    BY <2>1, <2>2
<1>4. ASSUME NEW r \in Requests, LoadSession(r) PROVE HealthyUntilTrouble'
  BY <1>4 DEF LoadSession
<1>5. ASSUME NEW r \in Requests, StoreSession(r) PROVE HealthyUntilTrouble'
  BY <1>5 DEF StoreSession
<1>6. ASSUME NEW r \in Requests, OpenStream(r) PROVE HealthyUntilTrouble'
  BY <1>6 DEF OpenStream
<1>7. ASSUME NEW r \in Requests, CloseCheck(r) PROVE HealthyUntilTrouble'
  BY <1>7 DEF CloseCheck
<1>8. ASSUME NEW r \in Requests, CloseCall(r) PROVE HealthyUntilTrouble'
  BY <1>8 DEF CloseCall
<1>9. ASSUME NEW r \in Requests, CloseNil(r) PROVE HealthyUntilTrouble'
  BY <1>9 DEF CloseNil
<1>10. ASSUME NEW r \in Requests, InnerFailed(r) PROVE HealthyUntilTrouble'
  BY <1>10 DEF InnerFailed
<1>11. ASSUME NEW r \in Requests, OuterDial(r) PROVE HealthyUntilTrouble'
  <2>1. \A q \in Requests : q # r => Session(q)' = Session(q)
    BY <1>11 DEF OuterDial
  <2>2. CASE wrcs' = wrcs \cup {r} /\ Goto(r, "get") /\ UNCHANGED lock
    BY <1>11, <2>1, <2>2 DEF OuterDial
  <2>3. CASE Return(r, "failed") /\ UNCHANGED wrcs
    BY <1>11, <2>1, <2>3 DEF OuterDial
  <2> QED
    BY <1>11, <2>2, <2>3 DEF OuterDial
<1>12. ASSUME NEW r \in Requests, InnerHandshake(r) PROVE HealthyUntilTrouble'
  BY <1>12 DEF InnerHandshake
<1>13. ASSUME NEW s \in Sessions, SessionDies(s) PROVE HealthyUntilTrouble'
  BY <1>13 DEF SessionDies
<1>14. CASE Stop \/ NilPanics \/ Terminated \/ UNCHANGED vars
  BY <1>14 DEF Stop, NilPanics, Terminated, vars
<1> QED
  BY <1>1, <1>2, <1>3, <1>4, <1>5, <1>6, <1>7, <1>8, <1>9, <1>10, <1>11,
     <1>12, <1>13, <1>14 DEF Next, LocalStep, PeerStep

(* Until a session dies or an inner dialing fails, the mutex of            *)
(* main.go:1206 keeps the client to one inner mux connection, whatever the *)
(* number of requests: what the comment at main.go:1242 asks for.          *)
THEOREM OneSession == Spec => []OneSessionUntilTrouble
<1>1. Init => HealthyUntilTrouble
  BY DEF Init, HealthyUntilTrouble, Healthy
<1>2. TypeOK /\ HealthyUntilTrouble => OneSessionUntilTrouble
  BY DEF TypeOK, HealthyUntilTrouble, Healthy, OneSessionUntilTrouble
<1> QED
  BY <1>1, <1>2, TypeCorrect, LockSafe, HealthyStep, PTL DEF Spec
=============================================================================
