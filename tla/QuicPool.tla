------------------------------- MODULE QuicPool -------------------------------
(***************************************************************************)
(* The quic client (advLayer/quic): requests share a pool of connections.  *)
(* The server allows MaxStreams open streams in a connection and does not  *)
(* say so: the client counts the streams it has open in each connection,   *)
(* learns the limit from the count of the first connection that refuses    *)
(* one, and from then on avoids the connections whose count has reached    *)
(* it.  A refused request asks the pool again, once.                       *)
(*                                                                         *)
(* The map of connections is only touched with its mutex held: a critical  *)
(* section is one step, in which isActive and the counts are read as well. *)
(* The counts are atomic integers; knownServerMaxStreamCount, redialing    *)
(* and isclosed are plain variables that all requests read and write, so   *)
(* their check and their assignment are separate steps.                    *)
(***************************************************************************)
EXTENDS Integers, FiniteSets

CONSTANTS
  Requests,    (* the goroutines that dial through this client                *)
  Conns,       (* bound: the connections that can be dialled                  *)
  None,        (* the nil pointer                                             *)
  MaxStreams,  (* the server's MaxIncomingStreams                             *)
  Closers      (* bound: how often the Close of one stream is called          *)

ASSUME RequestsAssumption == IsFiniteSet(Requests)
ASSUME NoneAssumption == None \notin Conns
ASSUME MaxStreamsAssumption == MaxStreams \in Nat \ {0}
ASSUME ClosersAssumption == Closers \in Nat

VARIABLES
  pool,       (* clientconns                                                   *)
  dialled,    (* the connections that have been dialled                        *)
  alive,      (* those whose context is not done                               *)
  opened,     (* openedStreamCount of each connection                          *)
  redialing,  (* connState.redialing                                           *)
  known,      (* knownServerMaxStreamCount: 0 until it is learned              *)
  pc,         (* where each request is                                         *)
  conn,       (* the connection it was given                                   *)
  again,      (* its getCommonConn was called by dialSubConn                   *)
  served,     (* the requests whose stream the server counts                   *)
  calls,      (* the Close calls of its stream that are still to come          *)
  closing,    (* those that have found isclosed false and go on                *)
  leaving,    (* those that have set it and are still to lower the count       *)
  isclosed    (* StreamConn.isclosed                                           *)

vars == <<pool, dialled, alive, opened, redialing, known, pc, conn, again, served, calls, closing,
          leaving, isclosed>>

poolVars == <<pool, dialled, alive>>
streamVars == <<calls, closing, leaving, isclosed>>

Ended == {"stream", "failed", "full"}

PCs == {"get", "dial", "insert", "mark", "open", "full?", "learn?", "learn", "count"}
         \cup Ended

TypeOK ==
  /\ pool \subseteq dialled
  /\ dialled \subseteq Conns
  /\ alive \subseteq dialled
  /\ opened \in [Conns -> Int]
  /\ redialing \in [Conns -> BOOLEAN]
  /\ known \in Int
  /\ pc \in [Requests -> PCs]
  /\ conn \in [Requests -> dialled \cup {None}]
  /\ again \in [Requests -> BOOLEAN]
  /\ served \subseteq Requests
  /\ calls \in [Requests -> 0..Closers]
  /\ closing \in [Requests -> 0..Closers]
  /\ leaving \in [Requests -> 0..Closers]
  /\ isclosed \in [Requests -> BOOLEAN]

Init ==
  /\ pool = {}
  /\ dialled = {}
  /\ alive = {}
  /\ opened = [c \in Conns |-> 0]
  /\ redialing = [c \in Conns |-> FALSE]
  /\ known = 0
  /\ pc = [r \in Requests |-> "get"]
  /\ conn = [r \in Requests |-> None]
  /\ again = [r \in Requests |-> FALSE]
  /\ served = {}
  /\ calls = [r \in Requests |-> Closers]
  /\ closing = [r \in Requests |-> 0]
  /\ leaving = [r \in Requests |-> 0]
  /\ isclosed = [r \in Requests |-> FALSE]

-----------------------------------------------------------------------------
At(r, l) == pc[r] = l

Goto(r, l) == pc' = [pc EXCEPT ![r] = l]

(* What follows getCommonConn: dialSubConn marks a connection it got itself. *)
Given(r) == IF again[r] THEN "mark" ELSE "open"

(* The connections trimBadConns picks from when it knows the limit. *)
Least(S) == {c \in S : \A d \in S : opened[c] <= opened[d]}

Usable == {c \in pool \cap alive : opened[c] < known}

-----------------------------------------------------------------------------
(* getCommonConn: a connection of the pool.  Without a limit the first     *)
(* active one is taken, and only the dead ones met before it are removed.  *)
GetAny(r) ==
  /\ At(r, "get")
  /\ known = 0
  /\ \E c \in pool \cap alive, D \in SUBSET (pool \ alive) :
       /\ conn' = [conn EXCEPT ![r] = c]
       /\ pool' = pool \ D
  /\ Goto(r, Given(r))
  /\ UNCHANGED <<dialled, alive, opened, redialing, known, again, served, streamVars>>

GetLeast(r) ==
  /\ At(r, "get")
  /\ known # 0
  /\ \E c \in Least(Usable) : conn' = [conn EXCEPT ![r] = c]
  /\ pool' = pool \cap alive
  /\ Goto(r, Given(r))
  /\ UNCHANGED <<dialled, alive, opened, redialing, known, again, served, streamVars>>

(* Variant that makes a new map whenever it is going to dial. *)
GetNoneNewMap(r) ==
  /\ At(r, "get")
  /\ IF known = 0 THEN pool \cap alive = {} ELSE Usable = {}
  /\ pool' = {}
  /\ Goto(r, "dial")
  /\ UNCHANGED <<dialled, alive, opened, redialing, known, conn, again, served,
                 streamVars>>

(* None is usable: dial.  A new map is only made for an empty one. *)
GetNone(r) ==
  /\ At(r, "get")
  /\ IF known = 0 THEN pool \cap alive = {} ELSE Usable = {}
  /\ pool' = pool \cap alive
  /\ Goto(r, "dial")
  /\ UNCHANGED <<dialled, alive, opened, redialing, known, conn, again, served,
                 streamVars>>

(* Variant that does not look at the error of quic.Dial. *)
DialUnchecked(r) ==
  /\ At(r, "dial")
  /\ Goto(r, "insert")
  /\ \/ \E c \in Conns \ dialled :
          /\ dialled' = dialled \cup {c}
          /\ alive' = alive \cup {c}
          /\ conn' = [conn EXCEPT ![r] = c]
     \/ /\ conn' = [conn EXCEPT ![r] = None]
        /\ UNCHANGED <<dialled, alive>>
  /\ UNCHANGED <<pool, opened, redialing, known, again, served, streamVars>>

(* Resolving, listening and quic.Dial, without the mutex. *)
Dial(r) ==
  /\ At(r, "dial")
  /\ \/ \E c \in Conns \ dialled :
          /\ dialled' = dialled \cup {c}
          /\ alive' = alive \cup {c}
          /\ conn' = [conn EXCEPT ![r] = c]
          /\ Goto(r, "insert")
     \/ /\ Goto(r, "failed")
        /\ UNCHANGED <<dialled, alive, conn>>
  /\ UNCHANGED <<pool, opened, redialing, known, again, served, streamVars>>

Insert(r) ==
  /\ At(r, "insert")
  /\ pool' = pool \cup {conn[r]}
  /\ Goto(r, Given(r))
  /\ UNCHANGED <<dialled, alive, opened, redialing, known, conn, again, served,
                 streamVars>>

-----------------------------------------------------------------------------
(* dialSubConn. *)

(* Variant that forgets to mark the second connection. *)
MarkNothing(r) ==
  /\ At(r, "mark")
  /\ Goto(r, "open")
  /\ UNCHANGED <<poolVars, opened, redialing, known, conn, again, served, streamVars>>

Mark(r) ==
  /\ At(r, "mark")
  /\ redialing' = [redialing EXCEPT ![conn[r]] = TRUE]
  /\ Goto(r, "open")
  /\ UNCHANGED <<poolVars, opened, known, conn, again, served, streamVars>>

StreamsAt(c) == {r \in served : conn[r] = c}

OpenOk(r) ==
  /\ At(r, "open")
  /\ conn[r] \in alive
  /\ Cardinality(StreamsAt(conn[r])) < MaxStreams
  /\ served' = served \cup {r}
  /\ Goto(r, "count")
  /\ UNCHANGED <<poolVars, opened, redialing, known, conn, again, streamVars>>

OpenFull(r) ==
  /\ At(r, "open")
  /\ conn[r] \in alive
  /\ Cardinality(StreamsAt(conn[r])) >= MaxStreams
  /\ Goto(r, "full?")
  /\ UNCHANGED <<poolVars, opened, redialing, known, conn, again, served, streamVars>>

(* Any other error; with redialing set or not, it is not set afterwards. *)
OpenFailed(r) ==
  /\ At(r, "open")
  /\ conn[r] \notin alive
  /\ redialing' = [redialing EXCEPT ![conn[r]] = FALSE]
  /\ Goto(r, "failed")
  /\ UNCHANGED <<poolVars, opened, known, conn, again, served, streamVars>>

(* Variant that also counts the attempt it was refused. *)
FullCounted(r) ==
  /\ At(r, "full?")
  /\ \/ /\ redialing[conn[r]]
        /\ redialing' = [redialing EXCEPT ![conn[r]] = FALSE]
        /\ Goto(r, "full")
     \/ /\ ~redialing[conn[r]]
        /\ Goto(r, "learn?")
        /\ UNCHANGED redialing
  /\ opened' = [opened EXCEPT ![conn[r]] = @ + 1]
  /\ UNCHANGED <<poolVars, known, conn, again, served, streamVars>>

Full(r) ==
  /\ At(r, "full?")
  /\ \/ /\ redialing[conn[r]]
        /\ redialing' = [redialing EXCEPT ![conn[r]] = FALSE]
        /\ Goto(r, "full")
     \/ /\ ~redialing[conn[r]]
        /\ Goto(r, "learn?")
        /\ UNCHANGED redialing
  /\ UNCHANGED <<poolVars, opened, known, conn, again, served, streamVars>>

(* processWhenFull: its check, *)
LearnCheck(r) ==
  /\ At(r, "learn?")
  /\ again' = [again EXCEPT ![r] = TRUE]
  /\ Goto(r, IF known = 0 THEN "learn" ELSE "get")
  /\ UNCHANGED <<poolVars, opened, redialing, known, conn, served, streamVars>>

(* and its assignment. *)
Learn(r) ==
  /\ At(r, "learn")
  /\ known' = opened[conn[r]]
  /\ Goto(r, "get")
  /\ UNCHANGED <<poolVars, opened, redialing, conn, again, served, streamVars>>

Count(r) ==
  /\ At(r, "count")
  /\ redialing' = [redialing EXCEPT ![conn[r]] = FALSE]
  /\ opened' = [opened EXCEPT ![conn[r]] = @ + 1]
  /\ Goto(r, "stream")
  /\ UNCHANGED <<poolVars, known, conn, again, served, streamVars>>

-----------------------------------------------------------------------------
(* StreamConn.Close: both directions of a relay call it, and so may others. *)

CloseCheck(r) ==
  /\ At(r, "stream")
  /\ calls[r] > 0
  /\ calls' = [calls EXCEPT ![r] = @ - 1]
  /\ closing' = [closing EXCEPT ![r] = IF isclosed[r] THEN @ ELSE @ + 1]
  /\ UNCHANGED <<poolVars, opened, redialing, known, pc, conn, again, served, leaving, isclosed>>

(* The stream is not in use any more, but still counted, while CancelRead  *)
(* and CancelWrite run.                                                    *)
CloseFlag(r) ==
  /\ closing[r] > 0
  /\ closing' = [closing EXCEPT ![r] = @ - 1]
  /\ leaving' = [leaving EXCEPT ![r] = @ + 1]
  /\ isclosed' = [isclosed EXCEPT ![r] = TRUE]
  /\ UNCHANGED <<poolVars, opened, redialing, known, pc, conn, again, served, calls>>

CloseCount(r) ==
  /\ leaving[r] > 0
  /\ leaving' = [leaving EXCEPT ![r] = @ - 1]
  /\ opened' = [opened EXCEPT ![conn[r]] = @ - 1]
  /\ UNCHANGED <<poolVars, redialing, known, pc, conn, again, served, calls, closing, isclosed>>

-----------------------------------------------------------------------------
(* The server gives the credit of a stream back some time after either end *)
(* has closed it.                                                          *)
ServerReleases(r) ==
  /\ r \in served
  /\ served' = served \ {r}
  /\ UNCHANGED <<poolVars, opened, redialing, known, pc, conn, again, streamVars>>

(* The idle timeout, the server or the network. *)
ConnDies(c) ==
  /\ c \in alive
  /\ alive' = alive \ {c}
  /\ UNCHANGED <<pool, dialled, opened, redialing, known, pc, conn, again, served,
                 streamVars>>

Terminated ==
  /\ \A r \in Requests : pc[r] \in Ended
  /\ UNCHANGED vars

LocalStep(r) ==
  \/ GetAny(r) \/ GetLeast(r) \/ GetNone(r) \/ Insert(r)
  \/ Mark(r) \/ OpenOk(r) \/ OpenFull(r) \/ OpenFailed(r)
  \/ Full(r) \/ LearnCheck(r) \/ Learn(r) \/ Count(r)

CloseStep(r) == CloseCheck(r) \/ CloseFlag(r) \/ CloseCount(r)

Next ==
  \/ \E r \in Requests : LocalStep(r) \/ Dial(r) \/ CloseStep(r) \/ ServerReleases(r)
  \/ \E c \in Conns : ConnDies(c)
  \/ Terminated

Spec == Init /\ [][Next]_vars

(* OpenStream does not block, and the handshake of quic.Dial is limited by *)
(* HandshakeIdleTimeout (quic.go): a request waits for nobody for ever.    *)
(* Nothing makes the server release a stream or a user close one.          *)
FairSpec ==
  /\ Spec
  /\ \A r \in Requests : WF_vars(LocalStep(r)) /\ WF_vars(Dial(r))

-----------------------------------------------------------------------------
(* A connection is never forgotten: as long as it is alive it is in the    *)
(* pool, or the request that dialled it is about to put it there.          *)
AlivePooled ==
  \A c \in alive : c \in pool \/ \E r \in Requests : pc[r] = "insert" /\ conn[r] = c

InUse(c) == {r \in Requests : conn[r] = c /\ pc[r] = "stream" /\ ~isclosed[r]}

Leaving(c) == {r \in Requests : conn[r] = c /\ pc[r] = "stream" /\ leaving[r] > 0}

(* A connection never looks fuller than it is: each stream that is counted *)
(* is in use, or one of its Close calls is about to take it from the       *)
(* count, in spite of the races in Close; so no connection is avoided for  *)
(* ever because of a count that nobody takes back.  It may look emptier:   *)
(* two Close calls of one stream can both lower its count.                 *)
CountNeverHigh == \A c \in Conns : opened[c] <= Cardinality(InUse(c) \cup Leaving(c))

(* A request that was refused asks at most for one more connection unless  *)
(* others succeed in between: it always comes to its end.                  *)
RequestEnds == \A r \in Requests : <>(pc[r] \in Ended)

(* The log message of client.go:202, "session full, open another one": the *)
(* connection that a refused request is given next is not the same one.    *)
FullOpensAnother ==
  [][\A r \in Requests :
       again[r] /\ At(r, "get") /\ pc'[r] = "mark" => conn'[r] # conn[r]]_vars
=============================================================================
