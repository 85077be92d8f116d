------------------------------ MODULE GrpcClient ------------------------------
(* The client of grpcSimple (advLayer/grpcSimple/client.go): requests      *)
(* share an http2 transport over one dialed connection, kept in            *)
(* cachedTransport without a lock.  A request looks for it, dials when     *)
(* there is none, and starts a goroutine, the handshake, that waits for    *)
(* the response; what is written goes through a pipe.                      *)
(*                                                                         *)
(* The user of a request reads, writes and closes it in goroutines of its  *)
(* own, as a relay does, so these are not in any order.                    *)
(*                                                                         *)
(* A transport has the number of the request that made it.  The http2      *)
(* library is external: its transport holds the one connection it was      *)
(* made for, and asks for it again when it has failed.                     *)
CONSTANTS
  Requests,  (* bound: the requests that are made                          *)
  None

VARIABLES
  cachedTransport,
  place,        (* where the user of each request is                       *)
  underlay,     (* what it dials over: a transport, "conn", or "nil", a    *)
                (* typed nil that does not compare equal to nil            *)
  transport,    (* the transport of each request                           *)
  dead,         (* the transports whose connection is closed               *)
  handshake,    (* where the goroutine of each request is                  *)
  failure,      (* the error that RoundTrip returned                       *)
  err,          (* c.err                                                   *)
  pipe,         (* whether the pipe of each request is open                *)
  shouldClose,
  response,     (* "none", "open" or "closed"                              *)
  sawError,     (* what told its user of an error before it closed the     *)
                (* request: "read", "write"                                *)
  panicked      (* DialTLS was asked for the connection of a typed nil     *)

vars == <<cachedTransport, place, underlay, transport, dead, handshake, failure, err, pipe,
          shouldClose, response, sawError, panicked>>

Init ==
  /\ cachedTransport = None
  /\ place = [r \in Requests |-> "check"]
  /\ underlay = [r \in Requests |-> None]
  /\ transport = [r \in Requests |-> None]
  /\ dead = {}
  /\ handshake = [r \in Requests |-> "none"]
  /\ failure = [r \in Requests |-> None]
  /\ err = [r \in Requests |-> None]
  /\ pipe = [r \in Requests |-> TRUE]
  /\ shouldClose = {}
  /\ response = [r \in Requests |-> "none"]
  /\ sawError = [r \in Requests |-> {}]
  /\ panicked = FALSE

ofConn == <<transport, dead>>
ofHandshake == <<handshake, failure, err, response, panicked>>
ofUser == <<place, underlay, shouldClose, sawError>>

-----------------------------------------------------------------------------
(* GetCommonConn reads cachedTransport twice. *)
CheckCached(r) ==
  /\ place[r] = "check"
  /\ place' = [place EXCEPT ![r] = IF cachedTransport # None THEN "take" ELSE "dial"]
  /\ UNCHANGED <<cachedTransport, underlay, ofConn, ofHandshake, pipe, shouldClose, sawError>>

TakeCached(r) ==
  /\ place[r] = "take"
  /\ underlay' = [underlay EXCEPT ![r] = IF cachedTransport = None THEN "nil" ELSE cachedTransport]
  /\ place' = [place EXCEPT ![r] = "sub"]
  /\ UNCHANGED <<cachedTransport, ofConn, ofHandshake, pipe, shouldClose, sawError>>

DialConn(r) ==
  /\ place[r] = "dial"
  /\ \/ /\ underlay' = [underlay EXCEPT ![r] = "conn"]
        /\ place' = [place EXCEPT ![r] = "sub"]
     \/ /\ place' = [place EXCEPT ![r] = "ended"]
        /\ UNCHANGED underlay
  /\ UNCHANGED <<cachedTransport, ofConn, ofHandshake, pipe, shouldClose, sawError>>

(* DialSubConn: anything but a transport becomes a new one, which replaces *)
(* what is cached.                                                         *)
DialSubConn(r) ==
  /\ place[r] = "sub"
  /\ IF underlay[r] \in Requests
     THEN /\ transport' = [transport EXCEPT ![r] = underlay[r]]
          /\ UNCHANGED cachedTransport
     ELSE /\ transport' = [transport EXCEPT ![r] = r]
          /\ cachedTransport' = r
  /\ place' = [place EXCEPT ![r] = "open"]
  /\ handshake' = [handshake EXCEPT ![r] = "start"]
  /\ UNCHANGED <<underlay, dead, failure, err, response, panicked, pipe, shouldClose, sawError>>

-----------------------------------------------------------------------------
(* The handshake.  RoundTrip over a connection that is closed says so.     *)
RoundTrip(r) ==
  /\ handshake[r] = "start"
  /\ IF underlay[transport[r]] = "nil"
     THEN /\ panicked' = TRUE
          /\ UNCHANGED <<handshake, failure>>
     ELSE /\ IF transport[r] \in dead
             THEN /\ handshake' = [handshake EXCEPT ![r] = "first"]
                  /\ failure' = [failure EXCEPT ![r] = "closed"]
             ELSE /\ handshake' = [handshake EXCEPT ![r] = "waiting"]
                  /\ UNCHANGED failure
          /\ UNCHANGED panicked
  /\ UNCHANGED <<cachedTransport, ofUser, ofConn, err, response, pipe>>

(* The connection is lost before the response: the library closes the      *)
(* request's body, and returns another error.                              *)
LoseResponse(r) ==
  /\ handshake[r] = "waiting"
  /\ transport[r] \in dead
  /\ pipe' = [pipe EXCEPT ![r] = FALSE]
  /\ failure' = [failure EXCEPT ![r] = "lost"]
  /\ handshake' = [handshake EXCEPT ![r] = "first"]
  /\ UNCHANGED <<cachedTransport, ofUser, ofConn, err, response, panicked>>

(* Variant that closes the pipe first. *)
FailureStepsSwapped == [first |-> "close", second |-> "store"]

(* What the handshake does with an error. *)
FailureSteps == [first |-> "store", second |-> "close"]

Fail(r) ==
  /\ handshake[r] \in {"first", "second"}
  /\ CASE FailureSteps[handshake[r]] = "store" -> /\ err' = [err EXCEPT ![r] = failure[r]]
                                                  /\ UNCHANGED pipe
       [] FailureSteps[handshake[r]] = "close" -> /\ pipe' = [pipe EXCEPT ![r] = FALSE]
                                                  /\ UNCHANGED err
  /\ handshake' = [handshake EXCEPT ![r] = IF @ = "first" THEN "second" ELSE "ended"]
  /\ UNCHANGED <<cachedTransport, ofUser, ofConn, failure, response, panicked>>

(* The response has come, with the headers it should have or others.  The  *)
(* test of shouldClose and what follows from it are two steps.             *)
Respond(r, good) ==
  /\ handshake[r] = "waiting"
  /\ transport[r] \notin dead
  /\ handshake' = [handshake EXCEPT ![r] = IF good /\ r \notin shouldClose THEN "keep" ELSE "clear"]
  /\ UNCHANGED <<cachedTransport, ofUser, ofConn, failure, err, response, panicked, pipe>>

KeepResponse(r) ==
  /\ handshake[r] = "keep"
  /\ response' = [response EXCEPT ![r] = "open"]
  /\ handshake' = [handshake EXCEPT ![r] = "ended"]
  /\ UNCHANGED <<cachedTransport, ofUser, ofConn, failure, err, panicked, pipe>>

ClearCache(r) ==
  /\ handshake[r] = "clear"
  /\ cachedTransport' = None
  /\ response' = [response EXCEPT ![r] = "closed"]
  /\ handshake' = [handshake EXCEPT ![r] = "ended"]
  /\ UNCHANGED <<ofUser, ofConn, failure, err, panicked, pipe>>

-----------------------------------------------------------------------------
(* The library closes the request's body when the stream is lost or its    *)
(* response is closed.                                                     *)
LoseBody(r) ==
  /\ handshake[r] = "ended"
  /\ transport[r] \in dead \/ response[r] = "closed"
  /\ pipe[r]
  /\ pipe' = [pipe EXCEPT ![r] = FALSE]
  /\ UNCHANGED <<cachedTransport, ofUser, ofConn, ofHandshake>>

(* The user, while it has not closed the request: what an error tells it.  *)
Tell(r, call) ==
  sawError' = IF r \in shouldClose THEN sawError ELSE [sawError EXCEPT ![r] = @ \cup {call}]

(* A write goes through the pipe, and fails when it is closed; dealErr     *)
(* forgets the transport when the error says that the connection is closed. *)
WriteFails(r) ==
  /\ transport[r] # None
  /\ ~pipe[r]
  /\ cachedTransport' = IF err[r] = "closed" THEN None ELSE cachedTransport
  /\ Tell(r, "write")
  /\ UNCHANGED <<place, underlay, shouldClose, ofConn, ofHandshake, pipe>>

(* Read waits for the handshake, and returns its error to the user alone:  *)
(* the transport is not forgotten.                                         *)
ReadFails(r) ==
  /\ handshake[r] = "ended"
  /\ err[r] # None \/ response[r] # "open" \/ transport[r] \in dead
  /\ Tell(r, "read")
  /\ UNCHANGED <<cachedTransport, place, underlay, shouldClose, ofConn, ofHandshake, pipe>>

(* Close: marks the request, closes the response if there is one, and the  *)
(* pipe.                                                                   *)
Close(r) ==
  /\ place[r] = "open"
  /\ shouldClose' = shouldClose \cup {r}
  /\ place' = [place EXCEPT ![r] = "closeBody"]
  /\ UNCHANGED <<cachedTransport, underlay, sawError, ofConn, ofHandshake, pipe>>

CloseBody(r) ==
  /\ place[r] = "closeBody"
  /\ response' = [response EXCEPT ![r] = IF @ = "open" THEN "closed" ELSE @]
  /\ pipe' = [pipe EXCEPT ![r] = FALSE]
  /\ place' = [place EXCEPT ![r] = "ended"]
  /\ UNCHANGED <<cachedTransport, underlay, shouldClose, sawError, ofConn, handshake, failure, err,
                 panicked>>

(* The connection of a transport is lost, and closed by the library.       *)
ConnCloses(r) ==
  /\ transport[r] = r
  /\ r \notin dead
  /\ dead' = dead \cup {r}
  /\ UNCHANGED <<cachedTransport, ofUser, transport, ofHandshake, pipe>>

Next ==
  /\ ~panicked
  /\ \E r \in Requests :
       \/ CheckCached(r) \/ TakeCached(r) \/ DialConn(r) \/ DialSubConn(r)
       \/ RoundTrip(r) \/ LoseResponse(r) \/ Fail(r)
       \/ \E good \in BOOLEAN : Respond(r, good)
       \/ KeepResponse(r) \/ ClearCache(r)
       \/ LoseBody(r) \/ WriteFails(r) \/ ReadFails(r) \/ Close(r) \/ CloseBody(r)
       \/ ConnCloses(r)

-----------------------------------------------------------------------------
(* Once a Write has told a user, which had not closed the request itself,  *)
(* of a request that failed because the connection is closed, no later     *)
(* request is given that transport, although the error travels from the    *)
(* handshake to Write through c.err and the pipe.  It is given one of      *)
(* which only a Read told, or that was lost with another error: it fails   *)
(* with "closed" in its turn.                                              *)
FailedNotReused ==
  \A r \in Requests :
    "write" \in sawError[r] /\ failure[r] = "closed" => cachedTransport # transport[r]
=============================================================================
