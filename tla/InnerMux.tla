------------------------------- MODULE InnerMux -------------------------------
(***************************************************************************)
(* The client side of the inner mux: many requests (one goroutine each,    *)
(* running main.go dialClient) share one smux session kept in the Innermux *)
(* field of proxy.Base.  A request locks the client and looks at the       *)
(* session; when it is established the request unlocks at once and opens a *)
(* stream on it (dialInnerProxy), otherwise it dials the outer connection  *)
(* with the lock held until it returns.  A request whose stream could not  *)
(* be opened on the established session closes the session and falls       *)
(* through to the outer dial, this time without the lock.                  *)
(*                                                                         *)
(* A request makes at most one outer connection, which carries its name,   *)
(* and at most two sessions: one over that connection, and one over the    *)
(* nil that it passes for it on the reuse path.  InnerMuxEstablished is    *)
(* one read: its two loads of the field have nothing between them.  Every  *)
(* other access to the field is a step of its own, as nothing but the      *)
(* mutex orders them and half of them do not hold it.                      *)
(***************************************************************************)
CONSTANTS
  Requests,  (* the goroutines that dial through this client *)
  None       (* the nil pointer                              *)

ASSUME NoneAssumption == None \notin Requests \cup [by : Requests, dialled : BOOLEAN]

VARIABLES
  lock,      (* the holder of the client's mutex, or None                     *)
  innermux,  (* Base.Innermux: the session last stored, or None               *)
  made,      (* the sessions that smux.Client has made                        *)
  open,      (* those in use for which IsClosed() is false                    *)
  wrcs,      (* the requests whose outer connection was dialled and handshook *)
  pc,        (* where each request is in dialClient                           *)
  path,      (* how it got there: see Paths                                   *)
  sess,      (* the session dialInnerProxy holds in smuxSession               *)
  crashed,   (* a nil pointer was dereferenced: the process is gone           *)
  trouble    (* history: a session has died or an inner dialing has failed    *)

vars == <<lock, innermux, made, open, wrcs, pc, path, sess, crashed, trouble>>

Sessions == [by : Requests, dialled : BOOLEAN]

Session(r) == [by |-> r, dialled |-> r \in wrcs]

(* first: dials with the lock held.  reuse: found the session established. *)
(* redial: its inner dialing failed, dials again without the lock.         *)
Paths == {"none", "first", "reuse", "redial"}

Ended == {"relay", "failed"}

PCs == {"lock", "check", "dial", "get", "load", "store", "open", "shake",
        "closeCheck", "closeCall", "closeNil", "innerFailed"} \cup Ended

(* The pointer to a session is not nil where it is dereferenced. *)
TypeOK ==
  /\ lock \in Requests \cup {None}
  /\ innermux \in Sessions \cup {None}
  /\ made \subseteq Sessions
  /\ open \subseteq Sessions
  /\ wrcs \subseteq Requests
  /\ pc \in [Requests -> PCs]
  /\ path \in [Requests -> Paths]
  /\ sess \in [Requests -> Sessions \cup {None}]
  /\ \A r \in Requests : pc[r] \in {"open", "shake", "relay"} => sess[r] # None
  /\ crashed \in BOOLEAN
  /\ trouble \in BOOLEAN

Init ==
  /\ lock = None
  /\ innermux = None
  /\ made = {}
  /\ open = {}
  /\ wrcs = {}
  /\ pc = [r \in Requests |-> "lock"]
  /\ path = [r \in Requests |-> "none"]
  /\ sess = [r \in Requests |-> None]
  /\ crashed = FALSE
  /\ trouble = FALSE

-----------------------------------------------------------------------------
InnerMuxEstablished == innermux # None /\ innermux \in open

At(r, l) == ~crashed /\ pc[r] = l

Goto(r, l) == pc' = [pc EXCEPT ![r] = l]

(* Variant in which Unlock is not deferred and the failing returns skip it. *)
ReturnNotDeferred(r, l) ==
  /\ Goto(r, l)
  /\ lock' = IF path[r] = "first" /\ l = "relay" THEN None ELSE lock

(* What the deferred Unlock does when dialClient returns. *)
Return(r, l) ==
  /\ Goto(r, l)
  /\ lock' = IF path[r] = "first" THEN None ELSE lock

-----------------------------------------------------------------------------
(* dialClient, up to the outer dial. *)

Lock(r) ==
  /\ At(r, "lock")
  /\ lock = None
  /\ lock' = r
  /\ Goto(r, "check")
  /\ UNCHANGED <<innermux, made, open, wrcs, path, sess, crashed, trouble>>

(* Variant with the lock given back before the outer dial. *)
CheckEarlyUnlock(r) ==
  /\ At(r, "check")
  /\ lock' = None
  /\ \/ /\ InnerMuxEstablished
        /\ path' = [path EXCEPT ![r] = "reuse"]
        /\ Goto(r, "get")
     \/ /\ ~InnerMuxEstablished
        /\ path' = [path EXCEPT ![r] = "first"]
        /\ Goto(r, "dial")
  /\ UNCHANGED <<innermux, made, open, wrcs, sess, crashed, trouble>>

Check(r) ==
  /\ At(r, "check")
  /\ \/ /\ InnerMuxEstablished
        /\ lock' = None
        /\ path' = [path EXCEPT ![r] = "reuse"]
        /\ Goto(r, "get")
     \/ /\ ~InnerMuxEstablished
        /\ path' = [path EXCEPT ![r] = "first"]
        /\ Goto(r, "dial")
        /\ UNCHANGED lock
  /\ UNCHANGED <<innermux, made, open, wrcs, sess, crashed, trouble>>

(* Everything from the address of the client to its proxy handshake: only  *)
(* whether it returns a connection matters to the session.                 *)
OuterDial(r) ==
  /\ At(r, "dial")
  /\ \/ /\ wrcs' = wrcs \cup {r}
        /\ Goto(r, "get")
        /\ UNCHANGED lock
     \/ /\ Return(r, "failed")
        /\ UNCHANGED wrcs
  /\ UNCHANGED <<innermux, made, open, path, sess, crashed, trouble>>

-----------------------------------------------------------------------------
(* dialInnerProxy, which begins with GetClientInnerMuxSession(wrc).  A     *)
(* request on the reuse path passes a nil wrc, and smux.Client accepts it. *)

GetSession(r) ==
  /\ At(r, "get")
  /\ \/ /\ InnerMuxEstablished
        /\ Goto(r, "load")
        /\ UNCHANGED made
     \/ /\ ~InnerMuxEstablished
        /\ made' = made \cup {Session(r)}
        /\ Goto(r, "store")
  /\ UNCHANGED <<lock, innermux, open, wrcs, path, sess, crashed, trouble>>

(* Variant that does not look whether the session is nil. *)
LoadUnchecked(r) ==
  /\ At(r, "load")
  /\ sess' = [sess EXCEPT ![r] = innermux]
  /\ Goto(r, "open")
  /\ UNCHANGED <<lock, innermux, made, open, wrcs, path, crashed, trouble>>

LoadSession(r) ==
  /\ At(r, "load")
  /\ sess' = [sess EXCEPT ![r] = innermux]
  /\ Goto(r, IF innermux = None THEN "innerFailed" ELSE "open")
  /\ UNCHANGED <<lock, innermux, made, open, wrcs, path, crashed, trouble>>

(* Others may find a session over nil here before it panics. *)
StoreSession(r) ==
  /\ At(r, "store")
  /\ open' = open \cup {Session(r)}
  /\ innermux' = Session(r)
  /\ sess' = [sess EXCEPT ![r] = Session(r)]
  /\ Goto(r, "open")
  /\ UNCHANGED <<lock, made, wrcs, path, crashed, trouble>>

(* The goroutines of a session over nil read and write through it. *)
NilPanics ==
  /\ ~crashed
  /\ \E s \in made : ~s.dialled
  /\ crashed' = TRUE
  /\ UNCHANGED <<lock, innermux, made, open, wrcs, pc, path, sess, trouble>>

(* OpenStream fails on a closed session and may fail on an open one; it    *)
(* waits until its first frame is written, which never is over nil.        *)
OpenStream(r) ==
  /\ At(r, "open")
  /\ \/ /\ sess[r] \in open
        /\ sess[r].dialled
        /\ Goto(r, "shake")
        /\ UNCHANGED trouble
     \/ /\ Goto(r, "closeCheck")
        /\ trouble' = TRUE
  /\ UNCHANGED <<lock, innermux, made, open, wrcs, path, sess, crashed>>

(* CloseInnerMuxSession works on the field, not on the session that failed. *)
CloseCheck(r) ==
  /\ At(r, "closeCheck")
  /\ Goto(r, IF InnerMuxEstablished THEN "closeCall" ELSE "innerFailed")
  /\ UNCHANGED <<lock, innermux, made, open, wrcs, path, sess, crashed, trouble>>

CloseCall(r) ==
  /\ At(r, "closeCall")
  /\ \/ /\ innermux = None
        /\ crashed' = TRUE
        /\ UNCHANGED <<open, pc>>
     \/ /\ innermux # None
        /\ open' = open \ {innermux}
        /\ Goto(r, "closeNil")
        /\ UNCHANGED crashed
  /\ UNCHANGED <<lock, innermux, made, wrcs, path, sess, trouble>>

CloseNil(r) ==
  /\ At(r, "closeNil")
  /\ innermux' = None
  /\ Goto(r, "innerFailed")
  /\ UNCHANGED <<lock, made, open, wrcs, path, sess, crashed, trouble>>

(* The inner proxy's Handshake or EstablishUDPChannel on the new stream. *)
InnerHandshake(r) ==
  /\ At(r, "shake")
  /\ \/ /\ Return(r, "relay")
        /\ UNCHANGED trouble
     \/ /\ Goto(r, "innerFailed")
        /\ trouble' = TRUE
        /\ UNCHANGED lock
  /\ UNCHANGED <<innermux, made, open, wrcs, path, sess, crashed>>

(* A failed inner dialing is tried again from the outer dial on the reuse  *)
(* path and ends the request on the other two.                             *)
InnerFailed(r) ==
  /\ At(r, "innerFailed")
  /\ \/ /\ path[r] = "reuse"
        /\ path' = [path EXCEPT ![r] = "redial"]
        /\ Goto(r, "dial")
        /\ UNCHANGED lock
     \/ /\ path[r] # "reuse"
        /\ Return(r, "failed")
        /\ UNCHANGED path
  /\ UNCHANGED <<innermux, made, open, wrcs, sess, crashed, trouble>>

-----------------------------------------------------------------------------
(* The peer, the keepalive timer of smux or a broken connection. *)
SessionDies(s) ==
  /\ ~crashed
  /\ s \in open
  /\ open' = open \ {s}
  /\ trouble' = TRUE
  /\ UNCHANGED <<lock, innermux, made, wrcs, pc, path, sess, crashed>>

(* Base.Stop, from a hot deletion of the client: takes no lock. *)
Stop ==
  /\ ~crashed
  /\ innermux \in open
  /\ open' = open \ {innermux}
  /\ trouble' = TRUE
  /\ UNCHANGED <<lock, innermux, made, wrcs, pc, path, sess, crashed>>

Terminated ==
  /\ crashed \/ \A r \in Requests : pc[r] \in Ended
  /\ UNCHANGED vars

(* The steps a request takes by itself, without waiting for a peer. *)
LocalStep(r) ==
  \/ Lock(r)
  \/ Check(r)
  \/ GetSession(r)
  \/ LoadSession(r)
  \/ StoreSession(r)
  \/ OpenStream(r)
  \/ CloseCheck(r)
  \/ CloseCall(r)
  \/ CloseNil(r)
  \/ InnerFailed(r)

PeerStep(r) == OuterDial(r) \/ InnerHandshake(r)

Next ==
  \/ \E r \in Requests : LocalStep(r) \/ PeerStep(r)
  \/ \E s \in Sessions : SessionDies(s)
  \/ Stop
  \/ NilPanics
  \/ Terminated

Spec == Init /\ [][Next]_vars

(* The scheduler runs every goroutine that is not blocked.  Nothing makes  *)
(* a peer answer: the outer dial and the inner handshake have no fairness. *)
FairSpec == Spec /\ \A r \in Requests : WF_vars(LocalStep(r))

-----------------------------------------------------------------------------
(* The lock is held exactly by the request that is between its check and   *)
(* the end of a first dial: a redial never unlocks what it does not hold   *)
(* (a fatal error of the runtime) and no return leaves the client locked.  *)
LockDiscipline ==
  \A r \in Requests :
    lock = r <=> pc[r] = "check" \/ (path[r] = "first" /\ pc[r] \notin Ended)

(* As long as no session has died and no inner dialing has failed, the     *)
(* lock does what the comment in dialClient asks of it: there is at most   *)
(* one session, it is the one in the field, every outer connection carries *)
(* it or is about to, and no session is made over nil.                     *)
OneSessionUntilTrouble ==
  ~trouble =>
    /\ ~crashed
    /\ \A s \in open : s = innermux
    /\ \A s \in made : s.dialled
    /\ \A r \in wrcs : Session(r) \in open \/ pc[r] \in {"get", "store"}

(* Whoever waits for the lock waits for a peer: again and again the lock   *)
(* is free, or its holder is inside the outer dial or the inner handshake. *)
LockHeldOnlyForPeers ==
  []<>(\/ crashed
       \/ lock = None
       \/ \E r \in Requests : lock = r /\ pc[r] \in {"dial", "shake"})

(* The comment at main.go:1242: only one inner mux connection is allowed   *)
(* to exist.  Sessions over nil are not counted: they panic.               *)
OneInnerMux == \A s, t \in open : s.dialled /\ t.dialled => s = t
=============================================================================
