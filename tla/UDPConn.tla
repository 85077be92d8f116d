------------------------------- MODULE UDPConn -------------------------------
(***************************************************************************)
(* A dialled UDPConn (netLayer/udpConn.go) with its read deadline          *)
(* (netLayer/pipedeadline.go).  A goroutine, the pump, waits for the first *)
(* write, then moves datagrams from the socket to inMsgChan; others read   *)
(* it, write to it, set its deadline and close it.                         *)
(*                                                                         *)
(* PipeDeadline is a channel that a timer closes; Set makes a new one when *)
(* it finds it closed.  The channels are numbered: all but the newest one, *)
(* cancel, are closed.  Set and Wait hold its mutex and are steps.         *)
(* The two booleans of UDPConn are tested and set without a lock.          *)
(***************************************************************************)
EXTENDS Naturals

CONSTANTS
  Writers,   (* the calls of Write                                         *)
  Closers,   (* the calls of Close by the users of the connection          *)
  InCap,     (* the capacity of inMsgChan, 20 in the code                  *)
  MaxSets    (* bound: how often the deadline is set                       *)

Pump == "pump"
Callers == Closers \cup {Pump}   (* the pump closes the connection as well *)

VARIABLES
  sockOpen,
  firstFlag,   (* clientFirstWriteChanClosed                               *)
  firstClosed, (* clientFirstWriteChan is closed                           *)
  msgs,        (* the number of datagrams in inMsgChan                     *)
  msgsFlag,    (* inMsgChanClosed                                          *)
  msgsClosed,  (* inMsgChan is closed                                      *)
  pump,        (* where the pump is                                        *)
  writer,      (* where each Write is                                      *)
  closer,      (* where each Close is                                      *)
  timer,       (* the read deadline's timer is running                     *)
  cancel,      (* the newest channel of the read deadline                  *)
  timedOut,    (* it is closed                                             *)
  sets,        (* how often the deadline was set                           *)
  reader,      (* where the reader is                                      *)
  waits,       (* the deadline channel it got from Wait                    *)
  crashed      (* a channel was closed twice, or sent on when closed       *)

vars == <<sockOpen, firstFlag, firstClosed, msgs, msgsFlag, msgsClosed, pump, writer, closer,
          timer, cancel, timedOut, sets, reader, waits, crashed>>

first == <<firstFlag, firstClosed>>
inbox == <<msgs, msgsFlag, msgsClosed>>
deadline == <<timer, cancel, timedOut, sets>>
readerVars == <<reader, waits>>

TypeOK ==
  /\ sockOpen \in BOOLEAN
  /\ firstFlag \in BOOLEAN /\ firstClosed \in BOOLEAN
  /\ msgs \in 0..InCap
  /\ msgsFlag \in BOOLEAN /\ msgsClosed \in BOOLEAN
  /\ pump \in {"wait", "read", "send", "close", "ended"}
  /\ writer \in [Writers -> {"idle", "signal", "flag", "done"}]
  /\ closer \in [Callers -> {"idle", "test", "closeMsgs", "closeSock", "done"}]
  /\ timer \in BOOLEAN /\ timedOut \in BOOLEAN
  /\ cancel \in 0..MaxSets /\ sets \in 0..MaxSets
  /\ reader \in {"idle", "waiting", "data", "eof", "timeout"}
  /\ waits \in 0..MaxSets
  /\ crashed \in BOOLEAN

Init ==
  /\ sockOpen = TRUE
  /\ firstFlag = FALSE /\ firstClosed = FALSE
  /\ msgs = 0 /\ msgsFlag = FALSE /\ msgsClosed = FALSE
  /\ pump = "wait"
  /\ writer = [w \in Writers |-> "idle"]
  /\ closer = [c \in Callers |-> "idle"]
  /\ timer = FALSE /\ cancel = 0 /\ timedOut = FALSE /\ sets = 0
  /\ reader = "idle" /\ waits = 0
  /\ crashed = FALSE

At(w, place) == writer[w] = place
Goto(w, place) == writer' = [writer EXCEPT ![w] = place]
CloseAt(c, place) == closer[c] = place
CloseGoto(c, place) == closer' = [closer EXCEPT ![c] = place]

-----------------------------------------------------------------------------
(* Write and WriteMsg test the flag; the deferred close of the channel     *)
(* comes after the write to the socket, whatever that returns.             *)
Write(w) ==
  /\ At(w, "idle")
  /\ Goto(w, IF firstFlag THEN "done" ELSE "signal")
  /\ UNCHANGED <<sockOpen, first, inbox, pump, closer, deadline, readerVars, crashed>>

Signal(w) ==
  /\ At(w, "signal")
  /\ crashed' = firstClosed
  /\ firstClosed' = TRUE
  /\ Goto(w, "flag")
  /\ UNCHANGED <<sockOpen, firstFlag, inbox, pump, closer, deadline, readerVars>>

Flag(w) ==
  /\ At(w, "flag")
  /\ firstFlag' = TRUE
  /\ Goto(w, "done")
  /\ UNCHANGED <<sockOpen, firstClosed, inbox, pump, closer, deadline, readerVars, crashed>>

-----------------------------------------------------------------------------
(* The pump. *)
PumpStart ==
  /\ pump = "wait"
  /\ firstClosed
  /\ pump' = "read"
  /\ UNCHANGED <<sockOpen, first, inbox, writer, closer, deadline, readerVars, crashed>>

PumpRead ==
  /\ pump = "read"
  /\ sockOpen
  /\ pump' = "send"
  /\ UNCHANGED <<sockOpen, first, inbox, writer, closer, deadline, readerVars, crashed>>

(* The socket is closed, or there was no datagram for UDP_timeout. *)
PumpFails ==
  /\ pump = "read"
  /\ pump' = "close"
  /\ closer' = [closer EXCEPT ![Pump] = "test"]
  /\ UNCHANGED <<sockOpen, first, inbox, writer, deadline, readerVars, crashed>>

PumpSend ==
  /\ pump = "send"
  /\ msgsClosed \/ msgs < InCap
  /\ crashed' = msgsClosed
  /\ msgs' = IF msgsClosed THEN msgs ELSE msgs + 1
  /\ pump' = "read"
  /\ UNCHANGED <<sockOpen, first, msgsFlag, msgsClosed, writer, closer, deadline, readerVars>>

PumpEnds ==
  /\ pump = "close"
  /\ CloseAt(Pump, "done")
  /\ pump' = "ended"
  /\ UNCHANGED <<sockOpen, first, inbox, writer, closer, deadline, readerVars, crashed>>

-----------------------------------------------------------------------------
(* Close; CloseMsgChan closes the channel only when it finds that nothing  *)
(* was written.                                                            *)
Close(c) ==
  /\ c \in Closers
  /\ CloseAt(c, "idle")
  /\ CloseGoto(c, "test")
  /\ UNCHANGED <<sockOpen, first, inbox, pump, writer, deadline, readerVars, crashed>>

(* Variant that takes the flag for the state of the message channel. *)
TestFlagInverted(c) ==
  /\ CloseAt(c, "test")
  /\ firstFlag' = TRUE
  /\ CloseGoto(c, IF ~firstFlag THEN "closeSock" ELSE "closeMsgs")
  /\ UNCHANGED <<sockOpen, firstClosed, inbox, pump, writer, deadline, readerVars, crashed>>

(* The flag is a plain boolean; its test and the assignment behind it are  *)
(* one step here.  Two that both saw FALSE would go on to CloseMsgs, where *)
(* the second does nothing or meets a closed channel.                      *)
TestFlag(c) ==
  /\ CloseAt(c, "test")
  /\ firstFlag' = TRUE
  /\ CloseGoto(c, IF firstFlag THEN "closeSock" ELSE "closeMsgs")
  /\ UNCHANGED <<sockOpen, firstClosed, inbox, pump, writer, deadline, readerVars, crashed>>

CloseMsgs(c) ==
  /\ CloseAt(c, "closeMsgs")
  /\ crashed' = (~msgsFlag /\ msgsClosed)
  /\ msgsClosed' = (msgsClosed \/ ~msgsFlag)
  /\ msgsFlag' = TRUE
  /\ CloseGoto(c, "closeSock")
  /\ UNCHANGED <<sockOpen, first, msgs, pump, writer, deadline, readerVars>>

CloseSock(c) ==
  /\ CloseAt(c, "closeSock")
  /\ sockOpen' = FALSE
  /\ CloseGoto(c, "done")
  /\ UNCHANGED <<first, inbox, pump, writer, deadline, readerVars, crashed>>

-----------------------------------------------------------------------------
(* PipeDeadline.Set, to no deadline, to one in the future or to a past one. *)
(* Variant that opens the old channel again. *)
FreshNever == UNCHANGED cancel

Fresh == cancel' = IF timedOut THEN cancel + 1 ELSE cancel

SetDeadline ==
  /\ sets < MaxSets
  /\ sets' = sets + 1
  /\ \/ timer' \in BOOLEAN /\ Fresh /\ timedOut' = FALSE
     \/ timer' = FALSE /\ timedOut' = TRUE /\ UNCHANGED cancel
  /\ UNCHANGED <<sockOpen, first, inbox, pump, writer, closer, readerVars, crashed>>

Fire ==
  /\ timer
  /\ timer' = FALSE
  /\ timedOut' = TRUE
  /\ UNCHANGED <<cancel, sets, sockOpen, first, inbox, pump, writer, closer, readerVars, crashed>>

-----------------------------------------------------------------------------
(* ReadMsg: Wait gives it the channel of the moment. *)
ReadMsg ==
  /\ reader \in {"idle", "data", "timeout"}
  /\ reader' = "waiting"
  /\ waits' = cancel
  /\ UNCHANGED <<sockOpen, first, inbox, pump, writer, closer, deadline, crashed>>

GetData ==
  /\ reader = "waiting"
  /\ msgs > 0
  /\ msgs' = msgs - 1
  /\ reader' = "data"
  /\ UNCHANGED <<sockOpen, first, msgsFlag, msgsClosed, pump, writer, closer, deadline, waits, crashed>>

GetEOF ==
  /\ reader = "waiting"
  /\ msgs = 0 /\ msgsClosed
  /\ reader' = "eof"
  /\ UNCHANGED <<sockOpen, first, inbox, pump, writer, closer, deadline, waits, crashed>>

TimeOut ==
  /\ reader = "waiting"
  /\ waits < cancel \/ timedOut
  /\ reader' = "timeout"
  /\ UNCHANGED <<sockOpen, first, inbox, pump, writer, closer, deadline, waits, crashed>>

PumpStep == PumpStart \/ PumpFails \/ PumpSend \/ PumpEnds
CloseStep(c) == TestFlag(c) \/ CloseMsgs(c) \/ CloseSock(c)
ReaderStep == GetData \/ GetEOF \/ TimeOut

Next ==
  /\ ~crashed
  /\ \/ \E w \in Writers : Write(w) \/ Signal(w) \/ Flag(w)
     \/ \E c \in Callers : Close(c) \/ CloseStep(c)
     \/ PumpStep \/ PumpRead \/ SetDeadline \/ Fire \/ ReadMsg \/ ReaderStep

Spec == Init /\ [][Next]_vars

=============================================================================
