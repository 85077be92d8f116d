---------------------------------- MODULE Tun ----------------------------------
(* The tun server (proxy/tun/tun.go) and what it changes of the system on  *)
(* linux (proxy/tun/route_linux.go, netLayer/interface_linux.go): the tun  *)
(* device, the default routes, the name server.  StartListen and Stop are  *)
(* steps: the machine calls them one at a time, but Stop, for a server     *)
(* that is deleted, also without a start before.                           *)
(*                                                                         *)
(* The commands of a list are run until one fails.  The routes of the      *)
(* direct list and the stack of gvisor are left out, and manual mode,      *)
(* where the user is told the commands.                                    *)
EXTENDS Naturals, Sequences

CONSTANT MaxOpens  (* bound: how often the server is started               *)

VARIABLES
  server,      (* fields of Server: autoRoute, stopped, stackCloser, tunDev *)
  system,      (* device, whether it is held open, default routes by metric, *)
               (* dns                                                      *)
  remembered,  (* rememberedRouterIP and Name, rememberedRouterDns         *)
  opens,
  disturbed,   (* a command or the stack failed, or a server that ran was  *)
               (* started                                                  *)
  died         (* a nil closer was called                                  *)

vars == <<server, system, remembered, opens, disturbed, died>>

Nothing == [router |-> "", dns |-> ""]

Init ==
  /\ server \in [autoRoute : BOOLEAN, stopped : {FALSE}, stackCloser : {FALSE}, tunDev : {FALSE}]
  /\ system \in [device : {"none", "made"}, held : {FALSE}, routes : {<<"router">>}, dns : {"own"}]
  /\ remembered = Nothing
  /\ opens = 0
  /\ disturbed = FALSE
  /\ died = FALSE

-----------------------------------------------------------------------------
(* Commands, and the system after the first n of a list.  A device that is *)
(* down or gone takes its route with it: there is one, and it is the first *)
(* as its metric is the lowest.                                            *)
NoTunRoutes(s) ==
  [s EXCEPT !.routes = IF @ # <<>> /\ Head(@) = "tun" THEN Tail(@) ELSE @]

Ran(s, command) ==
  CASE command = "tuntap add" -> [s EXCEPT !.device = "made"]
    [] command = "tuntap del" -> NoTunRoutes([s EXCEPT !.device = "none"])
    [] command = "link up" -> s
    [] command = "link down" -> NoTunRoutes(s)
    [] command = "route del default" -> [s EXCEPT !.routes = Tail(@)]
    [] command = "route add tun" -> [s EXCEPT !.routes = <<"tun">> \o @]
    [] command = "route add router" -> [s EXCEPT !.routes = Append(@, "router")]

(* What fails for sure; others may.                                        *)
Refused(s, command) ==
  \/ command = "tuntap add" /\ s.device # "none"
  \/ command = "tuntap del" /\ (s.device = "none" \/ s.held)
  \/ command \in {"link up", "link down"} /\ s.device = "none"
  \/ command = "route del default" /\ s.routes = <<>>

After(s, list, n) ==
  LET after[i \in 0..Len(list)] == IF i = 0 THEN s ELSE Ran(after[i - 1], list[i])
  IN after[n]

(* The numbers of commands that ExecCmdList may run without a failure. *)
ExecCmdList(s, list) ==
  {n \in 0..Len(list) : \A i \in 1..n : ~Refused(After(s, list, i - 1), list[i])}

PreCommands == <<"tuntap add", "link up">>
UpCommands == <<"route del default", "route add tun", "route add router">>
DownCommands == <<"link down">>
AfterCloseCommands == <<"tuntap del">>

GetGateway(s) == IF s.routes = <<>> THEN "" ELSE Head(s.routes)

SetSystemDNS(s, dns) == [s EXCEPT !.dns = dns]

(* Variant that sets the name server before it asks for the old one.       *)
RememberedLate(s) == [router |-> GetGateway(s), dns |-> "8.8.8.8"]

(* What autoRouteFunc remembers. *)
Remembered(s) == [router |-> GetGateway(s), dns |-> s.dns]

-----------------------------------------------------------------------------
(* tun.Open attaches to a device, or makes one that goes when it is closed. *)
Opened(s) == [s EXCEPT !.held = TRUE, !.device = IF @ = "none" THEN "own" ELSE @]

Closed(s) ==
  IF s.device = "own" THEN NoTunRoutes([s EXCEPT !.held = FALSE, !.device = "none"])
  ELSE [s EXCEPT !.held = FALSE]

Pre(n) == IF server.autoRoute THEN After(system, PreCommands, n) ELSE system

OpenFails ==
  /\ \E n \in ExecCmdList(system, PreCommands) : system' = Pre(n)
  /\ server' = [server EXCEPT !.stopped = TRUE]
  /\ UNCHANGED remembered

(* autoRouteFunc, after k commands; without a gateway it does nothing.     *)
Routed(s, k) ==
  IF ~server.autoRoute \/ GetGateway(s) = "" THEN s
  ELSE SetSystemDNS(After(s, UpCommands, k), "8.8.8.8")

Opens ==
  /\ ~system.held
  /\ \E n \in ExecCmdList(system, PreCommands) :
       LET s == Opened(Pre(n))
       IN \E k \in ExecCmdList(s, UpCommands) :
            /\ remembered' = IF server.autoRoute /\ GetGateway(s) # "" THEN Remembered(s)
                             ELSE remembered
            /\ \/ (* tun.Listen fails; what was routed stays so. *)
                  /\ system' = Closed(Routed(s, k))
                  /\ server' = [server EXCEPT !.stopped = FALSE]
                  /\ disturbed' = TRUE
               \/ /\ system' = Routed(s, k)
                  /\ server' = [server EXCEPT !.stopped = FALSE, !.stackCloser = TRUE,
                                              !.tunDev = TRUE]
                  /\ disturbed' = (disturbed \/ (server.autoRoute /\ k # Len(UpCommands)))

StartListen ==
  /\ ~died
  /\ opens < MaxOpens
  /\ opens' = opens + 1
  /\ Opens \/ (OpenFails /\ disturbed' = (disturbed \/ system.held))
  /\ UNCHANGED died

-----------------------------------------------------------------------------
(* autoRouteDownFunc, after k commands, restores the name server if all    *)
(* succeed; without a gateway remembered it does nothing.                  *)
Down(s, k) ==
  IF ~server.autoRoute \/ remembered.router = "" THEN s
  ELSE IF k = Len(DownCommands) /\ remembered.dns # ""
       THEN SetSystemDNS(After(s, DownCommands, k), remembered.dns)
       ELSE After(s, DownCommands, k)

Stop ==
  /\ ~died
  /\ ~server.stopped
  /\ \E k \in ExecCmdList(system, DownCommands) :
       LET s == Closed(Down(system, k))
       IN \/ /\ server.stackCloser /\ server.tunDev
             /\ \E n \in IF server.autoRoute THEN ExecCmdList(s, AfterCloseCommands) ELSE {0} :
                  system' = After(s, AfterCloseCommands, n)
             /\ server' = [server EXCEPT !.stopped = TRUE, !.stackCloser = FALSE, !.tunDev = FALSE]
             /\ remembered' = Nothing
             /\ disturbed' = (disturbed \/ (server.autoRoute /\ k # Len(DownCommands)))
             /\ UNCHANGED died
          \/ /\ ~(server.stackCloser /\ server.tunDev)
             /\ system' = Down(system, k)
             /\ server' = [server EXCEPT !.stopped = TRUE]
             /\ died' = TRUE
             /\ UNCHANGED <<remembered, disturbed>>
  /\ UNCHANGED opens

Next == StartListen \/ Stop

-----------------------------------------------------------------------------
(* A server that is stopped has closed its device and left the system with *)
(* the route and the name server that it had, however often it was started *)
(* and stopped before.                                                     *)
Restored ==
  server.stopped /\ ~disturbed /\ ~died =>
    /\ ~system.held
    /\ system.routes = <<"router">>
    /\ system.dns = "own"
================================================================================
