--------------------------- MODULE DeviceSessions ---------------------------
(***************************************************************************)
(* The services of a device that keep state for their callers (deskconn.go *)
(* registers them): shells, reversed ports, forwarded agents and log       *)
(* streams.  They share no state but the calling sessions; when one leaves *)
(* the device, handleSessionLeave stops what it has started.  Shells are   *)
(* left running.                                                           *)
(***************************************************************************)
EXTENDS ShellSessions, AgentForward, LogStreams

ASSUME SessionsAssumption == Clients = Daemons

deviceVars == <<shellVars, relayVars, logVars>>

\* A service nobody calls, as it was started.
NoShells == ShellInit({}) /\ authID = [a \in Callers |-> CHOOSE u \in Users : TRUE]
NoRelays == RelayInit({}) /\ relay = "reverse" /\ madeBy = [r \in Reqs |-> CHOOSE a \in Clients : TRUE]
NoLogs == LogInit({}) /\ caller = [s \in Streams |-> CHOOSE d \in Daemons : TRUE]

\* The services have no state in common, so that it is enough to use one of them at a time.
DeviceInit ==
    \/ ShellInit(Calls) /\ NoRelays /\ NoLogs
    \/ NoShells /\ RelayInit(Reqs) /\ NoLogs
    \/ NoShells /\ NoRelays /\ LogInit(Streams)

\* handleSessionLeave: the stops are one critical section after another.
handleSessionLeave(a) ==
    \/ (ReverseStop(a) \/ AgentStop(a)) /\ UNCHANGED <<shellVars, logVars>>
    \/ killAndDeleteByCaller(a) /\ UNCHANGED <<shellVars, relayVars>>

DeviceNext ==
    \/ ShellNext /\ UNCHANGED <<relayVars, logVars>>
    \/ AgentNext /\ UNCHANGED <<shellVars, logVars>>
    \/ LogNext /\ UNCHANGED <<shellVars, relayVars>>
    \/ \E a \in Clients : handleSessionLeave(a)

DeviceSpec == DeviceInit /\ [][DeviceNext]_deviceVars
=============================================================================
