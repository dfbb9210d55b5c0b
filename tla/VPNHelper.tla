----------------------------- MODULE VPNHelper -----------------------------
(***************************************************************************)
(* deskconn-vpnd (iptun/server.go, iptun/client.go,                        *)
(* cmd/deskconn-vpnd/main.go): a privileged process that serves one        *)
(* connection.  Its client, a goroutine of deskconnd, sends one request at *)
(* a time and waits for the answer; the process changes the kernel's       *)
(* network configuration and remembers how to undo what it did.  When the  *)
(* connection ends, for whatever reason, it undoes what is left, last      *)
(* change first, and exits.                                                *)
(*                                                                         *)
(* This module has the processes, their connections and the kernel; a      *)
(* module that EXTENDS it has the clients.  A kind of change is either a   *)
(* setting, which has a value, or an iptables rule, which may be installed *)
(* several times.                                                          *)
(***************************************************************************)
EXTENDS Naturals, Sequences, FiniteSets

CONSTANTS
    Helpers,      \* deskconn-vpnd processes
    Callers,      \* goroutines of deskconnd that call a helper
    Rules,        \* iptables rules: masquerade, forward_accept, forward_established
    bootForward   \* net.ipv4.ip_forward before anything is changed

ASSUME RulesAssumption == Rules \cap {"tun", "sysctl"} = {}
ASSUME BootForwardAssumption == bootForward \in {0, 1}

VARIABLES
    vpnd,       \* state of a process
    conn,       \* its connection: "closed" by the client, "cut" by a signal
    queue,      \* requests on the connection that are not read yet
    undo,       \* Server.undo
    reply,      \* what has become of a caller's request
    previous,   \* the previous value that SetSysctl returned to a caller
    ipForward,  \* net.ipv4.ip_forward
    rules       \* copies of each rule a process has in the kernel

procVars   == <<vpnd, conn, undo>>
rpcVars    == <<queue, reply, previous>>
kernelVars == <<ipForward, rules>>
helperVars == <<procVars, rpcVars, kernelVars>>

Kinds == {"tun", "sysctl"} \cup Rules

Request == [op : {"do", "undo"}, kind : Kinds, value : {0, 1}, from : Callers]
Entry == [kind : {"sysctl"} \cup Rules, value : {0, 1}]

HelperTypeOK ==
    /\ vpnd \in [Helpers -> {"new", "serving", "unwinding", "gone"}]
    /\ conn \in [Helpers -> {"none", "open", "closed", "cut"}]
    /\ queue \in [Helpers -> Seq(Request)]
    /\ undo \in [Helpers -> Seq(Entry)]
    /\ reply \in [Callers -> {"none", "sent", "ok", "err"}]
    /\ previous \in [Callers -> {0, 1}]
    /\ ipForward \in {0, 1}
    /\ rules \in [Helpers -> [Rules -> Nat]]

HelperInit ==
    /\ vpnd = [h \in Helpers |-> "new"]
    /\ conn = [h \in Helpers |-> "none"]
    /\ queue = [h \in Helpers |-> <<>>]
    /\ undo = [h \in Helpers |-> <<>>]
    /\ reply = [c \in Callers |-> "none"]
    /\ previous = [c \in Callers |-> bootForward]
    /\ ipForward = bootForward
    /\ rules = [h \in Helpers |-> [r \in Rules |-> 0]]

-----------------------------------------------------------------------------
(* The undo stack. *)

Push(h, kind, value) ==
    undo' = [undo EXCEPT ![h] = Append(@, [kind |-> kind, value |-> value])]

\* The positions of the entries of a kind.
Positions(u, kind) == {i \in 1 .. Len(u) : u[i].kind = kind}

Without(u, i) == SubSeq(u, 1, i - 1) \o SubSeq(u, i + 1, Len(u))

\* pop: the last entry of the kind goes, if there is one.
Pop(h, kind) ==
    \/ /\ Positions(undo[h], kind) = {}
       /\ undo' = undo
    \/ \E i \in Positions(undo[h], kind) :
        /\ \A j \in Positions(undo[h], kind) : j <= i
        /\ undo' = [undo EXCEPT ![h] = Without(@, i)]

-----------------------------------------------------------------------------
(* The client's end of the connection. *)

\* DialClient; the process has been started with LaunchHelper.
Dial(h) ==
    /\ vpnd[h] = "new"
    /\ vpnd' = [vpnd EXCEPT ![h] = "serving"]

\* The first half of Client.call.
Send(c, h, op, kind, value) ==
    /\ reply[c] = "none"
    /\ conn[h] = "open"
    /\ queue' = [queue EXCEPT ![h] =
                    Append(@, [op |-> op, kind |-> kind, value |-> value, from |-> c])]
    /\ reply' = [reply EXCEPT ![c] = "sent"]
    /\ UNCHANGED <<previous, procVars, kernelVars>>

\* The second half: the call succeeds ...
Succeeded(c) == reply[c] = "ok"

\* ... or it fails, because the helper says so or because the connection is gone
\* (then an answer that is on its way is lost).
Failed(c, h) == reply[c] = "err" \/ conn[h] # "open"

\* The call is over.
Return(c) == reply' = [reply EXCEPT ![c] = "none"]

\* Client.Close
CloseConn(hs) ==
    conn' = [h \in Helpers |-> IF h \in hs /\ conn[h] = "open" THEN "closed" ELSE conn[h]]

-----------------------------------------------------------------------------
(* The process. *)

\* A process that is "unwinding" reads no requests, nor does one that was signalled.
Reads(h) == vpnd[h] = "serving" /\ conn[h] # "cut" /\ queue[h] # <<>>

Answer(c, a) == reply' = [reply EXCEPT ![c] = IF @ = "sent" THEN a ELSE @]

\* handleOpenTUN and handleConfigureTUN, which every client calls in this order: there
\* is nothing to undo after either, the device and its address go with its fd.
DoDevice(h, m) ==
    /\ m.op = "do" /\ m.kind = "tun"
    /\ UNCHANGED <<undo, previous, kernelVars>>

\* handleSetSysctl
DoSetSysctl(h, m) ==
    /\ m.op = "do" /\ m.kind = "sysctl"
    /\ ipForward' = m.value
    /\ Push(h, "sysctl", ipForward)
    /\ previous' = [previous EXCEPT ![m.from] = ipForward]
    /\ rules' = rules

\* handleRestoreSysctl
DoRestoreSysctl(h, m) ==
    /\ m.op = "undo" /\ m.kind = "sysctl"
    /\ ipForward' = m.value
    /\ Pop(h, "sysctl")
    /\ UNCHANGED <<previous, rules>>

\* Mutant: the rule is added but not recorded.
DoAddRuleUnrecorded(h, m) ==
    /\ m.op = "do" /\ m.kind \in Rules
    /\ rules' = [rules EXCEPT ![h][m.kind] = @ + 1]
    /\ UNCHANGED <<undo, previous, ipForward>>

\* handleAddMasquerade, handleAddForwardAccept, handleAddForwardEstablished
DoAddRule(h, m) ==
    /\ m.op = "do" /\ m.kind \in Rules
    /\ rules' = [rules EXCEPT ![h][m.kind] = @ + 1]
    /\ Push(h, m.kind, 0)
    /\ UNCHANGED <<previous, ipForward>>

\* handleDelMasquerade, handleDelForwardAccept, handleDelForwardEstablished
DoDelRule(h, m) ==
    /\ m.op = "undo" /\ m.kind \in Rules
    /\ rules[h][m.kind] > 0
    /\ rules' = [rules EXCEPT ![h][m.kind] = @ - 1]
    /\ Pop(h, m.kind)
    /\ UNCHANGED <<previous, ipForward>>

\* Serve reads a request and carries it out.
Handle(h) ==
    /\ Reads(h)
    /\ LET m == Head(queue[h])
       IN  /\ \/ DoDevice(h, m)
              \/ DoSetSysctl(h, m) \/ DoRestoreSysctl(h, m)
              \/ DoAddRule(h, m) \/ DoDelRule(h, m)
           /\ Answer(m.from, "ok")
    /\ queue' = [queue EXCEPT ![h] = Tail(@)]
    /\ UNCHANGED <<vpnd, conn>>

\* The command fails: an error response, and no change.
Refuse(h) ==
    /\ Reads(h)
    /\ Answer(Head(queue[h]).from, "err")
    /\ queue' = [queue EXCEPT ![h] = Tail(@)]
    /\ UNCHANGED <<procVars, previous, kernelVars>>

\* SIGINT, SIGTERM or SIGHUP: the process closes its end.
Signal(h) ==
    /\ vpnd[h] = "serving"
    /\ conn[h] = "open"
    /\ conn' = [conn EXCEPT ![h] = "cut"]
    /\ UNCHANGED <<vpnd, undo, rpcVars, kernelVars>>

\* A signal, or idleTimeout, before anybody has connected.
GiveUp(h) ==
    /\ vpnd[h] = "new"
    /\ vpnd' = [vpnd EXCEPT ![h] = "gone"]
    /\ UNCHANGED <<conn, undo, rpcVars, kernelVars>>

\* The read in Serve fails.  What the client sent before it closed is read first.
ConnectionEnds(h) ==
    /\ vpnd[h] = "serving"
    /\ \/ conn[h] = "closed" /\ queue[h] = <<>>
       \/ conn[h] = "cut"
    /\ vpnd' = [vpnd EXCEPT ![h] = "unwinding"]
    /\ queue' = [queue EXCEPT ![h] = <<>>]
    /\ UNCHANGED <<conn, undo, reply, previous, kernelVars>>

\* One iteration of unwindAll.
Unwind(h) ==
    /\ vpnd[h] = "unwinding"
    /\ undo[h] # <<>>
    /\ LET e == undo[h][Len(undo[h])]
       IN  IF e.kind = "sysctl"
           THEN /\ ipForward' = e.value
                /\ rules' = rules
           ELSE /\ rules' = [rules EXCEPT ![h][e.kind] = @ - 1]
                /\ ipForward' = ipForward
    /\ undo' = [undo EXCEPT ![h] = SubSeq(@, 1, Len(@) - 1)]
    /\ UNCHANGED <<vpnd, conn, rpcVars>>

Exit(h) ==
    /\ vpnd[h] = "unwinding"
    /\ undo[h] = <<>>
    /\ vpnd' = [vpnd EXCEPT ![h] = "gone"]
    /\ UNCHANGED <<conn, undo, rpcVars, kernelVars>>

\* What the process does of its own accord.
Serve(h) == Handle(h) \/ Refuse(h) \/ ConnectionEnds(h) \/ Unwind(h) \/ Exit(h)

\* Its environment.
Environment(h) == Signal(h) \/ GiveUp(h)
=============================================================================
