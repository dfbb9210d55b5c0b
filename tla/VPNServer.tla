----------------------------- MODULE VPNServer -----------------------------
(***************************************************************************)
(* The VPN exit node of deskconnd (iptunnel.go, vpnServer): "vpn start"    *)
(* arms it with a connection to a deskconn-vpnd process, after which it    *)
(* accepts one tunnel at a time.  Setting a tunnel up is a series of calls *)
(* to the helper made without a lock; meanwhile the user may stop serving  *)
(* and start again, the daemon may shut down or crash, the helper may be   *)
(* killed and the channel may close.                                       *)
(*                                                                         *)
(* A member of Callers is a VPN data channel: it also names the goroutine  *)
(* of handleVPNChannel, and the vpnTunnelSession it creates.               *)
(***************************************************************************)
EXTENDS VPNHelper

CONSTANTS
    RuleOrder,  \* the rules in the order in which they are added
    None        \* the nil pointer

ASSUME RuleOrderAssumption == RuleOrder \in Seq(Rules)
ASSUME NoneAssumption == None \notin Helpers \cup Callers

VARIABLES
    helper,    \* vpn.helper
    active,    \* vpn.active
    starting,  \* vpn.starting
    closed,    \* vpn.closed
    pc,        \* where handleVPNChannel is
    uses,      \* its local helper
    step,      \* the change it makes, or undoes
    sess,      \* the vpnTunnelSession
    chan,      \* the data channel
    onClose,   \* its OnClose callback, and the closeVPNSession that runs from it
    stopping   \* DisarmVPNServing and CloseVPNTunnel calls: <<helper, sess>>

srvVars  == <<helper, active, starting, closed>>
goVars   == <<pc, uses, step, sess>>
chanVars == <<chan, onClose>>
vars == <<helperVars, srvVars, goVars, chanVars, stopping>>

\* The changes startVPNTunnelServer makes.  The first needs no undoing.
Changes == <<"tun", "sysctl">> \o RuleOrder
LastChange == Len(Changes)
FirstToUndo == 2

TypeOK ==
    /\ HelperTypeOK
    /\ helper \in Helpers \cup {None}
    /\ active \in Callers \cup {None}
    /\ starting \in BOOLEAN
    /\ closed \in BOOLEAN
    /\ pc \in [Callers -> {"none", "setup", "rollback", "check", "discard", "register", "returned"}]
    /\ uses \in [Callers -> Helpers \cup {None}]
    /\ step \in [Callers -> 0 .. LastChange + 1]
    /\ sess \in [Callers -> {"none", "open", "closing", "closed"}]
    /\ chan \in [Callers -> {"up", "down"}]
    /\ onClose \in [Callers -> {"unset", "set", "fired", "done"}]
    /\ stopping \subseteq (Helpers \cup {None}) \X (Callers \cup {None})
    /\ \A c \in Callers : pc[c] # "none" /\ step[c] > 0 => uses[c] # None

Init ==
    /\ HelperInit
    /\ helper = None
    /\ active = None
    /\ starting = FALSE
    /\ closed = FALSE
    /\ pc = [c \in Callers |-> "none"]
    /\ uses = [c \in Callers |-> None]
    /\ step = [c \in Callers |-> 0]
    /\ sess = [c \in Callers |-> "none"]
    /\ chan = [c \in Callers |-> "up"]
    /\ onClose = [c \in Callers |-> "unset"]
    /\ stopping = {}

-----------------------------------------------------------------------------
(* vpn start and vpn stop, and the end of the daemon. *)

\* ProxyVPNStartHandler and ArmVPNServing.
Arm(h) ==
    /\ Dial(h)
    /\ IF closed \/ helper # None
       THEN /\ conn' = [conn EXCEPT ![h] = "closed"]
            /\ helper' = helper
       ELSE /\ conn' = [conn EXCEPT ![h] = "open"]
            /\ helper' = h
    /\ UNCHANGED <<undo, rpcVars, kernelVars, active, starting, closed, goVars, chanVars, stopping>>

\* ProxyVPNStopHandler and DisarmVPNServing, inside the lock.
Disarm ==
    /\ helper' = None
    /\ active' = None
    /\ stopping' = IF helper = None THEN stopping ELSE stopping \cup {<<helper, active>>}
    /\ UNCHANGED <<helperVars, starting, closed, goVars, chanVars>>

\* CloseVPNTunnel, inside the lock.  The daemon calls it once, on its way out.
CloseVPNTunnel ==
    /\ ~closed
    /\ helper' = None
    /\ active' = None
    /\ closed' = TRUE
    /\ stopping' = stopping \cup {<<helper, active>>}
    /\ UNCHANGED <<helperVars, starting, goVars, chanVars>>

\* Mutant: the helper's connection is not closed.
FinishStopKeepsHelper(s) ==
    /\ s \in stopping
    /\ s[2] # None => sess[s[2]] = "closed"
    /\ stopping' = stopping \ {s}
    /\ UNCHANGED <<helperVars, srvVars, goVars, chanVars>>

\* The rest of both: sess.close() has returned, helper.Close().
FinishStop(s) ==
    /\ s \in stopping
    /\ s[2] # None => sess[s[2]] = "closed"
    /\ CloseConn({s[1]})
    /\ stopping' = stopping \ {s}
    /\ UNCHANGED <<vpnd, undo, rpcVars, kernelVars, srvVars, goVars, chanVars>>

\* deskconnd crashes: its connections and channels end, its goroutines are no more.
Crash ==
    /\ ~closed
    /\ CloseConn(Helpers)
    /\ helper' = None
    /\ active' = None
    /\ starting' = FALSE
    /\ closed' = TRUE
    /\ pc' = [c \in Callers |-> "returned"]
    /\ uses' = [c \in Callers |-> None]
    /\ step' = [c \in Callers |-> 0]
    /\ previous' = [c \in Callers |-> bootForward]
    /\ sess' = [c \in Callers |-> "none"]
    /\ reply' = [c \in Callers |-> "none"]
    /\ chan' = [c \in Callers |-> "down"]
    /\ onClose' = [c \in Callers |-> "done"]
    /\ stopping' = {}
    /\ UNCHANGED <<vpnd, undo, queue, kernelVars>>

-----------------------------------------------------------------------------
(* handleVPNChannel and startVPNTunnelServer, for channel c. *)

\* Mutant: a tunnel that is being set up does not keep others out.
ClaimWithoutStarting(c) ==
    /\ pc[c] = "none"
    /\ ~closed /\ helper # None
    /\ active = None
    /\ starting' = TRUE
    /\ uses' = [uses EXCEPT ![c] = helper]
    /\ step' = [step EXCEPT ![c] = 1]
    /\ pc' = [pc EXCEPT ![c] = "setup"]
    /\ UNCHANGED <<helperVars, helper, active, closed, sess, chanVars, stopping>>

\* The channel's first message; the slot is free.
Claim(c) ==
    /\ pc[c] = "none"
    /\ ~closed /\ helper # None
    /\ active = None /\ ~starting
    /\ starting' = TRUE
    /\ uses' = [uses EXCEPT ![c] = helper]
    /\ step' = [step EXCEPT ![c] = 1]
    /\ pc' = [pc EXCEPT ![c] = "setup"]
    /\ UNCHANGED <<helperVars, helper, active, closed, sess, chanVars, stopping>>

\* Not serving, or busy: the channel is closed.
Reject(c) ==
    /\ pc[c] = "none"
    /\ closed \/ helper = None \/ active # None \/ starting
    /\ chan' = [chan EXCEPT ![c] = "down"]
    /\ pc' = [pc EXCEPT ![c] = "returned"]
    /\ UNCHANGED <<helperVars, srvVars, uses, step, sess, onClose, stopping>>

\* The next change is requested from the helper.
Change(c) ==
    /\ pc[c] = "setup"
    /\ step[c] <= LastChange
    /\ Send(c, uses[c], "do", Changes[step[c]], 1)
    /\ UNCHANGED <<srvVars, goVars, chanVars, stopping>>

Changed(c) ==
    /\ pc[c] = "setup"
    /\ Succeeded(c)
    /\ Return(c)
    /\ step' = [step EXCEPT ![c] = @ + 1]
    /\ UNCHANGED <<procVars, queue, previous, kernelVars, srvVars, pc, uses, sess, chanVars, stopping>>

\* The call fails, or GetDefaultRoute does, after the second change: rollback().
ChangeFails(c) ==
    /\ pc[c] = "setup"
    /\ step[c] <= LastChange
    /\ Failed(c, uses[c]) \/ (step[c] = FirstToUndo + 1 /\ reply[c] = "none")
    /\ Return(c)
    /\ step' = [step EXCEPT ![c] = @ - 1]
    /\ pc' = [pc EXCEPT ![c] = "rollback"]
    /\ UNCHANGED <<procVars, queue, previous, kernelVars, srvVars, uses, sess, chanVars, stopping>>

\* The pump runs, the ready frame is sent, and the session is returned.
Ready(c) ==
    /\ pc[c] = "setup"
    /\ step[c] > LastChange
    /\ chan[c] = "up"
    /\ step' = [step EXCEPT ![c] = LastChange]
    /\ sess' = [sess EXCEPT ![c] = "open"]
    /\ pc' = [pc EXCEPT ![c] = "check"]
    /\ UNCHANGED <<helperVars, srvVars, uses, chanVars, stopping>>

\* The ready frame cannot be sent: the session is closed and not returned.
ReadyFails(c) ==
    /\ pc[c] = "setup"
    /\ step[c] > LastChange
    /\ chan[c] = "down"
    /\ step' = [step EXCEPT ![c] = LastChange]
    /\ pc' = [pc EXCEPT ![c] = "rollback"]
    /\ UNCHANGED <<helperVars, srvVars, uses, sess, chanVars, stopping>>

\* Setup failed: the slot is free again.
SetupFailed(c) ==
    /\ pc[c] = "check"
    /\ sess[c] = "none"
    /\ starting' = FALSE
    /\ chan' = [chan EXCEPT ![c] = "down"]
    /\ pc' = [pc EXCEPT ![c] = "returned"]
    /\ UNCHANGED <<helperVars, helper, active, closed, uses, step, sess, onClose, stopping>>

\* Mutant: a session that finds serving stopped is forgotten.
DiscardForgets(c) ==
    /\ pc[c] = "check"
    /\ sess[c] = "open"
    /\ closed \/ helper = None \/ active # None
    /\ starting' = FALSE
    /\ chan' = [chan EXCEPT ![c] = "down"]
    /\ pc' = [pc EXCEPT ![c] = "returned"]
    /\ UNCHANGED <<helperVars, helper, active, closed, uses, step, sess, onClose, stopping>>

\* Serving stopped during setup: the session will be closed.
Discard(c) ==
    /\ pc[c] = "check"
    /\ sess[c] = "open"
    /\ closed \/ helper = None \/ active # None
    /\ starting' = FALSE
    /\ pc' = [pc EXCEPT ![c] = "discard"]
    /\ UNCHANGED <<helperVars, helper, active, closed, uses, step, sess, chanVars, stopping>>

\* The tunnel is up.
Activate(c) ==
    /\ pc[c] = "check"
    /\ sess[c] = "open"
    /\ ~closed /\ helper # None /\ active = None
    /\ starting' = FALSE
    /\ active' = c
    /\ pc' = [pc EXCEPT ![c] = "register"]
    /\ UNCHANGED <<helperVars, helper, closed, uses, step, sess, chanVars, stopping>>

\* channel.OnClose, channel.OnError: of no effect if the channel has closed already.
Register(c) ==
    /\ pc[c] = "register"
    /\ onClose' = [onClose EXCEPT ![c] = "set"]
    /\ pc' = [pc EXCEPT ![c] = "returned"]
    /\ UNCHANGED <<helperVars, srvVars, uses, step, sess, chan, stopping>>

-----------------------------------------------------------------------------
(* vpnTunnelSession.close, and the callers of it. *)

\* The channel of c closes: its callback, if there is one, runs.
Hangup(c) ==
    /\ chan' = [chan EXCEPT ![c] = "down"]
    /\ onClose' = [onClose EXCEPT ![c] = IF @ = "set" THEN "fired" ELSE @]

\* The locals of c, and the closures that captured them, are garbage.
Forget(c) ==
    /\ uses' = [uses EXCEPT ![c] = None]
    /\ step' = [step EXCEPT ![c] = 0]
    /\ previous' = [previous EXCEPT ![c] = bootForward]

\* Somebody calls close on session c.
CloseWanted(c) ==
    \/ pc[c] = "discard"
    \/ onClose[c] = "fired"
    \/ \E s \in stopping : s[2] = c

\* closeOnce: the first caller closes the device and the channel and runs cleanup.
BeginClose(c) ==
    /\ sess[c] = "open"
    /\ CloseWanted(c)
    /\ sess' = [sess EXCEPT ![c] = "closing"]
    /\ Hangup(c)
    /\ UNCHANGED <<helperVars, srvVars, pc, uses, step, stopping>>

\* Changes are undone: by rollback, or by the cleanup of a session.
Undoing(c) == pc[c] = "rollback" \/ sess[c] = "closing"

UndoChange(c) ==
    /\ Undoing(c)
    /\ step[c] >= FirstToUndo
    /\ Send(c, uses[c], "undo", Changes[step[c]], previous[c])
    /\ UNCHANGED <<srvVars, goVars, chanVars, stopping>>

\* Errors are only logged.
UndoneChange(c) ==
    /\ Undoing(c)
    /\ step[c] >= FirstToUndo
    /\ Succeeded(c) \/ Failed(c, uses[c])
    /\ Return(c)
    /\ step' = [step EXCEPT ![c] = @ - 1]
    /\ UNCHANGED <<procVars, queue, previous, kernelVars, srvVars, pc, uses, sess, chanVars, stopping>>

AllUndone(c) ==
    /\ Undoing(c)
    /\ step[c] < FirstToUndo
    /\ Forget(c)
    /\ IF pc[c] = "rollback"
       THEN /\ pc' = [pc EXCEPT ![c] = "check"]
            /\ sess' = sess
       ELSE /\ sess' = [sess EXCEPT ![c] = "closed"]
            /\ pc' = pc
    /\ UNCHANGED <<procVars, queue, reply, kernelVars, srvVars, chanVars, stopping>>

\* Mutant: the session stays the active one.
CloseVPNSessionKeepsActive(c) ==
    /\ onClose[c] = "fired"
    /\ sess[c] = "closed"
    /\ onClose' = [onClose EXCEPT ![c] = "done"]
    /\ UNCHANGED <<helperVars, srvVars, goVars, chan, stopping>>

\* closeVPNSession, after sess.close() has returned.
CloseVPNSession(c) ==
    /\ onClose[c] = "fired"
    /\ sess[c] = "closed"
    /\ onClose' = [onClose EXCEPT ![c] = "done"]
    /\ active' = IF active = c THEN None ELSE active
    /\ UNCHANGED <<helperVars, helper, starting, closed, goVars, chan, stopping>>

\* The peer closes the channel, or the connection to it is lost.
PeerCloses(c) ==
    /\ chan[c] = "up"
    /\ pc[c] # "none"
    /\ Hangup(c)
    /\ UNCHANGED <<helperVars, srvVars, goVars, stopping>>

-----------------------------------------------------------------------------
Tunnel(c) ==
    \/ Change(c) \/ Changed(c) \/ ChangeFails(c)
    \/ Ready(c) \/ ReadyFails(c)
    \/ SetupFailed(c) \/ Discard(c) \/ Activate(c) \/ Register(c)
    \/ BeginClose(c) \/ UndoChange(c) \/ UndoneChange(c) \/ AllUndone(c)
    \/ CloseVPNSession(c)

Daemon ==
    \/ \E h \in Helpers : Arm(h)
    \/ Disarm \/ CloseVPNTunnel \/ Crash
    \/ \E s \in stopping : FinishStop(s)
    \/ \E c \in Callers : Claim(c) \/ Reject(c) \/ Tunnel(c) \/ PeerCloses(c)

Privileged(h) ==
    /\ Serve(h) \/ Environment(h)
    /\ UNCHANGED <<srvVars, goVars, chanVars, stopping>>

Next == Daemon \/ \E h \in Helpers : Privileged(h)

\* Goroutines and processes that can run do run.
Fairness ==
    /\ \A c \in Callers : WF_vars(Tunnel(c))
    /\ \A s \in (Helpers \cup {None}) \X (Callers \cup {None}) : WF_vars(FinishStop(s))
    /\ \A h \in Helpers : WF_vars(Serve(h) /\ UNCHANGED <<srvVars, goVars, chanVars, stopping>>)

Spec == Init /\ [][Next]_vars
FairSpec == Spec /\ Fairness

-----------------------------------------------------------------------------
(* Properties. *)

\* Channel c is, or may be, in the middle of a call to its helper.
Busy(c) == pc[c] \in {"setup", "rollback"} \/ sess[c] = "closing"

\* vpnServer.starting is there "so two tunnels can't race to use the same helper
\* connection concurrently": Client.call has no lock, so a setup, a rollback and the
\* cleanup of a session never overlap on one helper, whatever the user does between.
OneUserOfHelper ==
    \A c, d \in Callers : Busy(c) /\ Busy(d) /\ uses[c] = uses[d] => c = d

\* A deskconn-vpnd that has exited leaves no iptables rule behind (Server.Serve,
\* undoStack), whether its client undid its changes, stopped half way, crashed, or
\* never learnt the outcome of its last request, and none was removed twice.
NoLeftoverRules ==
    \A h \in Helpers : vpnd[h] = "gone" => \A r \in Rules : rules[h][r] = 0

\* A session whose setup is over is the active one or is being closed: Disarm and
\* CloseVPNTunnel, which only know vpn.active, miss none that keeps the device open.
NoSessionLost ==
    \A c \in Callers :
        sess[c] = "open" /\ pc[c] \in {"register", "returned"}
            => active = c \/ CloseWanted(c)

\* When every deskconn-vpnd is gone, ip_forward is what it was ("so a lost connection
\* never leaves networking changed", iptunnel.go:168).
ForwardingRestored ==
    (\A h \in Helpers : vpnd[h] \in {"new", "gone"}) => ipForward = bootForward

\* The helper leaves the kernel as it was, rules and forwarding (Server.Serve, undoStack).
NothingLeftBehind == TypeOK /\ NoLeftoverRules /\ ForwardingRestored

\* DisarmVPNServing ends "causing deskconn-vpnd to unwind and exit": no goroutine that
\* holds the session, its once or the helper keeps that from happening.
StopUnwinds ==
    \A h \in Helpers :
        (\E s \in stopping : s[1] = h) ~> (vpnd[h] = "gone")

\* A tunnel whose channel closes frees the slot, unless it closes before handleVPNChannel
\* has registered its callback.
SlotIsFreed ==
    \A c \in Callers :
        (active = c /\ onClose[c] = "fired") ~> (active # c /\ ~Busy(c))
=============================================================================
