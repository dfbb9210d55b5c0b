---------------------------- MODULE DeviceDaemon ----------------------------
(***************************************************************************)
(* The device side of deskconnd (runDeviceSession, cmd/deskconnd/main.go): *)
(* the daemon waits for credentials, then runs a cycle until the device is *)
(* detached or the process ends.  A cycle has a main goroutine that serves *)
(* and a cloud goroutine that connects, sets the connection up and, when   *)
(* it ends, connects again.  The two share the active sessions and the     *)
(* detach channel; the end of a cycle cancels the cloud goroutine's        *)
(* context, which it looks at only when it begins an attempt.              *)
(***************************************************************************)
EXTENDS Authenticator

CONSTANTS
  NoCycle,
  MaxDelay,   \* the longest pause between two attempts
  MaxChanges  \* bound: what users do: attach, detach, grant, revoke, end the process

ASSUME DaemonAssumption ==
  NoCycle \notin Cycles /\ MaxDelay \in Nat \ {0} /\ MaxChanges \in Nat

VARIABLES
  running,    \* the process is alive
  main,       \* main goroutine: "waiting", "serving" or "closing"
  cycle,      \* the cycle it runs
  credentials,\* credentials.json exists
  attached,   \* the cloud knows the device by these credentials
  goroutine,  \* per cycle: where its cloud goroutine is
  conn,       \* per cycle: the connection it dialled last
  active,     \* per cycle: activeDeviceSess and activeCloudSess are that connection
  detachChan, \* per cycle: there is something in the channel
  watching,   \* per cycle: subscribed to the detach topic in time
  retryDelay, \* per cycle
  reachable,  \* the cloud can be reached and answers
  stranded,   \* per cycle: it ended while its goroutine held a connection unpublished
  changes     \* what users have done so far

daemonVars == <<running, main, cycle, credentials, attached, goroutine, conn,
                active, detachChan, watching, retryDelay, reachable, stranded, changes>>
vars == <<daemonVars, authVars>>

\* The steps of one attempt, in their order; "open" opens the cloud session,
\* "publish" stores both sessions as the active ones.
Steps == <<"dial", "open", "publish", "register", "list", "subscribe", "watch", "webrtc", "up">>
Phase == {Steps[i] : i \in DOMAIN Steps}
After(p) == Steps[(CHOOSE i \in DOMAIN Steps : Steps[i] = p) + 1]

DaemonTypeOK ==
  /\ AuthTypeOK
  /\ running \in BOOLEAN /\ credentials \in BOOLEAN /\ attached \in BOOLEAN
  /\ main \in {"waiting", "serving", "closing"}
  /\ cycle \in Cycles \cup {NoCycle}
  /\ (main = "waiting") <=> (cycle = NoCycle)
  /\ goroutine \in [Cycles -> Phase \cup {"ended", "top", "pause"}]
  /\ conn \in [Cycles -> {"none", "open", "closed"}]
  /\ active \in [Cycles -> BOOLEAN]
  /\ detachChan \in [Cycles -> BOOLEAN]
  /\ watching \in [Cycles -> BOOLEAN]
  /\ retryDelay \in [Cycles -> 1 .. MaxDelay]
  /\ stranded \in [Cycles -> BOOLEAN]
  /\ reachable \in BOOLEAN
  /\ changes \in 0 .. MaxChanges
  /\ \A c \in Cycles : goroutine[c] = "up" => retryDelay[c] = 1

\* A machine just attached, or not yet; nobody has listed the keys before.
DaemonInit ==
  /\ AuthInit
  /\ running = TRUE /\ main = "waiting" /\ cycle = NoCycle
  /\ credentials \in BOOLEAN /\ attached = credentials
  /\ goroutine = [c \in Cycles |-> "ended"]
  /\ conn = [c \in Cycles |-> "none"]
  /\ active = [c \in Cycles |-> FALSE]
  /\ detachChan = [c \in Cycles |-> FALSE]
  /\ watching = [c \in Cycles |-> FALSE]
  /\ retryDelay = [c \in Cycles |-> 1]
  /\ stranded = [c \in Cycles |-> FALSE]
  /\ reachable = TRUE
  /\ changes = 0

cancelled(c) == cycle # c \/ main = "closing"
usable(c) == conn[c] = "open" /\ reachable

-----------------------------------------------------------------------------
(* The user, the command line and the cloud.                               *)

Change == changes < MaxChanges /\ changes' = changes + 1

writeCredentialsFile == credentials' = TRUE

\* `deskconn attach` refuses when credentials.json is there.
Attach ==
  /\ Change
  /\ ~credentials
  /\ attached' = TRUE
  /\ writeCredentialsFile
  /\ UNCHANGED <<authVars, running, main, cycle, goroutine, conn, active, detachChan,
                 watching, retryDelay, reachable, stranded>>

\* Mutant: the handler of the detach topic sends nothing.
DetachUnheard ==
  /\ Change
  /\ attached
  /\ attached' = FALSE
  /\ UNCHANGED <<authVars, running, main, cycle, credentials, goroutine, conn, active,
                 detachChan, watching, retryDelay, reachable, stranded>>

\* Detach, here or elsewhere: the cloud drops the realm and publishes the event.
\* Sending never blocks: the channel has room for one.
Detach ==
  /\ Change
  /\ attached
  /\ attached' = FALSE
  /\ detachChan' = [c \in Cycles |-> detachChan[c] \/ watching[c]]
  /\ UNCHANGED <<authVars, running, main, cycle, credentials, goroutine, conn, active,
                 watching, retryDelay, reachable, stranded>>

KeyChange ==
  /\ Change
  /\ \/ \E a \in AuthIds, k \in Keys : Grant(a, k)
     \/ \E keys \in [AuthIds -> SUBSET Keys] : Revoke(keys)
  /\ UNCHANGED <<running, main, cycle, credentials, attached, goroutine, conn, active,
                 detachChan, watching, retryDelay, reachable, stranded>>

\* The network, or the cloud, fails and recovers.
Outage ==
  /\ reachable' = ~reachable
  /\ UNCHANGED <<authVars, running, main, cycle, credentials, attached, goroutine, conn,
                 active, detachChan, watching, retryDelay, stranded, changes>>

\* A connection ends by itself at any time.  While it is being set up, that is the
\* failure of the next step that needs it.
Drop(c) ==
  /\ goroutine[c] = "up" /\ conn[c] = "open"
  /\ conn' = [conn EXCEPT ![c] = "closed"]
  /\ watching' = [watching EXCEPT ![c] = FALSE]
  /\ Unsubscribe(c)
  /\ UNCHANGED <<granted, principalByAuthID, principalsFile, fileExists, diverged,
                 running, main, cycle, credentials, attached, goroutine, active, detachChan,
                 retryDelay, reachable, stranded, changes>>

-----------------------------------------------------------------------------
(* The main goroutine.                                                     *)

\* It returns when the file is there.
EnsureCredentials == running /\ main = "waiting" /\ credentials

\* EnsureCredentials returns; the authenticator, the router and the APIs are made
\* and the cloud goroutine is started.  A cycle nobody refers to is used again.
BeginCycle(c) ==
  /\ EnsureCredentials
  /\ goroutine[c] = "ended" /\ c = CHOOSE d \in Cycles : goroutine[d] = "ended"
  /\ main' = "serving" /\ cycle' = c
  /\ goroutine' = [goroutine EXCEPT ![c] = "top"]
  /\ retryDelay' = [retryDelay EXCEPT ![c] = 1]
  /\ NewAuthenticator(c)
  /\ UNCHANGED <<granted, principalsFile, fileExists, events, subscribed, running,
                 credentials, attached, conn, active, detachChan, watching, reachable, stranded, changes>>

\* <-detachChan: cancel and remove credentials.json.
Detached ==
  /\ running /\ main = "serving" /\ detachChan[cycle]
  /\ main' = "closing"
  /\ credentials' = FALSE
  /\ detachChan' = [detachChan EXCEPT ![cycle] = FALSE]
  /\ UNCHANGED <<authVars, running, cycle, attached, goroutine, conn, active, watching,
                 retryDelay, reachable, stranded, changes>>

\* The active sessions and their connection are closed under cloudConnMu, and the
\* cycle is over.  A connection that is not published yet is not closed.
CloseActive ==
  /\ running /\ main = "closing"
  /\ main' = "waiting" /\ cycle' = NoCycle
  /\ IF active[cycle] /\ conn[cycle] = "open"
       THEN /\ conn' = [conn EXCEPT ![cycle] = "closed"]
            /\ watching' = [watching EXCEPT ![cycle] = FALSE]
            /\ Unsubscribe(cycle)
       ELSE UNCHANGED <<conn, watching, events, subscribed, missed>>
  /\ stranded' = [stranded EXCEPT ![cycle] = ~active[cycle] /\ conn[cycle] = "open"]
  /\ UNCHANGED <<granted, principalByAuthID, principalsFile, fileExists, diverged,
                 running, credentials, attached, goroutine, active, detachChan, retryDelay, reachable, changes>>

\* A signal ends the process in order, a crash at once: nothing but the files is left.
Exit ==
  /\ Change
  /\ running
  /\ running' = FALSE /\ main' = "waiting" /\ cycle' = NoCycle
  /\ goroutine' = [c \in Cycles |-> "ended"]
  /\ conn' = [c \in Cycles |-> "none"]
  /\ active' = [c \in Cycles |-> FALSE]
  /\ detachChan' = [c \in Cycles |-> FALSE]
  /\ watching' = [c \in Cycles |-> FALSE]
  /\ retryDelay' = [c \in Cycles |-> 1]
  /\ stranded' = [c \in Cycles |-> FALSE]
  /\ Discard(Cycles)
  /\ UNCHANGED <<reachable, credentials, attached, granted, principalsFile, fileExists>>

Restart ==
  /\ ~running
  /\ running' = TRUE
  /\ UNCHANGED <<authVars, main, cycle, credentials, attached, goroutine, conn, active,
                 detachChan, watching, retryDelay, reachable, stranded, changes>>

-----------------------------------------------------------------------------
(* The cloud goroutine.                                                    *)

Goto(c, p) == goroutine' = [goroutine EXCEPT ![c] = p]

\* Mutant: the loop does not look at the context.
TopIgnoresContext(c) ==
  /\ goroutine[c] = "top"
  /\ Goto(c, "dial")
  /\ UNCHANGED <<authVars, running, main, cycle, credentials, attached, conn, active,
                 detachChan, watching, retryDelay, reachable, stranded, changes>>

\* The top of the loop: the only place where the context is looked at.
Top(c) ==
  /\ goroutine[c] = "top"
  /\ IF cancelled(c)
       THEN /\ Goto(c, "ended")
            /\ conn' = [conn EXCEPT ![c] = "none"]
            /\ active' = [active EXCEPT ![c] = FALSE]
            /\ detachChan' = [detachChan EXCEPT ![c] = FALSE]
            /\ stranded' = [stranded EXCEPT ![c] = FALSE]
            /\ retryDelay' = [retryDelay EXCEPT ![c] = 1]
            /\ IF cycle = c THEN UNCHANGED authVars
                            ELSE Discard({c}) /\ UNCHANGED <<granted, principalsFile, fileExists>>
       ELSE /\ Goto(c, "dial")
            /\ UNCHANGED <<authVars, conn, active, detachChan, stranded, retryDelay>>
  /\ UNCHANGED <<running, main, cycle, credentials, attached, watching, reachable, changes>>

\* Mutant: the pause has no limit.
BackOffUnbounded(c) ==
  /\ Goto(c, "pause")
  /\ retryDelay' = [retryDelay EXCEPT ![c] = 2 * @]

\* Mutant: the goroutine returns instead of trying again.
BackOffGivesUp(c) ==
  /\ Goto(c, "ended")
  /\ UNCHANGED retryDelay

\* Every failure doubles the pause, up to its limit.
BackOff(c) ==
  /\ Goto(c, "pause")
  /\ retryDelay' = [retryDelay EXCEPT
                      ![c] = IF 2 * @ < MaxDelay THEN 2 * @ ELSE MaxDelay]

Pause(c) ==
  /\ goroutine[c] = "pause"
  /\ Goto(c, "top")
  /\ UNCHANGED <<authVars, running, main, cycle, credentials, attached, conn, active,
                 detachChan, watching, retryDelay, reachable, stranded, changes>>

\* ConnectQUIC: a cancelled context, or a realm the cloud does not know, fails.
DialOK(c) ==
  /\ goroutine[c] = "dial" /\ reachable /\ attached /\ ~cancelled(c)
  /\ Goto(c, "open")
  /\ conn' = [conn EXCEPT ![c] = "open"]
  /\ active' = [active EXCEPT ![c] = FALSE]
  /\ UNCHANGED <<authVars, running, main, cycle, credentials, attached, detachChan,
                 watching, retryDelay, reachable, stranded, changes>>

DialFails(c) ==
  /\ goroutine[c] = "dial" /\ (cancelled(c) \/ ~reachable)
  /\ BackOff(c)
  /\ UNCHANGED <<authVars, running, main, cycle, credentials, attached, conn, active,
                 detachChan, watching, reachable, stranded, changes>>

\* no_such_realm is how a device learns that it was detached while away.
DialRefused(c) ==
  /\ goroutine[c] = "dial" /\ reachable /\ ~attached /\ ~cancelled(c)
  /\ BackOff(c)
  /\ detachChan' = [detachChan EXCEPT ![c] = TRUE]
  /\ UNCHANGED <<authVars, running, main, cycle, credentials, attached, conn, active,
                 watching, reachable, stranded, changes>>

\* The sessions become the active ones, under cloudConnMu.
PublishSessions(c) ==
  /\ goroutine[c] = "publish"
  /\ Goto(c, "register")
  /\ active' = [active EXCEPT ![c] = TRUE]
  /\ UNCHANGED <<authVars, running, main, cycle, credentials, attached, conn, detachChan,
                 watching, retryDelay, reachable, stranded, changes>>

\* A step that has no effect here but to succeed.
Plain(c, p) ==
  /\ goroutine[c] = p /\ usable(c)
  /\ Goto(c, After(p))
  /\ UNCHANGED <<authVars, running, main, cycle, credentials, attached, conn, active,
                 detachChan, watching, reachable, stranded, changes>>

\* The second session, on the cloud's realm.
OpenSession(c) == Plain(c, "open") /\ UNCHANGED retryDelay

\* The procedures and the topic of leaving sessions, in order; the first that fails ends it.
Register(c) == Plain(c, "register") /\ UNCHANGED retryDelay

\* The last step: the connection is up and the pause is reset.
SetUpWebRTC(c) == Plain(c, "webrtc") /\ retryDelay' = [retryDelay EXCEPT ![c] = 1]

ListKeys(c) ==
  /\ goroutine[c] = "list" /\ usable(c)
  /\ Goto(c, "subscribe")
  /\ SetPrincipals(c)
  /\ UNCHANGED <<running, main, cycle, credentials, attached, conn, active, detachChan,
                 watching, retryDelay, reachable, stranded, changes>>

\* Neither subscription has to succeed: an error is logged.
SubscribeKeys(c) ==
  /\ goroutine[c] = "subscribe"
  /\ Goto(c, "watch")
  /\ IF usable(c) THEN SubscribeEvents(c) ELSE UNCHANGED authVars
  /\ UNCHANGED <<running, main, cycle, credentials, attached, conn, active, detachChan,
                 watching, retryDelay, reachable, stranded, changes>>

\* A subscription that succeeds after the detachment hears nothing of it.
SubscribeDetach(c) ==
  /\ goroutine[c] = "watch"
  /\ Goto(c, "webrtc")
  /\ \E ok \in BOOLEAN :
       watching' = [watching EXCEPT ![c] = ok /\ usable(c) /\ attached]
  /\ UNCHANGED <<authVars, running, main, cycle, credentials, attached, conn, active,
                 detachChan, retryDelay, reachable, stranded, changes>>

\* A failed step closes the connection; the active sessions are not reset.
StepFails(c) ==
  /\ goroutine[c] \in {"open", "register", "list", "webrtc"} /\ ~usable(c)
  /\ BackOff(c)
  /\ conn' = [conn EXCEPT ![c] = "closed"]
  /\ watching' = [watching EXCEPT ![c] = FALSE]
  /\ Unsubscribe(c)
  /\ UNCHANGED <<granted, principalByAuthID, principalsFile, fileExists, diverged,
                 running, main, cycle, credentials, attached, active, detachChan, reachable, stranded, changes>>

\* A session is done: reset the active ones and begin again without a pause.
SessionDone(c) ==
  /\ goroutine[c] = "up" /\ conn[c] = "closed"
  /\ Goto(c, "top")
  /\ active' = [active EXCEPT ![c] = FALSE]
  /\ UNCHANGED <<authVars, running, main, cycle, credentials, attached, conn, detachChan,
                 watching, retryDelay, reachable, stranded, changes>>

HandleEvent(c) ==
  /\ handleAddKey(c) \/ handleRemoveKey(c)
  /\ UNCHANGED daemonVars

-----------------------------------------------------------------------------
MainStep == (\E c \in Cycles : BeginCycle(c)) \/ Detached \/ CloseActive

CloudStep(c) ==
  \/ Top(c) \/ Pause(c) \/ DialOK(c) \/ DialFails(c) \/ DialRefused(c)
  \/ PublishSessions(c)
  \/ OpenSession(c) \/ Register(c) \/ SetUpWebRTC(c)
  \/ ListKeys(c) \/ SubscribeKeys(c) \/ SubscribeDetach(c)
  \/ StepFails(c) \/ SessionDone(c)

Next ==
  \/ Attach \/ Detach \/ KeyChange \/ Outage \/ MainStep \/ Exit \/ Restart
  \/ \E c \in Cycles : CloudStep(c) \/ Drop(c) \/ HandleEvent(c)

\* Goroutines that can run do.
Spec == DaemonInit /\ [][Next]_vars
        /\ WF_vars(MainStep) /\ \A c \in Cycles : WF_vars(CloudStep(c))

-----------------------------------------------------------------------------
(* An attached device comes on line: while the daemon runs, the device     *)
(* stays attached and the cloud can be reached, it is up again and again,  *)
(* whatever failed before and however often a connection ends              *)
(* (main.go:390-549).                                                      *)
(* `~stranded` is the bound of the model: a cycle is left to run.          *)
Reconnects ==
  <>[](running /\ attached /\ reachable /\ \E c \in Cycles : ~stranded[c]) => []<>(\E c \in Cycles : cycle = c /\ goroutine[c] = "up")

(* A detached device stops serving: by the event or, when it was not       *)
(* listening, by the error of its next attempt.  Only a connection whose   *)
(* subscription failed or came too late may outlast the detachment         *)
(* (main.go:408-419, 499-508, 580-596).                                    *)
DetachEnds ==
  <>[](running /\ ~attached /\ reachable) =>
    <>[](main = "waiting" \/ (main = "serving" /\ goroutine[cycle] = "up" /\ ~watching[cycle]))

(* A cycle that is over leaves no goroutine behind, and so no connection   *)
(* that serves its old APIs, except when it ended between the dial of a    *)
(* connection and its publication (main.go:405-438 against 585-593).       *)
OldCycleEnds ==
  \A c \in Cycles :
    (running /\ cycle # c) ~> (goroutine[c] = "ended" \/ stranded[c] \/ cycle = c)
=============================================================================
