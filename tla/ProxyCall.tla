------------------------------ MODULE ProxyCall ------------------------------
(***************************************************************************)
(* One proxied progressive call in the local daemon (types.go, helpers.go, *)
(* agentforward.go): the client's messages, each handled by a goroutine of *)
(* its own, go through the call's channel to a leg, a call of the device.  *)
(* The first leg runs over QUIC.  For shells and agent forwarding a        *)
(* migration goroutine waits for the upgrade to WebRTC, opens a second leg *)
(* and, on its first answer, redirects the channel to it.                  *)
(*                                                                         *)
(* A step is one critical section of the call's mutex or one operation on  *)
(* a channel.  The messages themselves are not told apart.                 *)
(***************************************************************************)
EXTENDS Naturals

CONSTANTS
    Inputs,   \* the client's messages between the first and the final one
    ChanCap   \* bound: capacity of a progress channel (32 in the code)

ASSUME ProxyAssumption ==
    /\ ChanCap \in Nat \ {0}
    /\ {"first", "final"} \cap Inputs = {}

VARIABLES
    kind,       \* the handler: ProxyShellHandler, ProxyAgentForwardHandler or the one of exec
    stored,     \* proxyCalls holds the call
    closed,     \* pc.closed
    cur,        \* pc.progressChan
    closeFunc,  \* pc.closeFunc is closeCloud (FALSE: nil)
    once,       \* closeCloudOnce has run
    chan,       \* cloudCh and newCh: what is buffered, and whether they are open
    hand,       \* sender of a message -> the channel it has fetched
    closer,     \* closeChannel, called for the final message and for the leaving session
    first,      \* the handler of the first message
    quic,       \* the first leg
    mig,        \* the migration goroutine, and the receiver of the second leg
    newFinal,   \* the second leg's sender has sent its final message
    migrated,
    blob,       \* migrateBlobCh
    resultCh,   \* a result is waiting for the first handler
    cancelled,  \* migrationCtx is done
    gone,       \* the client's session has left
    panicked,   \* a send on ("send"), or a close of ("close"), a closed channel
    direct      \* ghost: channels closed by closeChannel without closeFunc

callVars == <<stored, closed, cur, closeFunc>>
legVars == <<quic, mig, newFinal, migrated, blob, resultCh, cancelled>>
proxyVars == <<kind, callVars, once, chan, hand, closer, first, legVars, gone, panicked, direct>>

Chans == {"cloud", "new"}
Senders == Inputs \cup {"first", "final"}
Closers == {"final", "leave"}

ProxyTypeOK ==
    /\ kind \in {"shell", "agent", "exec"}
    /\ cur \in Chans
    /\ chan \in [Chans -> [buf : 0 .. ChanCap, open : BOOLEAN]]
    /\ hand \in [Senders -> Chans \cup {"idle", "arrived", "done"}]
    /\ closer \in [Closers -> Chans \cup {"idle", "ready", "closeCloud", "over"}]
    /\ first \in {"idle", "ensuring", "failed", "sending", "waiting", "returned"}
    /\ quic \in {"none", "calling", "closing", "ended"}
    /\ mig \in {"none", "waiting", "blob", "calling", "switched", "cleared", "serving",
                "returned", "ended"}
    /\ blob \in {"none", "there", "taken"}
    /\ {stored, closed, closeFunc, once, newFinal, migrated, resultCh, cancelled, gone}
           \subseteq BOOLEAN
    /\ panicked \in {"no", "send", "close"}
    /\ direct \subseteq Chans

ProxyInit ==
    /\ kind \in {"shell", "agent", "exec"}
    /\ stored = FALSE /\ closed = FALSE /\ cur = "cloud" /\ closeFunc = FALSE /\ once = FALSE
    /\ chan = [c \in Chans |-> [buf |-> 0, open |-> TRUE]]
    /\ hand = [s \in Senders |-> "idle"]
    /\ closer = [k \in Closers |-> "idle"]
    /\ first = "idle" /\ quic = "none" /\ mig = "none" /\ newFinal = FALSE
    /\ migrated = FALSE /\ blob = "none" /\ resultCh = FALSE /\ cancelled = FALSE
    /\ gone = FALSE /\ panicked = "no" /\ direct = {}

-----------------------------------------------------------------------------
(* The call's own operations. *)

\* close(c)
CloseChan(c) ==
    IF chan[c].open THEN /\ chan' = [chan EXCEPT ![c].open = FALSE]
                         /\ UNCHANGED panicked
                    ELSE /\ panicked' = "close"
                         /\ UNCHANGED chan

\* closeCloud
closeCloud ==
    /\ once' = TRUE
    /\ IF once THEN UNCHANGED <<chan, panicked>> ELSE CloseChan("cloud")

\* send, its critical section: the channel is fetched, or the message dropped.
FetchChan(s) ==
    /\ hand[s] = "arrived"
    /\ hand' = [hand EXCEPT ![s] = IF closed THEN "done" ELSE cur]
    /\ UNCHANGED <<kind, callVars, once, chan, closer, first, legVars, gone, panicked, direct>>

\* send, after the critical section: it blocks while the channel is full and open.
PutChan(s) ==
    /\ hand[s] \in Chans
    /\ LET c == hand[s]
       IN  IF chan[c].open THEN /\ chan[c].buf < ChanCap
                                /\ chan' = [chan EXCEPT ![c].buf = @ + 1]
                                /\ UNCHANGED panicked
                           ELSE /\ panicked' = "send"
                                /\ UNCHANGED chan
    /\ hand' = [hand EXCEPT ![s] = "done"]
    /\ UNCHANGED <<kind, callVars, once, closer, first, legVars, gone, direct>>

\* closeChannel, its critical section.
BeginClose(k) ==
    /\ closer[k] = "ready"
    /\ closed' = TRUE
    /\ closer' = [closer EXCEPT ![k] = CASE closed -> "over"
                                         [] ~closed /\ closeFunc -> "closeCloud"
                                         [] OTHER -> cur]
    /\ UNCHANGED <<kind, stored, cur, closeFunc, once, chan, hand, first, legVars, gone,
                   panicked, direct>>

\* closeChannel, after the critical section: the function is called or the channel closed.
FinishClose(k) ==
    /\ closer[k] \in Chans \cup {"closeCloud"}
    /\ IF closer[k] = "closeCloud" THEN closeCloud ELSE CloseChan(closer[k]) /\ UNCHANGED once
    /\ closer' = [closer EXCEPT ![k] = "over"]
    /\ direct' = direct \cup ({closer[k]} \cap Chans)
    /\ UNCHANGED <<kind, callVars, hand, first, legVars, gone>>

-----------------------------------------------------------------------------
(* The handler of the client's messages. *)

\* First message: the call is stored before there is a session of the device.
StoreCall ==
    /\ first = "idle"
    /\ stored' = TRUE
    /\ first' = "ensuring"
    /\ UNCHANGED <<kind, closed, cur, closeFunc, once, chan, hand, closer, legVars, gone,
                   panicked, direct>>

\* EnsureDeviceSession fails: the handler returns an error, and the call stays stored.
EnsureFails ==
    /\ first = "ensuring"
    /\ first' = "failed"
    /\ UNCHANGED <<kind, callVars, once, chan, hand, closer, legVars, gone, panicked, direct>>

\* It succeeds: the goroutines are started, and the first message is sent like any other.
EnsureSucceeds ==
    /\ first = "ensuring"
    /\ first' = "sending"
    /\ hand' = [hand EXCEPT !["first"] = "arrived"]
    /\ quic' = "calling"
    /\ mig' = IF kind = "exec" THEN "none" ELSE "waiting"
    /\ closeFunc' = (kind # "exec")
    /\ UNCHANGED <<kind, stored, closed, cur, once, chan, closer, newFinal, migrated, blob,
                   resultCh, cancelled, gone, panicked, direct>>

\* The first handler has sent its message; exec returns, the others wait for a result.
FirstSent ==
    /\ first = "sending"
    /\ hand["first"] = "done"
    /\ first' = IF kind = "exec" THEN "returned" ELSE "waiting"
    /\ UNCHANGED <<kind, callVars, once, chan, hand, closer, legVars, gone, panicked, direct>>

\* Mutant: migrationCtx is not cancelled.
ReturnResultKeepsMigration ==
    /\ first = "waiting"
    /\ resultCh
    /\ first' = "returned"
    /\ resultCh' = FALSE
    /\ UNCHANGED <<kind, callVars, once, chan, hand, closer, quic, mig, newFinal, migrated, blob,
                   cancelled, gone, panicked, direct>>

\* <-resultCh; the deferred cancelMigration runs.
ReturnResult ==
    /\ first = "waiting"
    /\ resultCh
    /\ first' = "returned"
    /\ resultCh' = FALSE
    /\ cancelled' = TRUE
    /\ UNCHANGED <<kind, callVars, once, chan, hand, closer, quic, mig, newFinal, migrated, blob,
                   gone, panicked, direct>>

\* A later message finds the call stored.
InputArrives(m) ==
    /\ ~gone /\ stored
    /\ first \in {"waiting", "returned"}
    /\ hand[m] = "idle"
    /\ hand' = [hand EXCEPT ![m] = "arrived"]
    /\ UNCHANGED <<kind, callVars, once, chan, closer, first, legVars, gone, panicked, direct>>

\* The final message finds the call stored; with arguments it is sent as well.
FinalArrives ==
    /\ ~gone /\ stored
    /\ first = "ensuring" => kind = "agent"
    /\ hand["final"] = "idle"
    /\ \E args \in BOOLEAN :
        hand' = [hand EXCEPT !["final"] = IF args THEN "arrived" ELSE "done"]
    /\ UNCHANGED <<kind, callVars, once, chan, closer, first, legVars, gone, panicked, direct>>

\* closeChannel for the final message.
FinalCloses ==
    /\ hand["final"] = "done"
    /\ closer["final"] = "idle"
    /\ closer' = [closer EXCEPT !["final"] = "ready"]
    /\ UNCHANGED <<kind, callVars, once, chan, hand, first, legVars, gone, panicked, direct>>

\* proxyCalls.Delete, after the final message's closeChannel.
DeleteCall ==
    /\ closer["final"] = "over"
    /\ stored
    /\ stored' = FALSE
    /\ UNCHANGED <<kind, closed, cur, closeFunc, once, chan, hand, closer, first, legVars, gone,
                   panicked, direct>>

\* Mutant: the call of a session that left is deleted and not closed.
SessionLeavesDeleteOnly ==
    /\ ~gone
    /\ first # "idle"
    /\ gone' = TRUE
    /\ stored' = FALSE
    /\ closer' = [closer EXCEPT !["leave"] = "over"]
    /\ UNCHANGED <<kind, closed, cur, closeFunc, once, chan, hand, first, legVars, panicked,
                   direct>>

\* The client's session leaves: DeleteAndClose.
SessionLeaves ==
    /\ ~gone
    /\ first # "idle"
    /\ gone' = TRUE
    /\ stored' = FALSE
    /\ closer' = [closer EXCEPT !["leave"] = IF stored THEN "ready" ELSE "over"]
    /\ UNCHANGED <<kind, closed, cur, closeFunc, once, chan, hand, first, legVars, panicked,
                   direct>>

\* ProxyShellMigrateHandler: the client has relayed the token.
MigrateHandler ==
    /\ ~gone /\ stored /\ kind = "shell"
    /\ quic = "calling" /\ hand["first"] = "done"
    /\ blob = "none"
    /\ blob' = "there"
    /\ UNCHANGED <<kind, callVars, once, chan, hand, closer, first, quic, mig, newFinal, migrated,
                   resultCh, cancelled, gone, panicked, direct>>

-----------------------------------------------------------------------------
(* The first leg. *)

\* ProgressSender takes a message.
QuicTakes ==
    /\ quic = "calling"
    /\ chan["cloud"].buf > 0
    /\ chan' = [chan EXCEPT !["cloud"].buf = @ - 1]
    /\ UNCHANGED <<kind, callVars, once, hand, closer, first, legVars, gone, panicked, direct>>

\* The channel is closed and empty: the final message is sent.
QuicFinal ==
    /\ quic = "calling"
    /\ chan["cloud"] = [buf |-> 0, open |-> FALSE]
    /\ quic' = "closing"
    /\ UNCHANGED <<kind, callVars, once, chan, hand, closer, first, mig, newFinal, migrated, blob,
                   resultCh, cancelled, gone, panicked, direct>>

\* The device ends the call, or its session is lost; unless the call has migrated this is the
\* result.
QuicReturns ==
    /\ quic \in {"calling", "closing"}
    /\ quic' = "ended"
    /\ resultCh' = (resultCh \/ (kind # "exec" /\ ~migrated))
    /\ UNCHANGED <<kind, callVars, once, chan, hand, closer, first, mig, newFinal, migrated, blob,
                   cancelled, gone, panicked, direct>>

-----------------------------------------------------------------------------
(* The migration goroutine and the second leg. *)

\* migrationStarted: a new session is there.
Upgraded ==
    /\ mig = "waiting"
    /\ mig' = IF kind = "shell" THEN "blob" ELSE "calling"
    /\ UNCHANGED <<kind, callVars, once, chan, hand, closer, first, quic, newFinal, migrated, blob,
                   resultCh, cancelled, gone, panicked, direct>>

\* The upgrade has failed, or migrationCtx is done before the call was made.
NotUpgraded ==
    /\ mig = "waiting" \/ (mig = "blob" /\ cancelled)
    /\ mig' = "ended"
    /\ UNCHANGED <<kind, callVars, once, chan, hand, closer, first, quic, newFinal, migrated, blob,
                   resultCh, cancelled, gone, panicked, direct>>

\* The token is there: the device is called.
TakeBlob ==
    /\ mig = "blob"
    /\ blob = "there"
    /\ blob' = "taken"
    /\ mig' = "calling"
    /\ UNCHANGED <<kind, callVars, once, chan, hand, closer, first, quic, newFinal, migrated,
                   resultCh, cancelled, gone, panicked, direct>>

\* Mutant: the old channel is closed before the call is redirected.
SwitchChannelLate ==
    /\ mig = "calling"
    /\ mig' = "switched"
    /\ migrated' = TRUE
    /\ closeCloud
    /\ UNCHANGED <<kind, callVars, hand, closer, first, quic, newFinal, blob, resultCh, cancelled,
                   gone, direct>>

\* The second leg's first answer: switchChannel(newCh).
SwitchChannel ==
    /\ mig = "calling"
    /\ mig' = "switched"
    /\ migrated' = TRUE
    /\ cur' = "new"
    /\ UNCHANGED <<kind, stored, closed, closeFunc, once, chan, hand, closer, first, quic,
                   newFinal, blob, resultCh, cancelled, gone, panicked, direct>>

\* ... setCloseFunc(nil)
ClearCloseFunc ==
    /\ mig = "switched"
    /\ mig' = "cleared"
    /\ closeFunc' = FALSE
    /\ UNCHANGED <<kind, stored, closed, cur, once, chan, hand, closer, first, quic, newFinal,
                   migrated, blob, resultCh, cancelled, gone, panicked, direct>>

\* ... closeCloud()
CloseOldLeg ==
    /\ mig = "cleared"
    /\ mig' = "serving"
    /\ closeCloud
    /\ UNCHANGED <<kind, callVars, hand, closer, first, quic, newFinal, migrated, blob, resultCh,
                   cancelled, gone, direct>>

SecondLeg == {"calling", "switched", "cleared", "serving"}

\* ProgressSender takes a message.
NewTakes ==
    /\ mig \in SecondLeg /\ ~newFinal
    /\ chan["new"].buf > 0
    /\ chan' = [chan EXCEPT !["new"].buf = @ - 1]
    /\ UNCHANGED <<kind, callVars, once, hand, closer, first, legVars, gone, panicked, direct>>

\* newCh is closed and empty, or migrationCtx is done: the final message is sent.
NewFinal ==
    /\ mig \in SecondLeg /\ ~newFinal
    /\ chan["new"] = [buf |-> 0, open |-> FALSE] \/ cancelled
    /\ newFinal' = TRUE
    /\ UNCHANGED <<kind, callVars, once, chan, hand, closer, first, quic, mig, migrated, blob,
                   resultCh, cancelled, gone, panicked, direct>>

\* The device ends the second call, or its session is lost.
NewReturns ==
    /\ mig \in {"calling", "serving"}
    /\ mig' = "returned"
    /\ UNCHANGED <<kind, callVars, once, chan, hand, closer, first, quic, newFinal, migrated, blob,
                   resultCh, cancelled, gone, panicked, direct>>

\* ... closeCloud, and the result.
NewCleanup ==
    /\ mig = "returned"
    /\ mig' = "ended"
    /\ closeCloud
    /\ resultCh' = TRUE
    /\ UNCHANGED <<kind, callVars, hand, closer, first, quic, newFinal, migrated, blob, cancelled,
                   gone, direct>>

-----------------------------------------------------------------------------
\* What the daemon's goroutines do of themselves.
DaemonStep ==
    \/ \E s \in Senders : FetchChan(s) \/ PutChan(s)
    \/ \E k \in Closers : BeginClose(k) \/ FinishClose(k)
    \/ StoreCall \/ EnsureFails \/ EnsureSucceeds \/ FirstSent \/ ReturnResult
    \/ FinalCloses \/ DeleteCall
    \/ QuicTakes \/ QuicFinal \/ QuicReturns
    \/ NotUpgraded \/ TakeBlob \/ SwitchChannel \/ ClearCloseFunc \/ CloseOldLeg
    \/ NewTakes \/ NewFinal \/ NewReturns \/ NewCleanup

\* What the client and the upgrade do.
OutsideStep ==
    \/ \E m \in Inputs : InputArrives(m)
    \/ FinalArrives \/ SessionLeaves \/ MigrateHandler \/ Upgraded

\* Who recovers from a panic in a handler is the library's affair; the model goes on after it.
ProxyNext == DaemonStep \/ OutsideStep

\* Goroutines that can run do, and the device answers a final message.  A call without a final
\* message, an upgrade and a client may take for ever.
ProxySpec ==
    /\ ProxyInit /\ [][ProxyNext]_proxyVars
    /\ \A s \in Senders : WF_proxyVars(FetchChan(s) \/ PutChan(s))
    /\ \A k \in Closers : WF_proxyVars(BeginClose(k) \/ FinishClose(k))
    /\ WF_proxyVars(EnsureFails \/ EnsureSucceeds)
    /\ WF_proxyVars(FirstSent \/ ReturnResult)
    /\ WF_proxyVars(FinalCloses \/ DeleteCall)
    /\ WF_proxyVars(QuicTakes \/ QuicFinal)
    /\ WF_proxyVars(quic = "closing" /\ QuicReturns)
    /\ WF_proxyVars(cancelled /\ NotUpgraded)
    /\ WF_proxyVars(TakeBlob \/ ClearCloseFunc \/ CloseOldLeg \/ NewCleanup)
    /\ WF_proxyVars(NewTakes \/ NewFinal)
    /\ WF_proxyVars(newFinal /\ (SwitchChannel \/ NewReturns))

-----------------------------------------------------------------------------
(* Properties. *)

\* The first handler has returned and no leg is left.
Released ==
    /\ first \in {"failed", "returned"}
    /\ quic # "calling" /\ quic # "closing"
    /\ mig \in {"none", "ended"}

\* The call was closed while, or before, it was redirected: its new channel is never closed.
Stranded == closed /\ cur = "new" /\ chan["new"].open

\* The channel that messages are sent on is open while the call is: the redirection precedes the
\* closing of the old channel.  (A second leg that fails before it has answered closes the
\* channel in use.)
CurrentIsOpen == ~closed /\ (mig = "ended" => migrated \/ ~once) => chan[cur].open

\* No channel is closed twice, whoever closes it, with one exception: a call of agent forwarding
\* that was closed before closeFunc was set, and that migrates nevertheless.
ClosedTwiceOnlyEarly == panicked = "close" => kind = "agent" /\ "cloud" \in direct

\* When the first handler has returned, both legs end.
ReturnReleases == (first = "returned" /\ kind # "exec") ~> (Released \/ panicked # "no")

\* A call whose client is gone is freed and its goroutines end, unless it is stranded.
GoneEndsUnlessStranded == gone ~> ((Released /\ ~stored) \/ Stranded \/ panicked # "no")

\* The channels of a call are used soundly: input meets an open one, and none is closed twice, but
\* for the cases above (types.go:40-83, helpers.go:690-705).
ChannelsAreSound == ProxyTypeOK /\ CurrentIsOpen /\ ClosedTwiceOnlyEarly
=============================================================================
