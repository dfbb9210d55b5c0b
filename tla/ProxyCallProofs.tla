-------------------------- MODULE ProxyCallProofs --------------------------
(***************************************************************************)
(* Proofs about a proxied call, for any number of messages and any         *)
(* capacity of its channels.                                               *)
(***************************************************************************)
EXTENDS ProxyCall, TLAPS

\* The call's flags.
Flags ==
    {stored, closed, closeFunc, once, newFinal, migrated, resultCh, cancelled, gone}

\* A closer between the critical section of closeChannel and its end.
Working(k) == closer[k] \in Chans \cup {"closeCloud"}

\* The device's session was there: the goroutines of the call have been started.
Begun == first \in {"sending", "waiting", "returned"}

\* The first leg's channel is closed without closeFunc, or about to be.
EarlyClose == "cloud" \in direct \/ \E k \in Closers : closer[k] = "cloud"

\* What has happened to the call, by the state of its first handler.
CallInd ==
    /\ stored => first # "idle"
    /\ closer["leave"] # "idle" => gone /\ first # "idle"
    /\ closer["final"] # "idle" => hand["final"] = "done"
    /\ hand["final"] # "idle" /\ kind = "shell" => first \notin {"idle", "ensuring"}
    /\ quic # "none" => Begun
    /\ blob # "none" => Begun
    /\ mig # "none" => Begun /\ kind # "exec"
    /\ closeFunc => Begun /\ kind # "exec"
    /\ once => Begun /\ kind # "exec"
    /\ ~closeFunc /\ cur = "cloud" /\ Begun => kind = "exec"

\* The call is redirected when the second leg has answered; the old channel is closed after.
LegInd ==
    /\ migrated <=> cur = "new"
    /\ mig \in {"switched", "cleared", "serving"} => migrated
    /\ mig \in {"none", "waiting", "blob", "calling"} => ~migrated
    /\ once /\ ~closed => cur = "new" \/ (mig = "ended" /\ ~migrated)

\* One closer at most gets past closeChannel's critical section, and what it closes itself
\* nobody has closed; a shell whose first channel is closed early never gets a second leg.
CloseInd ==
    /\ \A k \in Closers : Working(k) =>
           closed /\ direct = {} /\ \A j \in Closers \ {k} : ~Working(j)
    /\ \A k \in Closers : closer[k] = "closeCloud" => Begun /\ kind # "exec"
    /\ direct # {} => closed
    /\ ~chan["new"].open => "new" \in direct
    /\ ~chan["cloud"].open => once \/ "cloud" \in direct
    /\ kind = "shell" /\ EarlyClose =>
           /\ ~once /\ mig \in {"none", "waiting", "blob", "ended"}
           /\ first = "failed" \/ (gone /\ blob = "none")

ProxyInd == ProxyTypeOK /\ CallInd /\ LegInd /\ CloseInd /\ ClosedTwiceOnlyEarly

-----------------------------------------------------------------------------
(* The types. *)

\* A channel has room for what is put into it, is open or closed, and keeps both parts.
LEMMA ChanUpdate ==
    ASSUME ProxyTypeOK, NEW c \in Chans
    PROVE  /\ \A n \in 0 .. ChanCap :
                  [chan EXCEPT ![c].buf = n] \in [Chans -> [buf : 0 .. ChanCap, open : BOOLEAN]]
           /\ [chan EXCEPT ![c].open = FALSE] \in [Chans -> [buf : 0 .. ChanCap, open : BOOLEAN]]
           /\ chan[c].buf \in 0 .. ChanCap /\ chan[c].open \in BOOLEAN
BY DEF ProxyTypeOK

\* close(c) of a channel.
LEMMA CloseChanEffect ==
    ASSUME ProxyTypeOK, NEW c \in Chans, CloseChan(c)
    PROVE  /\ chan' \in [Chans -> [buf : 0 .. ChanCap, open : BOOLEAN]]
           /\ panicked' \in {"no", "send", "close"}
           /\ ~chan'[c].open
           /\ \A d \in Chans \ {c} : chan'[d].open = chan[d].open
           /\ panicked' = "close" => panicked = "close" \/ ~chan[c].open
<1>1. CASE chan[c].open
  BY <1>1 DEF ProxyTypeOK, CloseChan
<1>2. CASE ~chan[c].open
  BY <1>2 DEF ProxyTypeOK, CloseChan
<1> QED
  BY <1>1, <1>2

\* closeCloud: the channel is closed by the first caller, unless somebody else has closed it.
LEMMA CloseCloudEffect ==
    ASSUME ProxyTypeOK, closeCloud
    PROVE  /\ chan' \in [Chans -> [buf : 0 .. ChanCap, open : BOOLEAN]]
           /\ panicked' \in {"no", "send", "close"}
           /\ once' = TRUE
           /\ chan'["new"].open = chan["new"].open
           /\ panicked' = "close" => panicked = "close" \/ (~once /\ ~chan["cloud"].open)
<1>1. CASE once
  BY <1>1 DEF closeCloud, ProxyTypeOK
<1>2. CASE ~once
  BY <1>2, CloseChanEffect DEF closeCloud, Chans
<1> QED
  BY <1>1, <1>2

-----------------------------------------------------------------------------
(* The steps. *)

\* closeChannel, after its critical section: it is the only closer, so that a channel it closes
\* itself was open, unless the migration of an agent's call has closed it meanwhile.
LEMMA FinishCloseStep ==
    ASSUME ProxyInd, NEW k \in Closers, FinishClose(k)
    PROVE  ProxyInd'
<1> USE DEF callVars, legVars
<1>1. /\ Working(k) /\ closed /\ direct = {} /\ \A j \in Closers \ {k} : ~Working(j)
      /\ closer \in [Closers -> Chans \cup {"idle", "ready", "closeCloud", "over"}]
      /\ closer' = [closer EXCEPT ![k] = "over"]
  BY DEF FinishClose, ProxyInd, CloseInd, Working, ProxyTypeOK
<1>2. \A j \in Closers : ~Working(j)' /\ closer'[j] \notin Chans \cup {"closeCloud"}
  BY <1>1 DEF Working, Chans
<1>3. CASE closer[k] = "closeCloud"
  <2>1. closeCloud /\ direct' = direct
    BY <1>3 DEF FinishClose, Chans
  <2>2. /\ chan' \in [Chans -> [buf : 0 .. ChanCap, open : BOOLEAN]]
        /\ panicked' \in {"no", "send", "close"}
        /\ once' = TRUE
        /\ chan'["new"].open = chan["new"].open
        /\ panicked' = "close" => panicked = "close" \/ (~once /\ ~chan["cloud"].open)
    BY <2>1, CloseCloudEffect DEF ProxyInd
  <2>3. ProxyTypeOK'
    BY <2>1, <2>2 DEF FinishClose, ProxyInd, ProxyTypeOK
  <2>4. CallInd' /\ LegInd'
    BY <1>1, <1>3, <2>2 DEF FinishClose, ProxyInd, CallInd, LegInd, CloseInd, Begun, Closers
  <2>5. ~EarlyClose'
    BY <1>1, <1>2, <2>1 DEF EarlyClose, Chans
  <2>6. CloseInd'
    BY <1>1, <1>2, <2>1, <2>2, <2>5 DEF FinishClose, ProxyInd, CloseInd
  <2>7. ClosedTwiceOnlyEarly'
    BY <1>1, <2>1, <2>2 DEF FinishClose, ProxyInd, CloseInd, ClosedTwiceOnlyEarly
  <2> QED
    BY <2>3, <2>4, <2>6, <2>7 DEF ProxyInd
<1>4. CASE closer[k] \in Chans
  <2>1. CloseChan(closer[k]) /\ once' = once /\ direct' = {closer[k]}
    BY <1>1, <1>4 DEF FinishClose, Chans
  <2>2. /\ chan' \in [Chans -> [buf : 0 .. ChanCap, open : BOOLEAN]]
        /\ panicked' \in {"no", "send", "close"}
        /\ ~chan'[closer[k]].open
        /\ \A d \in Chans \ {closer[k]} : chan'[d].open = chan[d].open
        /\ panicked' = "close" => panicked = "close" \/ ~chan[closer[k]].open
    BY <1>4, <2>1, CloseChanEffect DEF ProxyInd
  <2>3. ProxyTypeOK'
    BY <1>4, <2>1, <2>2 DEF FinishClose, ProxyInd, ProxyTypeOK
  <2>4. CallInd' /\ LegInd'
    BY <1>1, <2>1 DEF FinishClose, ProxyInd, CallInd, LegInd, Begun, Working, Chans, Closers
  <2>5. EarlyClose' => EarlyClose
    BY <1>2, <2>1 DEF EarlyClose, Chans
  <2>6. CloseInd'
    BY <1>1, <1>2, <1>4, <2>1, <2>2, <2>5 DEF FinishClose, ProxyInd, CloseInd, Chans
  <2>7. ClosedTwiceOnlyEarly'
    <3>1. CASE panicked = "close"
      BY <1>1, <3>1 DEF ProxyInd, ClosedTwiceOnlyEarly
    <3>2. CASE ~chan[closer[k]].open
      <4>1. closer[k] = "cloud" /\ once /\ EarlyClose
        BY <1>1, <1>4, <3>2 DEF ProxyInd, CloseInd, EarlyClose, Chans
      <4>2. kind = "agent"
        BY <4>1 DEF ProxyInd, CloseInd, CallInd, ProxyTypeOK
      <4> QED
        BY <4>1, <4>2, <2>1 DEF FinishClose, ClosedTwiceOnlyEarly
    <3> QED
      BY <2>2, <3>1, <3>2 DEF ClosedTwiceOnlyEarly
  <2> QED
    BY <2>3, <2>4, <2>6, <2>7 DEF ProxyInd
<1> QED
  BY <1>1, <1>3, <1>4 DEF Working

\* closeCloud by the migration goroutine: the old channel after the redirection, or the channel
\* of a second leg that has failed.
LEMMA CloseOldLegStep ==
    ASSUME ProxyInd, CloseOldLeg \/ NewCleanup
    PROVE  ProxyInd'
<1> USE DEF callVars, legVars
<1>1. /\ closeCloud /\ mig \in {"cleared", "returned"} /\ mig' \in {"serving", "ended"}
      /\ mig = "cleared" <=> mig' = "serving"
      /\ resultCh' \in {resultCh, TRUE}
      /\ UNCHANGED <<kind, callVars, hand, closer, first, quic, newFinal, migrated, blob,
                     cancelled, gone, direct>>
  BY DEF CloseOldLeg, NewCleanup
<1>2. /\ chan' \in [Chans -> [buf : 0 .. ChanCap, open : BOOLEAN]]
      /\ panicked' \in {"no", "send", "close"}
      /\ once' = TRUE
      /\ chan'["new"].open = chan["new"].open
      /\ panicked' = "close" => panicked = "close" \/ (~once /\ ~chan["cloud"].open)
  BY <1>1, CloseCloudEffect DEF ProxyInd
<1>3. Begun /\ kind # "exec" /\ ~(kind = "shell" /\ EarlyClose)
  BY <1>1 DEF ProxyInd, CallInd, CloseInd
<1>4. ProxyTypeOK'
  BY <1>1, <1>2 DEF ProxyInd, ProxyTypeOK
<1>5. CallInd' /\ LegInd'
  BY <1>1, <1>2, <1>3 DEF ProxyInd, CallInd, LegInd, Begun, ProxyTypeOK, Chans
<1>6. EarlyClose' <=> EarlyClose
  BY <1>1 DEF EarlyClose
<1>7. CloseInd'
  BY <1>1, <1>2, <1>3, <1>6 DEF ProxyInd, CloseInd, Working, Begun
<1>8. ClosedTwiceOnlyEarly'
  BY <1>1, <1>2, <1>3 DEF ProxyInd, ProxyTypeOK, CloseInd, ClosedTwiceOnlyEarly, EarlyClose
<1> QED
  BY <1>4, <1>5, <1>7, <1>8 DEF ProxyInd

\* No step of the daemon's goroutines, the client or the upgrade breaks it.
LEMMA ProxyStep == ProxyInd /\ [ProxyNext]_proxyVars => ProxyInd'
<1> SUFFICES ASSUME ProxyInd, [ProxyNext]_proxyVars PROVE ProxyInd'
  OBVIOUS
<1>1. ASSUME NEW k \in Closers, FinishClose(k)
      PROVE  ProxyInd'
  BY <1>1, FinishCloseStep
<1>2. CASE CloseOldLeg \/ NewCleanup
  BY <1>2, CloseOldLegStep
<1> USE DEF ProxyInd, ProxyTypeOK, CallInd, LegInd, CloseInd, ClosedTwiceOnlyEarly,
            Begun, EarlyClose, Working, Chans, Closers, Senders,
            callVars, legVars
<1>3. ASSUME NEW s \in Senders, FetchChan(s)
      PROVE  ProxyInd'
  BY <1>3 DEF FetchChan
<1>4. ASSUME NEW s \in Senders, PutChan(s)
      PROVE  ProxyInd'
  BY <1>4, ProxyAssumption DEF PutChan
<1>5. ASSUME NEW k \in Closers, BeginClose(k)
      PROVE  ProxyInd'
  BY <1>5 DEF BeginClose
<1>6. CASE StoreCall
  BY <1>6 DEF StoreCall
<1>7. CASE EnsureFails
  BY <1>7 DEF EnsureFails
<1>8. CASE EnsureSucceeds
  BY <1>8 DEF EnsureSucceeds
<1>9. CASE FirstSent
  BY <1>9 DEF FirstSent
<1>10. CASE ReturnResult
  <2>1. ProxyTypeOK'
    <3>1. \A b \in Flags' : b \in BOOLEAN
      BY <1>10 DEF ReturnResult, Flags
    <3> QED
      BY <1>10, <3>1 DEF ReturnResult, Flags
  <2>2. CallInd' /\ LegInd'
    BY <1>10 DEF ReturnResult
  <2>3. CloseInd'
    BY <1>10 DEF ReturnResult
  <2>4. ClosedTwiceOnlyEarly'
    BY <1>10 DEF ReturnResult
  <2> QED
    BY <2>1, <2>2, <2>3, <2>4
<1>11. CASE FinalCloses
  BY <1>11 DEF FinalCloses
<1>12. CASE DeleteCall
  <2>1. ProxyTypeOK'
    <3>1. \A b \in Flags' : b \in BOOLEAN
      BY <1>12 DEF DeleteCall, Flags
    <3> QED
      BY <1>12, <3>1 DEF DeleteCall, Flags
  <2>2. CallInd' /\ LegInd'
    BY <1>12 DEF DeleteCall
  <2>3. CloseInd'
    BY <1>12 DEF DeleteCall
  <2>4. ClosedTwiceOnlyEarly'
    BY <1>12 DEF DeleteCall
  <2> QED
    BY <2>1, <2>2, <2>3, <2>4
<1>13. CASE QuicTakes
  BY <1>13, ProxyAssumption DEF QuicTakes
<1>14. CASE QuicFinal
  BY <1>14 DEF QuicFinal
<1>15. CASE QuicReturns
  BY <1>15 DEF QuicReturns
<1>16. CASE NotUpgraded
  BY <1>16 DEF NotUpgraded
<1>17. CASE TakeBlob
  BY <1>17 DEF TakeBlob
<1>18. CASE SwitchChannel
  BY <1>18 DEF SwitchChannel
<1>19. CASE ClearCloseFunc
  <2>1. ProxyTypeOK'
    BY <1>19 DEF ClearCloseFunc
  <2>2. CallInd' /\ LegInd'
    BY <1>19 DEF ClearCloseFunc
  <2>3. CloseInd'
    BY <1>19 DEF ClearCloseFunc
  <2>4. ClosedTwiceOnlyEarly'
    BY <1>19 DEF ClearCloseFunc
  <2> QED
    BY <2>1, <2>2, <2>3, <2>4
<1>20. CASE NewTakes
  BY <1>20, ProxyAssumption DEF NewTakes, SecondLeg
<1>21. CASE NewFinal
  BY <1>21 DEF NewFinal, SecondLeg
<1>22. CASE NewReturns
  BY <1>22 DEF NewReturns, SecondLeg
<1>23. ASSUME NEW m \in Inputs, InputArrives(m)
      PROVE  ProxyInd'
  BY <1>23 DEF InputArrives
<1>24. CASE FinalArrives
  BY <1>24 DEF FinalArrives
<1>25. CASE SessionLeaves
  <2>1. ProxyTypeOK'
    <3>1. \A b \in Flags' : b \in BOOLEAN
      BY <1>25 DEF SessionLeaves, Flags
    <3> QED
      BY <1>25, <3>1 DEF SessionLeaves, Flags
  <2>2. CallInd' /\ LegInd'
    BY <1>25 DEF SessionLeaves
  <2>3. CloseInd'
    BY <1>25 DEF SessionLeaves
  <2>4. ClosedTwiceOnlyEarly'
    BY <1>25 DEF SessionLeaves
  <2> QED
    BY <2>1, <2>2, <2>3, <2>4
<1>26. CASE MigrateHandler
  BY <1>26 DEF MigrateHandler
<1>27. CASE Upgraded
  BY <1>27 DEF Upgraded
<1>28. CASE UNCHANGED proxyVars
  BY <1>28 DEF proxyVars
<1> HIDE DEF ProxyInd, Closers, Senders
<1> QED
  BY <1>1, <1>2, <1>3, <1>4, <1>5, <1>6, <1>7, <1>8, <1>9, <1>10,
     <1>11, <1>12, <1>13, <1>14, <1>15, <1>16, <1>17, <1>18, <1>19, <1>20,
     <1>21, <1>22, <1>23, <1>24, <1>25, <1>26, <1>27, <1>28
  DEF ProxyNext, DaemonStep, OutsideStep

-----------------------------------------------------------------------------
(* The theorems. *)

\* Every state of a proxied call satisfies the invariant.
THEOREM ProxyInvariant == ProxySpec => []ProxyInd
<1>1. ASSUME ProxyInit
      PROVE  ProxyInd
  <2>1. ProxyTypeOK
    <3>1. \A b \in Flags : b \in BOOLEAN
      BY <1>1 DEF ProxyInit, Flags
    <3> QED
      BY <1>1, <3>1, ProxyAssumption DEF ProxyInit, ProxyTypeOK, Chans, Flags
  <2>2. CallInd /\ LegInd
    BY <1>1 DEF ProxyInit, CallInd, LegInd, Begun, Closers, Senders
  <2>3. CloseInd /\ ClosedTwiceOnlyEarly
    BY <1>1 DEF ProxyInit, CloseInd, ClosedTwiceOnlyEarly, EarlyClose, Working, Chans, Closers
  <2> QED
    BY <2>1, <2>2, <2>3 DEF ProxyInd
<1> QED
  BY <1>1, ProxyStep, PTL DEF ProxySpec

\* The channel that a call's messages are sent on is open while the call is, through the
\* redirection of switchChannel as well, and no channel is closed twice, but for an agent's call
\* that was closed before setCloseFunc (types.go, helpers.go, agentforward.go).
THEOREM ChannelsSound == ProxySpec => []ChannelsAreSound
<1>1. ProxyInd => ChannelsAreSound
  BY DEF ProxyInd, ProxyTypeOK, LegInd, CloseInd, ChannelsAreSound, CurrentIsOpen, Chans
<1> QED
  BY <1>1, ProxyInvariant, PTL
=============================================================================
