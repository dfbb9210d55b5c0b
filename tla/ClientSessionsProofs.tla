------------------------ MODULE ClientSessionsProofs ------------------------
(***************************************************************************)
(* The safety properties of ClientSessions hold for any number of          *)
(* sessions, subscribers and handlers.                                     *)
(***************************************************************************)
EXTENDS ClientSessions, TLAPS

\* A call that is registered with an entry is using it: what makes NotifiedOnce
\* inductive.
SubscribersInCall ==
    \A c \in Subscribers, s \in Sess : c \in subs[s] => pc[c] = "call"

\* Every session a call or a keeper refers to has been dialled.
Dialled ==
    /\ \A c \in Callers : pc[c] \in HoldsSession => link[mine[c]] # "free"
    /\ \A c \in Callers : got[c] # None => link[got[c]] # "free"
    /\ \A s \in Sess : fresh[s] # None => link[fresh[s]] # "free"

\* notifyReplaced takes subscriptions away and touches no channel that stays
\* registered.
LEMMA NotifyFacts ==
    ASSUME TypeOK, NotifiedOnce,
           NEW e \in Sess \cup {None}, NEW x \in Sess \cup {None}, NotifyReplaced(e, x)
    PROVE  /\ \A t \in Sess : subs'[t] \subseteq subs[t]
           /\ \A d \in Subscribers, t \in Sess : d \in subs'[t] => chan'[d] = chan[d]
  <1>1. CASE e = None
    BY <1>1 DEF NotifyReplaced
  <1>2. CASE e # None
    <2>1. \A t \in Sess : subs'[t] = IF t = e THEN {} ELSE subs[t]
      BY <1>2 DEF NotifyReplaced, TypeOK
    <2>2. \A d \in Subscribers : d \notin subs[e] => chan'[d] = chan[d]
      BY <1>2 DEF NotifyReplaced, Callers
    <2> QED
      BY <1>2, <2>1, <2>2 DEF NotifiedOnce
  <1> QED
    BY <1>1, <1>2

-----------------------------------------------------------------------------
\* Every step keeps the types, and never leaves a call or a keeper without the
\* session its program counter says it holds.
LEMMA TypeStep ==
    ASSUME TypeOK, [Next]_vars
    PROVE  TypeOK'
  <1> USE NoneAssumption DEF TypeOK, KeeperPC, CallPC, HoldsSession, HoldsFresh
  <1>1. ASSUME NEW c \in Callers, EnsureHit(c) PROVE TypeOK'
    <2>1. CASE c \in Subscribers
      <3>1. subs' \in [Sess -> SUBSET Subscribers]
        BY <1>1, <2>1 DEF EnsureHit, SubscribeUpgrade
      <3> QED
        BY <1>1, <2>1, <3>1 DEF EnsureHit, SubscribeUpgrade, keeperVars
    <2>2. CASE c \notin Subscribers
      BY <1>1, <2>2 DEF EnsureHit, SubscribeUpgrade, keeperVars
    <2> QED BY <2>1, <2>2
  <1>2. ASSUME NEW c \in Callers, EnsureStale(c) PROVE TypeOK'
    BY <1>2 DEF EnsureStale, Cancelled, DeleteDeviceSession, keeperVars, chanVars
  <1>3. ASSUME NEW c \in Callers, EnsureMiss(c) PROVE TypeOK'
    BY <1>3 DEF EnsureMiss, sessVars, keeperVars, chanVars
  <1>4. ASSUME NEW c \in Callers, DialFail(c) PROVE TypeOK'
    BY <1>4 DEF DialFail, NotifyReplaced, cacheVars, keeperVars
  <1>5. ASSUME NEW c \in Callers, Install(c) PROVE TypeOK'
    BY <1>5 DEF Install, Cancelled, keeperVars, chanVars
  <1>6. ASSUME NEW c \in Callers, NotifyStale(c) PROVE TypeOK'
    BY <1>6 DEF NotifyStale, NotifyReplaced, cacheVars, keeperVars
  <1>7. ASSUME NEW c \in Callers, StartUpgrade(c) PROVE TypeOK'
    BY <1>7 DEF StartUpgrade, SubscribeUpgrade, cacheVars
  <1>8. ASSUME NEW c \in Callers, Migrate(c) PROVE TypeOK'
    BY <1>8 DEF Migrate, cacheVars, sessVars, keeperVars
  <1>9. ASSUME NEW c \in Callers, EndCall(c) PROVE TypeOK'
    BY <1>9 DEF EndCall, cacheVars, keeperVars
  <1>10. ASSUME NEW c \in Callers, HandlerFails(c) PROVE TypeOK'
    BY <1>10 DEF HandlerFails, Lost, cacheVars, keeperVars, chanVars
  <1>11. ASSUME NEW c \in Callers, MigratedFails(c) PROVE TypeOK'
    BY <1>11 DEF MigratedFails, cacheVars, sessVars, keeperVars, chanVars
  <1>12. ASSUME NEW c \in Callers, EvictAfterError(c) PROVE TypeOK'
    BY <1>12 DEF EvictAfterError, Cancelled, DeleteDeviceSession, keeperVars, chanVars
  <1>13. ASSUME NEW c \in Callers, NEW s \in Sess, DialOK(c, s) PROVE TypeOK'
    BY <1>13 DEF DialOK, Connect, cacheVars, keeperVars, chanVars
  <1>14. ASSUME NEW s \in Sess, UpgradeFail(s) PROVE TypeOK'
    BY <1>14 DEF UpgradeFail, cacheVars, sessVars, callVars, chanVars
  <1>15. ASSUME NEW s \in Sess, UpgradeAbort(s) PROVE TypeOK'
    BY <1>15 DEF UpgradeAbort, cacheVars, callVars, chanVars
  <1>16. ASSUME NEW s \in Sess, UpgradeGo(s) PROVE TypeOK'
    BY <1>16 DEF UpgradeGo, cacheVars, sessVars, callVars, chanVars
  <1>17. ASSUME NEW s \in Sess, StoreDeviceSession(s) PROVE TypeOK'
    BY <1>17 DEF StoreDeviceSession, Cancelled, callVars, chanVars
  <1>18. ASSUME NEW s \in Sess, NotifyStored(s) PROVE TypeOK'
    BY <1>18 DEF NotifyStored, NotifyReplaced, cacheVars, callVars
  <1>19. ASSUME NEW s \in Sess, LoopWakes(s) PROVE TypeOK'
    BY <1>19 DEF LoopWakes, cacheVars, sessVars, callVars, chanVars
  <1>20. ASSUME NEW s \in Sess, LoopLoggedIn(s) PROVE TypeOK'
    BY <1>20 DEF LoopLoggedIn, cacheVars, sessVars, callVars, chanVars
  <1>21. ASSUME NEW s \in Sess, LoopNotDisconnected(s) PROVE TypeOK'
    BY <1>21 DEF LoopNotDisconnected, cacheVars, sessVars, callVars, chanVars
  <1>22. ASSUME NEW s \in Sess, LoopEvicts(s) PROVE TypeOK'
    BY <1>22 DEF LoopEvicts, Cancelled, DeleteDeviceSession, callVars, chanVars
  <1>23. ASSUME NEW s \in Sess, LoopDialFail(s) PROVE TypeOK'
    BY <1>23 DEF LoopDialFail, cacheVars, sessVars, callVars, chanVars
  <1>24. ASSUME NEW s \in Sess, LeaveTaken(s) PROVE TypeOK'
    BY <1>24 DEF LeaveTaken, cacheVars, keeperVars, callVars, chanVars
  <1>25. ASSUME NEW s \in Sess, Drop(s) PROVE TypeOK'
    BY <1>25 DEF Drop, Lost, cacheVars, keeperVars, callVars, chanVars
  <1>26. ASSUME NEW s \in Sess, NEW w \in Sess, UpgradeOK(s, w) PROVE TypeOK'
    BY <1>26 DEF UpgradeOK, Connect, cacheVars, callVars, chanVars
  <1>27. ASSUME NEW s \in Sess, NEW w \in Sess, LoopDialOK(s, w) PROVE TypeOK'
    BY <1>27 DEF LoopDialOK, Connect, cacheVars, callVars, chanVars
  <1>28. CASE Login
    BY <1>28 DEF Login, sessVars, keeperVars, callVars, chanVars
  <1>29. CASE Logout
    BY <1>29 DEF Logout, sessVars, keeperVars, callVars, chanVars
  <1>30. CASE Disconnect
    BY <1>30 DEF Disconnect, Cancelled, DeleteDeviceSession, keeperVars, callVars, chanVars
  <1>31. CASE DisconnectAll
    BY <1>31 DEF DisconnectAll, sessVars, keeperVars, callVars, chanVars
  <1>32. CASE UNCHANGED vars
    BY <1>32 DEF vars, cacheVars, sessVars, keeperVars, callVars, chanVars
  <1> QED
    BY <1>1, <1>2, <1>3, <1>4, <1>5, <1>6, <1>7, <1>8, <1>9, <1>10, <1>11, <1>12, <1>13,
       <1>14, <1>15, <1>16, <1>17, <1>18, <1>19, <1>20, <1>21, <1>22, <1>23, <1>24,
       <1>25, <1>26, <1>27, <1>28, <1>29, <1>30, <1>31, <1>32 DEF Next, Call, Keep, User

\* Every step keeps subscriptions unique and unsent.
LEMMA NotifiedStep ==
    ASSUME TypeOK, NotifiedOnce, SubscribersInCall, [Next]_vars
    PROVE  NotifiedOnce' /\ SubscribersInCall'
  <1> USE CallersAssumption DEF TypeOK, NotifiedOnce, SubscribersInCall, Callers
  <1>1. ASSUME NEW c \in Callers, EnsureHit(c) PROVE NotifiedOnce' /\ SubscribersInCall'
    BY <1>1 DEF EnsureHit, SubscribeUpgrade, keeperVars
  <1>2. ASSUME NEW c \in Callers, EnsureStale(c) PROVE NotifiedOnce' /\ SubscribersInCall'
    BY <1>2 DEF EnsureStale, Cancelled, DeleteDeviceSession, keeperVars, chanVars
  <1>3. ASSUME NEW c \in Callers, EnsureMiss(c) PROVE NotifiedOnce' /\ SubscribersInCall'
    BY <1>3 DEF EnsureMiss, sessVars, keeperVars, chanVars
  <1>4. ASSUME NEW c \in Callers, DialFail(c) PROVE NotifiedOnce' /\ SubscribersInCall'
    <2>1. /\ \A t \in Sess : subs'[t] \subseteq subs[t]
          /\ \A d \in Subscribers, t \in Sess : d \in subs'[t] => chan'[d] = chan[d]
      BY <1>4, NotifyFacts DEF DialFail
    <2> QED
      BY <1>4, <2>1 DEF DialFail
  <1>5. ASSUME NEW c \in Callers, Install(c) PROVE NotifiedOnce' /\ SubscribersInCall'
    BY <1>5 DEF Install, Cancelled, keeperVars, chanVars
  <1>6. ASSUME NEW c \in Callers, NotifyStale(c) PROVE NotifiedOnce' /\ SubscribersInCall'
    <2>1. /\ \A t \in Sess : subs'[t] \subseteq subs[t]
          /\ \A d \in Subscribers, t \in Sess : d \in subs'[t] => chan'[d] = chan[d]
      BY <1>6, NotifyFacts DEF NotifyStale
    <2> QED
      BY <1>6, <2>1 DEF NotifyStale
  <1>7. ASSUME NEW c \in Callers, StartUpgrade(c) PROVE NotifiedOnce' /\
        SubscribersInCall'
    BY <1>7 DEF StartUpgrade, SubscribeUpgrade, cacheVars
  <1>8. ASSUME NEW c \in Callers, Migrate(c) PROVE NotifiedOnce' /\ SubscribersInCall'
    BY <1>8 DEF Migrate, cacheVars, sessVars, keeperVars
  <1>9. ASSUME NEW c \in Callers, EndCall(c) PROVE NotifiedOnce' /\ SubscribersInCall'
    BY <1>9 DEF EndCall, cacheVars, keeperVars
  <1>10. ASSUME NEW c \in Callers, HandlerFails(c) PROVE NotifiedOnce' /\
        SubscribersInCall'
    BY <1>10 DEF HandlerFails, Lost, cacheVars, keeperVars, chanVars
  <1>11. ASSUME NEW c \in Callers, MigratedFails(c) PROVE NotifiedOnce' /\
        SubscribersInCall'
    BY <1>11 DEF MigratedFails, cacheVars, sessVars, keeperVars, chanVars
  <1>12. ASSUME NEW c \in Callers, EvictAfterError(c) PROVE NotifiedOnce' /\
        SubscribersInCall'
    BY <1>12 DEF EvictAfterError, Cancelled, DeleteDeviceSession, keeperVars, chanVars
  <1>13. ASSUME NEW c \in Callers, NEW s \in Sess, DialOK(c, s) PROVE NotifiedOnce' /\
        SubscribersInCall'
    BY <1>13 DEF DialOK, Connect, cacheVars, keeperVars, chanVars
  <1>14. ASSUME NEW s \in Sess, NotifyStored(s) PROVE NotifiedOnce' /\ SubscribersInCall'
    <2>1. /\ \A t \in Sess : subs'[t] \subseteq subs[t]
          /\ \A d \in Subscribers, t \in Sess : d \in subs'[t] => chan'[d] = chan[d]
      BY <1>14, NotifyFacts DEF NotifyStored
    <2> QED
      BY <1>14, <2>1 DEF NotifyStored, callVars
  <1>15. CASE UNCHANGED <<subs, chan, pc>>
    BY <1>15
  <1>16. ASSUME NEW s \in Sess, UpgradeFail(s) \/ UpgradeAbort(s) \/ UpgradeGo(s) \/
        StoreDeviceSession(s) \/ LoopWakes(s) \/ LoopLoggedIn(s) \/
        LoopNotDisconnected(s) \/ LoopEvicts(s) \/ LoopDialFail(s) \/ LeaveTaken(s) \/
        Drop(s) PROVE NotifiedOnce' /\ SubscribersInCall'
    BY <1>16, <1>15 DEF UpgradeFail, UpgradeAbort, UpgradeGo, StoreDeviceSession, LoopWakes,
       LoopLoggedIn, LoopNotDisconnected, LoopEvicts, LoopDialFail, LeaveTaken, Drop,
       cacheVars, sessVars, callVars, chanVars, Cancelled, DeleteDeviceSession,
       keeperVars, Lost
  <1>17. ASSUME NEW s \in Sess, NEW w \in Sess, UpgradeOK(s, w) \/ LoopDialOK(s, w) PROVE
        NotifiedOnce' /\ SubscribersInCall'
    BY <1>17, <1>15 DEF UpgradeOK, LoopDialOK, Connect, cacheVars, callVars, chanVars
  <1>18. CASE Login \/ Logout \/ Disconnect \/ DisconnectAll
    BY <1>18, <1>15 DEF Login, Logout, Disconnect, DisconnectAll, sessVars, keeperVars,
       callVars, chanVars, Cancelled, DeleteDeviceSession
  <1>19. CASE UNCHANGED vars
    BY <1>19, <1>15 DEF vars, cacheVars, sessVars, keeperVars, callVars, chanVars
  <1> QED
    BY <1>1, <1>2, <1>3, <1>4, <1>5, <1>6, <1>7, <1>8, <1>9, <1>10, <1>11, <1>12, <1>13,
       <1>14, <1>16, <1>17, <1>18, <1>19 DEF Next, Call, Keep, User

\* A session that a call or a keeper has got hold of was dialled.
LEMMA DialledStep ==
    ASSUME TypeOK, Dialled, [Next]_vars
    PROVE  Dialled'
  <1> USE NoneAssumption DEF TypeOK, Dialled, HoldsSession, HoldsFresh
  <1>1. ASSUME NEW c \in Callers, EnsureHit(c) PROVE Dialled'
    BY <1>1 DEF EnsureHit, keeperVars
  <1>2. ASSUME NEW c \in Callers, EnsureStale(c) PROVE Dialled'
    BY <1>2 DEF EnsureStale, keeperVars, chanVars
  <1>3. ASSUME NEW c \in Callers, EnsureMiss(c) PROVE Dialled'
    BY <1>3 DEF EnsureMiss, sessVars, keeperVars, chanVars
  <1>4. ASSUME NEW c \in Callers, DialFail(c) PROVE Dialled'
    BY <1>4 DEF DialFail, NotifyReplaced, cacheVars, keeperVars
  <1>5. ASSUME NEW c \in Callers, Install(c) PROVE Dialled'
    BY <1>5 DEF Install, keeperVars, chanVars
  <1>6. ASSUME NEW c \in Callers, NotifyStale(c) PROVE Dialled'
    BY <1>6 DEF NotifyStale, NotifyReplaced, cacheVars, keeperVars
  <1>7. ASSUME NEW c \in Callers, StartUpgrade(c) PROVE Dialled'
    BY <1>7 DEF StartUpgrade, cacheVars
  <1>8. ASSUME NEW c \in Callers, Migrate(c) PROVE Dialled'
    BY <1>8 DEF Migrate, cacheVars, sessVars, keeperVars
  <1>9. ASSUME NEW c \in Callers, EndCall(c) PROVE Dialled'
    BY <1>9 DEF EndCall, cacheVars, keeperVars
  <1>10. ASSUME NEW c \in Callers, HandlerFails(c) PROVE Dialled'
    BY <1>10 DEF HandlerFails, Lost, cacheVars, keeperVars, chanVars
  <1>11. ASSUME NEW c \in Callers, MigratedFails(c) PROVE Dialled'
    BY <1>11 DEF MigratedFails, cacheVars, sessVars, keeperVars, chanVars
  <1>12. ASSUME NEW c \in Callers, EvictAfterError(c) PROVE Dialled'
    BY <1>12 DEF EvictAfterError, keeperVars, chanVars
  <1>13. ASSUME NEW c \in Callers, NEW s \in Sess, DialOK(c, s) PROVE Dialled'
    BY <1>13 DEF DialOK, Connect, Referenced, cacheVars, keeperVars, chanVars
  <1>14. ASSUME NEW s \in Sess, UpgradeFail(s) PROVE Dialled'
    BY <1>14 DEF UpgradeFail, cacheVars, sessVars, callVars, chanVars
  <1>15. ASSUME NEW s \in Sess, UpgradeAbort(s) PROVE Dialled'
    BY <1>15 DEF UpgradeAbort, cacheVars, callVars, chanVars
  <1>16. ASSUME NEW s \in Sess, UpgradeGo(s) PROVE Dialled'
    BY <1>16 DEF UpgradeGo, cacheVars, sessVars, callVars, chanVars
  <1>17. ASSUME NEW s \in Sess, StoreDeviceSession(s) PROVE Dialled'
    BY <1>17 DEF StoreDeviceSession, callVars, chanVars
  <1>18. ASSUME NEW s \in Sess, NotifyStored(s) PROVE Dialled'
    BY <1>18 DEF NotifyStored, NotifyReplaced, cacheVars, callVars
  <1>19. ASSUME NEW s \in Sess, LoopWakes(s) PROVE Dialled'
    BY <1>19 DEF LoopWakes, cacheVars, sessVars, callVars, chanVars
  <1>20. ASSUME NEW s \in Sess, LoopLoggedIn(s) PROVE Dialled'
    BY <1>20 DEF LoopLoggedIn, cacheVars, sessVars, callVars, chanVars
  <1>21. ASSUME NEW s \in Sess, LoopNotDisconnected(s) PROVE Dialled'
    BY <1>21 DEF LoopNotDisconnected, cacheVars, sessVars, callVars, chanVars
  <1>22. ASSUME NEW s \in Sess, LoopEvicts(s) PROVE Dialled'
    BY <1>22 DEF LoopEvicts, callVars, chanVars
  <1>23. ASSUME NEW s \in Sess, LoopDialFail(s) PROVE Dialled'
    BY <1>23 DEF LoopDialFail, cacheVars, sessVars, callVars, chanVars
  <1>24. ASSUME NEW s \in Sess, LeaveTaken(s) PROVE Dialled'
    BY <1>24 DEF LeaveTaken, cacheVars, keeperVars, callVars, chanVars
  <1>25. ASSUME NEW s \in Sess, Drop(s) PROVE Dialled'
    BY <1>25 DEF Drop, Lost, Referenced, cacheVars, keeperVars, callVars, chanVars
  <1>26. ASSUME NEW s \in Sess, NEW w \in Sess, UpgradeOK(s, w) PROVE Dialled'
    BY <1>26 DEF UpgradeOK, Connect, Referenced, cacheVars, callVars, chanVars
  <1>27. ASSUME NEW s \in Sess, NEW w \in Sess, LoopDialOK(s, w) PROVE Dialled'
    BY <1>27 DEF LoopDialOK, Connect, Referenced, cacheVars, callVars, chanVars
  <1>28. CASE Login
    BY <1>28 DEF Login, sessVars, keeperVars, callVars, chanVars
  <1>29. CASE Logout
    BY <1>29 DEF Logout, sessVars, keeperVars, callVars, chanVars
  <1>30. CASE Disconnect
    BY <1>30 DEF Disconnect, keeperVars, callVars, chanVars
  <1>31. CASE DisconnectAll
    BY <1>31 DEF DisconnectAll, sessVars, keeperVars, callVars, chanVars
  <1>32. CASE UNCHANGED vars
    BY <1>32 DEF vars, cacheVars, sessVars, keeperVars, callVars, chanVars
  <1> QED
    BY <1>1, <1>2, <1>3, <1>4, <1>5, <1>6, <1>7, <1>8, <1>9, <1>10, <1>11, <1>12, <1>13,
       <1>14, <1>15, <1>16, <1>17, <1>18, <1>19, <1>20, <1>21, <1>22, <1>23, <1>24,
       <1>25, <1>26, <1>27, <1>28, <1>29, <1>30, <1>31, <1>32 DEF Next, Call, Keep, User

\* Every step that opens a session opens one nobody else refers to.
LEMMA KeeperStep ==
    ASSUME TypeOK, OneKeeper, [Next]_vars
    PROVE  OneKeeper'
  <1> USE NoneAssumption DEF TypeOK, OneKeeper, Starting, Holding, HoldsSession,
        HoldsFresh
  <1>1. ASSUME NEW c \in Callers, EnsureHit(c) PROVE OneKeeper'
    BY <1>1 DEF EnsureHit, keeperVars
  <1>2. ASSUME NEW c \in Callers, EnsureStale(c) PROVE OneKeeper'
    BY <1>2 DEF EnsureStale, keeperVars, chanVars
  <1>3. ASSUME NEW c \in Callers, EnsureMiss(c) PROVE OneKeeper'
    BY <1>3 DEF EnsureMiss, sessVars, keeperVars, chanVars
  <1>4. ASSUME NEW c \in Callers, DialFail(c) PROVE OneKeeper'
    BY <1>4 DEF DialFail, cacheVars, keeperVars
  <1>5. ASSUME NEW c \in Callers, Install(c) PROVE OneKeeper'
    BY <1>5 DEF Install, keeperVars, chanVars
  <1>6. ASSUME NEW c \in Callers, NotifyStale(c) PROVE OneKeeper'
    BY <1>6 DEF NotifyStale, cacheVars, keeperVars
  <1>7. ASSUME NEW c \in Callers, StartUpgrade(c) PROVE OneKeeper'
    BY <1>7 DEF StartUpgrade, cacheVars
  <1>8. ASSUME NEW c \in Callers, Migrate(c) PROVE OneKeeper'
    BY <1>8 DEF Migrate, cacheVars, sessVars, keeperVars
  <1>9. ASSUME NEW c \in Callers, EndCall(c) PROVE OneKeeper'
    BY <1>9 DEF EndCall, cacheVars, keeperVars
  <1>10. ASSUME NEW c \in Callers, HandlerFails(c) PROVE OneKeeper'
    BY <1>10 DEF HandlerFails, Lost, cacheVars, keeperVars, chanVars
  <1>11. ASSUME NEW c \in Callers, MigratedFails(c) PROVE OneKeeper'
    BY <1>11 DEF MigratedFails, cacheVars, sessVars, keeperVars, chanVars
  <1>12. ASSUME NEW c \in Callers, EvictAfterError(c) PROVE OneKeeper'
    BY <1>12 DEF EvictAfterError, keeperVars, chanVars
  <1>13. ASSUME NEW c \in Callers, NEW s \in Sess, DialOK(c, s) PROVE OneKeeper'
    BY <1>13 DEF DialOK, Connect, Referenced, cacheVars, keeperVars, chanVars
  <1>14. ASSUME NEW s \in Sess, UpgradeFail(s) PROVE OneKeeper'
    BY <1>14 DEF UpgradeFail, cacheVars, sessVars, callVars, chanVars
  <1>15. ASSUME NEW s \in Sess, UpgradeAbort(s) PROVE OneKeeper'
    BY <1>15 DEF UpgradeAbort, cacheVars, callVars, chanVars
  <1>16. ASSUME NEW s \in Sess, UpgradeGo(s) PROVE OneKeeper'
    BY <1>16 DEF UpgradeGo, cacheVars, sessVars, callVars, chanVars
  <1>17. ASSUME NEW s \in Sess, StoreDeviceSession(s) PROVE OneKeeper'
    BY <1>17 DEF StoreDeviceSession, callVars, chanVars
  <1>18. ASSUME NEW s \in Sess, NotifyStored(s) PROVE OneKeeper'
    BY <1>18 DEF NotifyStored, cacheVars, callVars
  <1>19. ASSUME NEW s \in Sess, LoopWakes(s) PROVE OneKeeper'
    BY <1>19 DEF LoopWakes, cacheVars, sessVars, callVars, chanVars
  <1>20. ASSUME NEW s \in Sess, LoopLoggedIn(s) PROVE OneKeeper'
    BY <1>20 DEF LoopLoggedIn, cacheVars, sessVars, callVars, chanVars
  <1>21. ASSUME NEW s \in Sess, LoopNotDisconnected(s) PROVE OneKeeper'
    BY <1>21 DEF LoopNotDisconnected, cacheVars, sessVars, callVars, chanVars
  <1>22. ASSUME NEW s \in Sess, LoopEvicts(s) PROVE OneKeeper'
    BY <1>22 DEF LoopEvicts, callVars, chanVars
  <1>23. ASSUME NEW s \in Sess, LoopDialFail(s) PROVE OneKeeper'
    BY <1>23 DEF LoopDialFail, cacheVars, sessVars, callVars, chanVars
  <1>24. ASSUME NEW s \in Sess, LeaveTaken(s) PROVE OneKeeper'
    BY <1>24 DEF LeaveTaken, cacheVars, keeperVars, callVars, chanVars
  <1>25. ASSUME NEW s \in Sess, Drop(s) PROVE OneKeeper'
    BY <1>25 DEF Drop, Lost, Referenced, cacheVars, keeperVars, callVars, chanVars
  <1>26. ASSUME NEW s \in Sess, NEW w \in Sess, UpgradeOK(s, w) PROVE OneKeeper'
    BY <1>26 DEF UpgradeOK, Connect, Referenced, cacheVars, callVars, chanVars
  <1>27. ASSUME NEW s \in Sess, NEW w \in Sess, LoopDialOK(s, w) PROVE OneKeeper'
    BY <1>27 DEF LoopDialOK, Connect, Referenced, cacheVars, callVars, chanVars
  <1>28. CASE Login
    BY <1>28 DEF Login, sessVars, keeperVars, callVars, chanVars
  <1>29. CASE Logout
    BY <1>29 DEF Logout, sessVars, keeperVars, callVars, chanVars
  <1>30. CASE Disconnect
    BY <1>30 DEF Disconnect, keeperVars, callVars, chanVars
  <1>31. CASE DisconnectAll
    BY <1>31 DEF DisconnectAll, sessVars, keeperVars, callVars, chanVars
  <1>32. CASE UNCHANGED vars
    BY <1>32 DEF vars, cacheVars, sessVars, keeperVars, callVars, chanVars
  <1> QED
    BY <1>1, <1>2, <1>3, <1>4, <1>5, <1>6, <1>7, <1>8, <1>9, <1>10, <1>11, <1>12, <1>13,
       <1>14, <1>15, <1>16, <1>17, <1>18, <1>19, <1>20, <1>21, <1>22, <1>23, <1>24,
       <1>25, <1>26, <1>27, <1>28, <1>29, <1>30, <1>31, <1>32 DEF Next, Call, Keep, User

\* Every step that takes an entry out of the cache cancels it or hands it to Logout
\* or Disconnect, and no step revives one.
LEMMA CancelledStep ==
    ASSUME TypeOK, OneKeeper, Dialled, EvictedIsCancelled, [Next]_vars
    PROVE  EvictedIsCancelled'
  <1> USE NoneAssumption DEF TypeOK, EvictedIsCancelled, Pending
  <1>1. ASSUME NEW c \in Callers, EnsureHit(c) PROVE EvictedIsCancelled'
    BY <1>1 DEF EnsureHit, keeperVars
  <1>2. ASSUME NEW c \in Callers, EnsureStale(c) PROVE EvictedIsCancelled'
    BY <1>2 DEF EnsureStale, Cancelled, DeleteDeviceSession, keeperVars, chanVars
  <1>3. ASSUME NEW c \in Callers, EnsureMiss(c) PROVE EvictedIsCancelled'
    BY <1>3 DEF EnsureMiss, sessVars, keeperVars, chanVars
  <1>4. ASSUME NEW c \in Callers, DialFail(c) PROVE EvictedIsCancelled'
    BY <1>4 DEF DialFail, cacheVars, keeperVars
  <1>5. ASSUME NEW c \in Callers, Install(c) PROVE EvictedIsCancelled'
    BY <1>5 DEF Install, Cancelled, keeperVars, chanVars
  <1>6. ASSUME NEW c \in Callers, NotifyStale(c) PROVE EvictedIsCancelled'
    BY <1>6 DEF NotifyStale, cacheVars, keeperVars
  <1>7. ASSUME NEW c \in Callers, StartUpgrade(c) PROVE EvictedIsCancelled'
    <2>1. keeper[mine[c]] = "none"
      BY <1>7 DEF StartUpgrade, OneKeeper, Starting
    <2> QED
      BY <1>7, <2>1 DEF StartUpgrade, cacheVars
  <1>8. ASSUME NEW c \in Callers, Migrate(c) PROVE EvictedIsCancelled'
    BY <1>8 DEF Migrate, cacheVars, sessVars, keeperVars
  <1>9. ASSUME NEW c \in Callers, EndCall(c) PROVE EvictedIsCancelled'
    BY <1>9 DEF EndCall, cacheVars, keeperVars
  <1>10. ASSUME NEW c \in Callers, HandlerFails(c) PROVE EvictedIsCancelled'
    <2>1. link[mine[c]] # "free"
      BY <1>10 DEF HandlerFails, Dialled, HoldsSession
    <2>2. ctxDone \subseteq ctxDone'
      BY <1>10 DEF HandlerFails, Lost
    <2> QED
      BY <1>10, <2>1, <2>2 DEF HandlerFails, Lost, cacheVars, keeperVars
  <1>11. ASSUME NEW c \in Callers, MigratedFails(c) PROVE EvictedIsCancelled'
    BY <1>11 DEF MigratedFails, cacheVars, sessVars, keeperVars, chanVars
  <1>12. ASSUME NEW c \in Callers, EvictAfterError(c) PROVE EvictedIsCancelled'
    BY <1>12 DEF EvictAfterError, Cancelled, DeleteDeviceSession, keeperVars, chanVars
  <1>13. ASSUME NEW c \in Callers, NEW s \in Sess, DialOK(c, s) PROVE EvictedIsCancelled'
    BY <1>13 DEF DialOK, Connect, Referenced, cacheVars, keeperVars, chanVars
  <1>14. ASSUME NEW s \in Sess, UpgradeFail(s) PROVE EvictedIsCancelled'
    BY <1>14 DEF UpgradeFail, cacheVars, sessVars, callVars, chanVars
  <1>15. ASSUME NEW s \in Sess, UpgradeAbort(s) PROVE EvictedIsCancelled'
    BY <1>15 DEF UpgradeAbort, cacheVars, callVars, chanVars
  <1>16. ASSUME NEW s \in Sess, UpgradeGo(s) PROVE EvictedIsCancelled'
    BY <1>16 DEF UpgradeGo, cacheVars, sessVars, callVars, chanVars
  <1>17. ASSUME NEW s \in Sess, StoreDeviceSession(s) PROVE EvictedIsCancelled'
    BY <1>17 DEF StoreDeviceSession, Cancelled, callVars, chanVars
  <1>18. ASSUME NEW s \in Sess, NotifyStored(s) PROVE EvictedIsCancelled'
    <2>1. keeper[fresh[s]] = "none"
      BY <1>18 DEF NotifyStored, OneKeeper, Holding, HoldsFresh
    <2> QED
      BY <1>18, <2>1 DEF NotifyStored, cacheVars, callVars
  <1>19. ASSUME NEW s \in Sess, LoopWakes(s) PROVE EvictedIsCancelled'
    BY <1>19 DEF LoopWakes, cacheVars, sessVars, callVars, chanVars
  <1>20. ASSUME NEW s \in Sess, LoopLoggedIn(s) PROVE EvictedIsCancelled'
    BY <1>20 DEF LoopLoggedIn, cacheVars, sessVars, callVars, chanVars
  <1>21. ASSUME NEW s \in Sess, LoopNotDisconnected(s) PROVE EvictedIsCancelled'
    BY <1>21 DEF LoopNotDisconnected, cacheVars, sessVars, callVars, chanVars
  <1>22. ASSUME NEW s \in Sess, LoopEvicts(s) PROVE EvictedIsCancelled'
    BY <1>22 DEF LoopEvicts, Cancelled, DeleteDeviceSession, callVars, chanVars
  <1>23. ASSUME NEW s \in Sess, LoopDialFail(s) PROVE EvictedIsCancelled'
    BY <1>23 DEF LoopDialFail, cacheVars, sessVars, callVars, chanVars
  <1>24. ASSUME NEW s \in Sess, LeaveTaken(s) PROVE EvictedIsCancelled'
    BY <1>24 DEF LeaveTaken, cacheVars, keeperVars, callVars, chanVars
  <1>25. ASSUME NEW s \in Sess, Drop(s) PROVE EvictedIsCancelled'
    BY <1>25 DEF Drop, Lost, Referenced, cacheVars, keeperVars, callVars, chanVars
  <1>26. ASSUME NEW s \in Sess, NEW w \in Sess, UpgradeOK(s, w) PROVE EvictedIsCancelled'
    BY <1>26 DEF UpgradeOK, Connect, Referenced, cacheVars, callVars, chanVars
  <1>27. ASSUME NEW s \in Sess, NEW w \in Sess, LoopDialOK(s, w) PROVE EvictedIsCancelled'
    BY <1>27 DEF LoopDialOK, Connect, Referenced, cacheVars, callVars, chanVars
  <1>28. CASE Login
    BY <1>28 DEF Login, sessVars, keeperVars, callVars, chanVars
  <1>29. CASE Logout
    BY <1>29 DEF Logout, sessVars, keeperVars, callVars, chanVars
  <1>30. CASE Disconnect
    BY <1>30 DEF Disconnect, Cancelled, DeleteDeviceSession, keeperVars, callVars, chanVars
  <1>31. CASE DisconnectAll
    BY <1>31 DEF DisconnectAll, sessVars, keeperVars, callVars, chanVars
  <1>32. CASE UNCHANGED vars
    BY <1>32 DEF vars, cacheVars, sessVars, keeperVars, callVars, chanVars
  <1> QED
    BY <1>1, <1>2, <1>3, <1>4, <1>5, <1>6, <1>7, <1>8, <1>9, <1>10, <1>11, <1>12, <1>13,
       <1>14, <1>15, <1>16, <1>17, <1>18, <1>19, <1>20, <1>21, <1>22, <1>23, <1>24,
       <1>25, <1>26, <1>27, <1>28, <1>29, <1>30, <1>31, <1>32 DEF Next, Call, Keep, User

\* Every step that ends a keeper leaves its WebRTC session down or handed on.
LEMMA KeptStep ==
    ASSUME TypeOK, OneKeeper, WebRTCIsKept, [Next]_vars
    PROVE  WebRTCIsKept'
  <1> USE NoneAssumption DEF TypeOK, OneKeeper, WebRTCIsKept, Starting, Holding,
        HoldsSession, HoldsFresh
  <1>1. ASSUME NEW c \in Callers, EnsureHit(c) PROVE WebRTCIsKept'
    BY <1>1 DEF EnsureHit, keeperVars
  <1>2. ASSUME NEW c \in Callers, EnsureStale(c) PROVE WebRTCIsKept'
    BY <1>2 DEF EnsureStale, keeperVars, chanVars
  <1>3. ASSUME NEW c \in Callers, EnsureMiss(c) PROVE WebRTCIsKept'
    BY <1>3 DEF EnsureMiss, sessVars, keeperVars, chanVars
  <1>4. ASSUME NEW c \in Callers, DialFail(c) PROVE WebRTCIsKept'
    BY <1>4 DEF DialFail, cacheVars, keeperVars
  <1>5. ASSUME NEW c \in Callers, Install(c) PROVE WebRTCIsKept'
    BY <1>5 DEF Install, keeperVars, chanVars
  <1>6. ASSUME NEW c \in Callers, NotifyStale(c) PROVE WebRTCIsKept'
    BY <1>6 DEF NotifyStale, cacheVars, keeperVars
  <1>7. ASSUME NEW c \in Callers, StartUpgrade(c) PROVE WebRTCIsKept'
    BY <1>7 DEF StartUpgrade, cacheVars
  <1>8. ASSUME NEW c \in Callers, Migrate(c) PROVE WebRTCIsKept'
    BY <1>8 DEF Migrate, cacheVars, sessVars, keeperVars
  <1>9. ASSUME NEW c \in Callers, EndCall(c) PROVE WebRTCIsKept'
    BY <1>9 DEF EndCall, cacheVars, keeperVars
  <1>10. ASSUME NEW c \in Callers, HandlerFails(c) PROVE WebRTCIsKept'
    BY <1>10 DEF HandlerFails, Lost, cacheVars, keeperVars, chanVars
  <1>11. ASSUME NEW c \in Callers, MigratedFails(c) PROVE WebRTCIsKept'
    BY <1>11 DEF MigratedFails, cacheVars, sessVars, keeperVars, chanVars
  <1>12. ASSUME NEW c \in Callers, EvictAfterError(c) PROVE WebRTCIsKept'
    BY <1>12 DEF EvictAfterError, keeperVars, chanVars
  <1>13. ASSUME NEW c \in Callers, NEW s \in Sess, DialOK(c, s) PROVE WebRTCIsKept'
    BY <1>13 DEF DialOK, Connect, Referenced, cacheVars, keeperVars, chanVars
  <1>14. ASSUME NEW s \in Sess, UpgradeFail(s) PROVE WebRTCIsKept'
    BY <1>14 DEF UpgradeFail, cacheVars, sessVars, callVars, chanVars
  <1>15. ASSUME NEW s \in Sess, UpgradeAbort(s) PROVE WebRTCIsKept'
    BY <1>15 DEF UpgradeAbort, cacheVars, callVars, chanVars
  <1>16. ASSUME NEW s \in Sess, UpgradeGo(s) PROVE WebRTCIsKept'
    BY <1>16 DEF UpgradeGo, cacheVars, sessVars, callVars, chanVars
  <1>17. ASSUME NEW s \in Sess, StoreDeviceSession(s) PROVE WebRTCIsKept'
    BY <1>17 DEF StoreDeviceSession, callVars, chanVars
  <1>18. ASSUME NEW s \in Sess, NotifyStored(s) PROVE WebRTCIsKept'
    BY <1>18 DEF NotifyStored, cacheVars, callVars
  <1>19. ASSUME NEW s \in Sess, LoopWakes(s) PROVE WebRTCIsKept'
    BY <1>19 DEF LoopWakes, cacheVars, sessVars, callVars, chanVars
  <1>20. ASSUME NEW s \in Sess, LoopLoggedIn(s) PROVE WebRTCIsKept'
    BY <1>20 DEF LoopLoggedIn, cacheVars, sessVars, callVars, chanVars
  <1>21. ASSUME NEW s \in Sess, LoopNotDisconnected(s) PROVE WebRTCIsKept'
    BY <1>21 DEF LoopNotDisconnected, cacheVars, sessVars, callVars, chanVars
  <1>22. ASSUME NEW s \in Sess, LoopEvicts(s) PROVE WebRTCIsKept'
    BY <1>22 DEF LoopEvicts, callVars, chanVars
  <1>23. ASSUME NEW s \in Sess, LoopDialFail(s) PROVE WebRTCIsKept'
    BY <1>23 DEF LoopDialFail, cacheVars, sessVars, callVars, chanVars
  <1>24. ASSUME NEW s \in Sess, LeaveTaken(s) PROVE WebRTCIsKept'
    BY <1>24 DEF LeaveTaken, cacheVars, keeperVars, callVars, chanVars
  <1>25. ASSUME NEW s \in Sess, Drop(s) PROVE WebRTCIsKept'
    BY <1>25 DEF Drop, Lost, Referenced, cacheVars, keeperVars, callVars, chanVars
  <1>26. ASSUME NEW s \in Sess, NEW w \in Sess, UpgradeOK(s, w) PROVE WebRTCIsKept'
    BY <1>26 DEF UpgradeOK, Connect, Referenced, cacheVars, callVars, chanVars
  <1>27. ASSUME NEW s \in Sess, NEW w \in Sess, LoopDialOK(s, w) PROVE WebRTCIsKept'
    BY <1>27 DEF LoopDialOK, Connect, Referenced, cacheVars, callVars, chanVars
  <1>28. CASE Login
    BY <1>28 DEF Login, sessVars, keeperVars, callVars, chanVars
  <1>29. CASE Logout
    BY <1>29 DEF Logout, sessVars, keeperVars, callVars, chanVars
  <1>30. CASE Disconnect
    BY <1>30 DEF Disconnect, keeperVars, callVars, chanVars
  <1>31. CASE DisconnectAll
    BY <1>31 DEF DisconnectAll, sessVars, keeperVars, callVars, chanVars
  <1>32. CASE UNCHANGED vars
    BY <1>32 DEF vars, cacheVars, sessVars, keeperVars, callVars, chanVars
  <1> QED
    BY <1>1, <1>2, <1>3, <1>4, <1>5, <1>6, <1>7, <1>8, <1>9, <1>10, <1>11, <1>12, <1>13,
       <1>14, <1>15, <1>16, <1>17, <1>18, <1>19, <1>20, <1>21, <1>22, <1>23, <1>24,
       <1>25, <1>26, <1>27, <1>28, <1>29, <1>30, <1>31, <1>32 DEF Next, Call, Keep, User

-----------------------------------------------------------------------------
\* The cache starts out empty.
LEMMA InitHolds ==
    ASSUME Init
    PROVE  /\ TypeOK
           /\ NotifiedOnce /\ SubscribersInCall
           /\ EvictedIsCancelled
           /\ OneKeeper /\ WebRTCIsKept /\ Dialled
  <1> USE DEF Init, EmptyCache
  <1>1. TypeOK
    BY DEF TypeOK, KeeperPC, CallPC, HoldsSession, HoldsFresh
  <1>2. NotifiedOnce /\ SubscribersInCall
    BY DEF NotifiedOnce, SubscribersInCall
  <1>3. EvictedIsCancelled
    BY DEF EvictedIsCancelled
  <1>4. OneKeeper /\ WebRTCIsKept
    BY DEF OneKeeper, WebRTCIsKept, Starting, Holding, HoldsFresh, Callers
  <1>5. Dialled
    BY DEF Dialled, HoldsSession
  <1> QED
    BY <1>1, <1>2, <1>3, <1>4, <1>5

\* Every variable keeps its type; a call and a keeper have the session their program
\* counter says they hold.
THEOREM Typed == Spec => []TypeOK
  BY InitHolds, TypeStep, PTL DEF Spec

\* subscribeUpgrade and notifyReplaced: no upgrade channel is ever sent on twice, for
\* any number of proxied calls and sessions.
THEOREM NotifiedAtMostOnce == Spec => []NotifiedOnce
  BY InitHolds, TypeStep, NotifiedStep, PTL DEF Spec

\* The context of an entry that is no longer cached is cancelled, whichever of the
\* five places that evict entries took it out.
THEOREM EvictionCancels == Spec => []EvictedIsCancelled
  BY InitHolds, TypeStep, KeeperStep, DialledStep, CancelledStep, PTL DEF Spec

\* No session is ever kept by two goroutines.
THEOREM KeptByOne == Spec => []OneKeeper
  BY InitHolds, TypeStep, KeeperStep, PTL DEF Spec

\* No connected WebRTC session is ever left without a goroutine that watches it.
THEOREM NoWebRTCLeak == Spec => []WebRTCIsKept
  BY InitHolds, TypeStep, KeeperStep, KeptStep, PTL DEF Spec
=============================================================================
