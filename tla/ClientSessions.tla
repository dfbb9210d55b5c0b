--------------------------- MODULE ClientSessions ---------------------------
(***************************************************************************)
(* The daemon's cache of device sessions (types.go, ClientSessions and     *)
(* deviceSession): proxied calls look a session up or dial one over QUIC,  *)
(* a background goroutine upgrades it to WebRTC, a reconnect loop replaces *)
(* it when it drops, and the user may log out or disconnect at any time.   *)
(*                                                                         *)
(* The model follows ONE realm.  Every operation of the code touches the   *)
(* map entry of its own realm only, and Logout and DisconnectAll treat the *)
(* entries independently of each other.                                    *)
(*                                                                         *)
(* A critical section of c.Mutex is one step, and so is a call that blocks *)
(* on the network; everything between two of them belongs to the step      *)
(* before it.  A session and its cache entry are created together, so one  *)
(* identifier of Sess stands for both, and for the goroutine ("keeper")    *)
(* that upgradeToWebRTC/reconnectLoop runs on its behalf.  Identifiers are *)
(* references: one that nothing refers to any more may be used again.      *)
(***************************************************************************)
EXTENDS Naturals, FiniteSets

CONSTANTS
    Sess,         \* identifiers of sessions; bounds how many exist at once
    Subscribers,  \* proxied calls that use EnsureDeviceSessionWithUpgrade
    Handlers,     \* proxied calls that use EnsureDeviceSession
    None          \* the nil pointer

Callers == Subscribers \cup Handlers

ASSUME CallersAssumption == Subscribers \cap Handlers = {}
ASSUME NoneAssumption == None \notin Sess

VARIABLES
    current,       \* c.sessions[realm]
    disconnected,  \* realm \in c.disconnected
    loggedIn,      \* c.loggedIn
    kind,          \* the transport of a session
    link,          \* "up": Connected(); "down": Done() is closed
    ctxDone,       \* entries whose context has been cancelled
    subs,          \* upgradeSubs of an entry
    keeper,        \* program counter of the goroutine that keeps a session
    fresh,         \* local of a keeper: the session it is about to install
    old,           \* local of a keeper: the entry whose subscribers it notifies
    pc,            \* program counter of a proxied call
    mine,          \* local of a call: the device session it uses
    stale,         \* local of a call: the entry it evicted
    chan,          \* a subscriber's upgrade channel
    got,           \* what that channel delivered
    leaving        \* entries taken out by Logout/Disconnect, not yet left

cacheVars  == <<current, disconnected, loggedIn>>
sessVars   == <<kind, link, ctxDone, subs>>
keeperVars == <<keeper, fresh, old>>
callVars   == <<pc, mine, stale>>
chanVars   == <<chan, got>>
vars == <<cacheVars, sessVars, keeperVars, callVars, chanVars, leaving>>

KeeperPC == {"none", "upgrade", "check", "store", "notify", "wait",
             "checkLogin", "checkAgain", "evict", "dial"}
CallPC == {"idle", "dial", "install", "notify", "start", "call", "migrated", "evict"}

\* The points of a call at which it holds a device session.
HoldsSession == {"install", "notify", "start", "call", "migrated"}

\* The points of a keeper at which it holds the session it has just opened.
HoldsFresh == {"check", "store", "notify"}

TypeOK ==
    /\ current \in Sess \cup {None}
    /\ disconnected \in BOOLEAN
    /\ loggedIn \in BOOLEAN
    /\ kind \in [Sess -> {"quic", "webrtc"}]
    /\ link \in [Sess -> {"free", "up", "down"}]
    /\ ctxDone \subseteq Sess
    /\ subs \in [Sess -> SUBSET Subscribers]
    /\ keeper \in [Sess -> KeeperPC]
    /\ fresh \in [Sess -> Sess \cup {None}]
    /\ old \in [Sess -> Sess \cup {None}]
    /\ pc \in [Callers -> CallPC]
    /\ mine \in [Callers -> Sess \cup {None}]
    /\ stale \in [Callers -> Sess \cup {None}]
    /\ chan \in [Callers -> {"none", "open", "sent"}]
    /\ got \in [Callers -> Sess \cup {None}]
    /\ leaving \subseteq Sess
    /\ \A c \in Callers : pc[c] \in HoldsSession => mine[c] # None
    /\ \A s \in Sess : keeper[s] \in HoldsFresh => fresh[s] # None

\* NewClientSessions, apart from loggedIn.
EmptyCache ==
    /\ current = None
    /\ disconnected = FALSE
    /\ kind = [s \in Sess |-> "quic"]
    /\ link = [s \in Sess |-> "free"]
    /\ ctxDone = {}
    /\ subs = [s \in Sess |-> {}]
    /\ keeper = [s \in Sess |-> "none"]
    /\ fresh = [s \in Sess |-> None]
    /\ old = [s \in Sess |-> None]
    /\ pc = [c \in Callers |-> "idle"]
    /\ mine = [c \in Callers |-> None]
    /\ stale = [c \in Callers |-> None]
    /\ chan = [c \in Callers |-> "none"]
    /\ got = [c \in Callers |-> None]
    /\ leaving = {}

Init == EmptyCache /\ loggedIn = FALSE

\* The user has logged in.
LoggedInInit == EmptyCache /\ loggedIn = TRUE

-----------------------------------------------------------------------------
(* Sessions. *)

\* Something can still reach s: the cache, a goroutine, or a waiting subscriber.
Referenced(s) ==
    \/ s = current
    \/ s \in leaving
    \/ keeper[s] # "none"
    \/ subs[s] # {}
    \/ \E t \in Sess : s \in {fresh[t], old[t]}
    \/ \E c \in Callers : s \in {mine[c], stale[c], got[c]}

\* A successful dial of transport k returns session s, in a new entry.
Connect(s, k) ==
    /\ ~Referenced(s)
    /\ kind' = [kind EXCEPT ![s] = k]
    /\ link' = [link EXCEPT ![s] = "up"]
    /\ ctxDone' = ctxDone \ {s}
    /\ subs' = subs

\* The entries whose context a step that drops e from the cache cancels.
Cancelled(e) == ctxDone \cup ({e} \ {None})

\* Leave() on a session: Done() fires, and on WebRTC so does OnDisconnect, which
\* cancels the entry's context.
Lost(s) ==
    /\ link' = [link EXCEPT ![s] = "down"]
    /\ ctxDone' = IF kind[s] = "webrtc" THEN ctxDone \cup {s} ELSE ctxDone

\* deviceSession.subscribeUpgrade
SubscribeUpgrade(c, s) ==
    IF c \in Subscribers
    THEN /\ subs' = [subs EXCEPT ![s] = @ \cup {c}]
         /\ chan' = [chan EXCEPT ![c] = "open"]
    ELSE UNCHANGED <<subs, chan>>

\* Mutant: the subscriptions are not taken from the entry.
NotifyReplacedKeepsSubs(e, s) ==
    IF e = None
    THEN UNCHANGED <<subs, chan, got>>
    ELSE /\ subs' = subs
         /\ chan' = [c \in Callers |-> IF c \in subs[e] THEN "sent" ELSE chan[c]]
         /\ got' = [c \in Callers |-> IF c \in subs[e] THEN s ELSE got[c]]

\* deviceSession.notifyReplaced: nothing to do when e is nil.
NotifyReplaced(e, s) ==
    IF e = None
    THEN UNCHANGED <<subs, chan, got>>
    ELSE /\ subs' = [subs EXCEPT ![e] = {}]
         /\ chan' = [c \in Callers |-> IF c \in subs[e] THEN "sent" ELSE chan[c]]
         /\ got' = [c \in Callers |-> IF c \in subs[e] THEN s ELSE got[c]]

\* ClientSessions.DeleteDeviceSession
DeleteDeviceSession ==
    /\ current' = None
    /\ ctxDone' = Cancelled(current)

-----------------------------------------------------------------------------
(* A proxied call c: ensureDeviceSession, connectAndUpgrade, and what the   *)
(* handlers do with the session they get.                                   *)

\* Mutant: a cached session is upgraded again by every call that finds it.
EnsureHitUpgrades(c) ==
    /\ pc[c] = "idle"
    /\ current # None
    /\ link[current] = "up"
    /\ disconnected' = FALSE
    /\ mine' = [mine EXCEPT ![c] = current]
    /\ pc' = [pc EXCEPT ![c] = "start"]
    /\ UNCHANGED <<current, loggedIn, sessVars, keeperVars, stale, chanVars, leaving>>

\* The cached session is connected: use it.
EnsureHit(c) ==
    /\ pc[c] = "idle"
    /\ current # None
    /\ link[current] = "up"
    /\ disconnected' = FALSE
    /\ mine' = [mine EXCEPT ![c] = current]
    /\ SubscribeUpgrade(c, current)
    /\ pc' = [pc EXCEPT ![c] = "call"]
    /\ UNCHANGED <<current, loggedIn, kind, link, ctxDone, keeperVars, stale, got, leaving>>

\* The cached session is not connected: evict it and dial.
EnsureStale(c) ==
    /\ pc[c] = "idle"
    /\ current # None
    /\ link[current] # "up"
    /\ disconnected' = FALSE
    /\ stale' = [stale EXCEPT ![c] = current]
    /\ DeleteDeviceSession
    /\ pc' = [pc EXCEPT ![c] = "dial"]
    /\ UNCHANGED <<loggedIn, kind, link, subs, keeperVars, mine, chanVars, leaving>>

\* Mutant: the call goes on without a session.
EnsureMissSkipsDial(c) ==
    /\ pc[c] = "idle"
    /\ current = None
    /\ disconnected' = FALSE
    /\ pc' = [pc EXCEPT ![c] = "install"]
    /\ UNCHANGED <<current, loggedIn, sessVars, keeperVars, mine, stale, chanVars, leaving>>

\* Nothing is cached: dial.
EnsureMiss(c) ==
    /\ pc[c] = "idle"
    /\ current = None
    /\ disconnected' = FALSE
    /\ pc' = [pc EXCEPT ![c] = "dial"]
    /\ UNCHANGED <<current, loggedIn, sessVars, keeperVars, mine, stale, chanVars, leaving>>

\* ConnectDeviceRealmQUIC fails: the evicted entry's subscribers get nil.
DialFail(c) ==
    /\ pc[c] = "dial"
    /\ NotifyReplaced(stale[c], None)
    /\ stale' = [stale EXCEPT ![c] = None]
    /\ pc' = [pc EXCEPT ![c] = "idle"]
    /\ UNCHANGED <<cacheVars, kind, link, ctxDone, keeperVars, mine, leaving>>

\* ConnectDeviceRealmQUIC returns a session, which is not cached yet.
DialOK(c, s) ==
    /\ pc[c] = "dial"
    /\ Connect(s, "quic")
    /\ mine' = [mine EXCEPT ![c] = s]
    /\ pc' = [pc EXCEPT ![c] = "install"]
    /\ UNCHANGED <<cacheVars, keeperVars, stale, chanVars, leaving>>

\* Mutant: the replaced entry is not cancelled.
InstallWithoutCancel(c) ==
    /\ pc[c] = "install"
    /\ disconnected' = FALSE
    /\ current' = mine[c]
    /\ pc' = [pc EXCEPT ![c] = IF stale[c] = None THEN "start" ELSE "notify"]
    /\ UNCHANGED <<loggedIn, sessVars, keeperVars, mine, stale, chanVars, leaving>>

\* The new entry replaces whatever the cache holds by now.
Install(c) ==
    /\ pc[c] = "install"
    /\ disconnected' = FALSE
    /\ current' = mine[c]
    /\ ctxDone' = Cancelled(current)
    /\ pc' = [pc EXCEPT ![c] = IF stale[c] = None THEN "start" ELSE "notify"]
    /\ UNCHANGED <<loggedIn, kind, link, subs, keeperVars, mine, stale, chanVars, leaving>>

\* The subscribers of the evicted entry learn about the new session.
NotifyStale(c) ==
    /\ pc[c] = "notify"
    /\ NotifyReplaced(stale[c], mine[c])
    /\ stale' = [stale EXCEPT ![c] = None]
    /\ pc' = [pc EXCEPT ![c] = "start"]
    /\ UNCHANGED <<cacheVars, kind, link, ctxDone, keeperVars, mine, leaving>>

\* Subscribe to the new entry, start upgradeToWebRTC, return to the handler.
StartUpgrade(c) ==
    /\ pc[c] = "start"
    /\ SubscribeUpgrade(c, mine[c])
    /\ keeper' = [keeper EXCEPT ![mine[c]] = "upgrade"]
    /\ pc' = [pc EXCEPT ![c] = "call"]
    /\ UNCHANGED <<cacheVars, kind, link, ctxDone, fresh, old, mine, stale, got, leaving>>

\* A subscriber reads its upgrade channel; with a session it moves its call there.
Migrate(c) ==
    /\ pc[c] = "call"
    /\ chan[c] = "sent"
    /\ chan' = [chan EXCEPT ![c] = "none"]
    /\ got' = [got EXCEPT ![c] = None]
    /\ IF got[c] = None
       THEN UNCHANGED <<pc, mine>>
       ELSE /\ mine' = [mine EXCEPT ![c] = got[c]]
            /\ pc' = [pc EXCEPT ![c] = "migrated"]
    /\ UNCHANGED <<cacheVars, sessVars, keeperVars, stale, leaving>>

\* The call returns.  Its channel, if it has one, is abandoned.
EndCall(c) ==
    /\ pc[c] \in {"call", "migrated"}
    /\ pc' = [pc EXCEPT ![c] = "idle"]
    /\ mine' = [mine EXCEPT ![c] = None]
    /\ subs' = [s \in Sess |-> subs[s] \ {c}]
    /\ chan' = [chan EXCEPT ![c] = "none"]
    /\ got' = [got EXCEPT ![c] = None]
    /\ UNCHANGED <<cacheVars, kind, link, ctxDone, keeperVars, stale, leaving>>

\* The error path of the exec, info, ping and printer handlers: they leave their
\* session and then delete the realm's entry, whichever it is by then.
HandlerFails(c) ==
    /\ pc[c] = "call"
    /\ c \in Handlers
    /\ Lost(mine[c])
    /\ mine' = [mine EXCEPT ![c] = None]
    /\ pc' = [pc EXCEPT ![c] = "evict"]
    /\ UNCHANGED <<cacheVars, kind, subs, keeperVars, stale, chanVars, leaving>>

\* The error path of a migrated shell or agent-forward call: no Leave.
MigratedFails(c) ==
    /\ pc[c] = "migrated"
    /\ mine' = [mine EXCEPT ![c] = None]
    /\ pc' = [pc EXCEPT ![c] = "evict"]
    /\ UNCHANGED <<cacheVars, sessVars, keeperVars, stale, chanVars, leaving>>

\* DeleteDeviceSession(realm) at the end of both error paths.
EvictAfterError(c) ==
    /\ pc[c] = "evict"
    /\ DeleteDeviceSession
    /\ pc' = [pc EXCEPT ![c] = "idle"]
    /\ UNCHANGED <<disconnected, loggedIn, kind, link, subs, keeperVars, mine, stale, chanVars, leaving>>

-----------------------------------------------------------------------------
(* The keeper of session s: upgradeToWebRTC, then reconnectLoop.            *)

\* No credentials, or the WebRTC handshake fails: keep the QUIC session.
UpgradeFail(s) ==
    /\ keeper[s] = "upgrade"
    /\ keeper' = [keeper EXCEPT ![s] = "wait"]
    /\ UNCHANGED <<cacheVars, sessVars, fresh, old, callVars, chanVars, leaving>>

\* connectWebrtcSession returns a session.
UpgradeOK(s, w) ==
    /\ keeper[s] = "upgrade"
    /\ Connect(w, "webrtc")
    /\ fresh' = [fresh EXCEPT ![s] = w]
    /\ keeper' = [keeper EXCEPT ![s] = "check"]
    /\ UNCHANGED <<cacheVars, old, callVars, chanVars, leaving>>

\* Mutant: the WebRTC session is dropped without a Leave.
UpgradeAbortWithoutLeave(s) ==
    /\ keeper[s] = "check"
    /\ disconnected
    /\ ctxDone' = ctxDone \cup {fresh[s]}
    /\ fresh' = [fresh EXCEPT ![s] = None]
    /\ keeper' = [keeper EXCEPT ![s] = "none"]
    /\ UNCHANGED <<cacheVars, kind, link, subs, old, callVars, chanVars, leaving>>

\* The user disconnected meanwhile: leave the WebRTC session.
UpgradeAbort(s) ==
    /\ keeper[s] = "check"
    /\ disconnected
    /\ link' = [link EXCEPT ![fresh[s]] = "down"]
    /\ ctxDone' = ctxDone \cup {fresh[s]}
    /\ fresh' = [fresh EXCEPT ![s] = None]
    /\ keeper' = [keeper EXCEPT ![s] = "none"]
    /\ UNCHANGED <<cacheVars, kind, subs, old, callVars, chanVars, leaving>>

UpgradeGo(s) ==
    /\ keeper[s] = "check"
    /\ ~disconnected
    /\ keeper' = [keeper EXCEPT ![s] = "store"]
    /\ UNCHANGED <<cacheVars, sessVars, fresh, old, callVars, chanVars, leaving>>

\* StoreDeviceSession, inside the lock.
StoreDeviceSession(s) ==
    /\ keeper[s] = "store"
    /\ old' = [old EXCEPT ![s] = current]
    /\ current' = fresh[s]
    /\ ctxDone' = Cancelled(current)
    /\ keeper' = [keeper EXCEPT ![s] = "notify"]
    /\ UNCHANGED <<disconnected, loggedIn, kind, link, subs, fresh, callVars, chanVars, leaving>>

\* StoreDeviceSession after the lock, and the start of the new session's keeper.
NotifyStored(s) ==
    /\ keeper[s] = "notify"
    /\ NotifyReplaced(old[s], fresh[s])
    /\ keeper' = [keeper EXCEPT
                    ![s] = "none",
                    ![fresh[s]] = IF kind[fresh[s]] = "webrtc" THEN "wait" ELSE "upgrade"]
    /\ fresh' = [fresh EXCEPT ![s] = None]
    /\ old' = [old EXCEPT ![s] = None]
    /\ UNCHANGED <<cacheVars, kind, link, ctxDone, callVars, leaving>>

\* reconnectLoop: <-session.Done(), and the test that follows it.  (Waking up has
\* no effect of its own and Done() stays closed, so the two are one step.)
LoopWakes(s) ==
    /\ keeper[s] = "wait"
    /\ link[s] = "down"
    /\ keeper' = [keeper EXCEPT ![s] = IF disconnected THEN "none" ELSE "checkLogin"]
    /\ UNCHANGED <<cacheVars, sessVars, fresh, old, callVars, chanVars, leaving>>

\* The two tests of the loop condition, each under a lock of its own.
LoopLoggedIn(s) ==
    /\ keeper[s] = "checkLogin"
    /\ keeper' = [keeper EXCEPT ![s] = IF loggedIn THEN "checkAgain" ELSE "none"]
    /\ UNCHANGED <<cacheVars, sessVars, fresh, old, callVars, chanVars, leaving>>

LoopNotDisconnected(s) ==
    /\ keeper[s] = "checkAgain"
    /\ keeper' = [keeper EXCEPT ![s] = IF disconnected THEN "none" ELSE "evict"]
    /\ UNCHANGED <<cacheVars, sessVars, fresh, old, callVars, chanVars, leaving>>

LoopEvicts(s) ==
    /\ keeper[s] = "evict"
    /\ DeleteDeviceSession
    /\ keeper' = [keeper EXCEPT ![s] = "dial"]
    /\ UNCHANGED <<disconnected, loggedIn, kind, link, subs, fresh, old, callVars, chanVars, leaving>>

\* Mutant: one failed dial ends the loop.
LoopDialFailGivesUp(s) ==
    /\ keeper[s] = "dial"
    /\ keeper' = [keeper EXCEPT ![s] = "none"]
    /\ UNCHANGED <<cacheVars, sessVars, fresh, old, callVars, chanVars, leaving>>

\* The dial fails: back off, test the loop condition again.
LoopDialFail(s) ==
    /\ keeper[s] = "dial"
    /\ keeper' = [keeper EXCEPT ![s] = "checkLogin"]
    /\ UNCHANGED <<cacheVars, sessVars, fresh, old, callVars, chanVars, leaving>>

LoopDialOK(s, q) ==
    /\ keeper[s] = "dial"
    /\ Connect(q, "quic")
    /\ fresh' = [fresh EXCEPT ![s] = q]
    /\ keeper' = [keeper EXCEPT ![s] = "store"]
    /\ UNCHANGED <<cacheVars, old, callVars, chanVars, leaving>>

-----------------------------------------------------------------------------
(* The user, and the network.                                              *)

Login ==
    /\ ~loggedIn
    /\ loggedIn' = TRUE
    /\ UNCHANGED <<current, disconnected, sessVars, keeperVars, callVars, chanVars, leaving>>

Logout ==
    /\ loggedIn' = FALSE
    /\ current' = None
    /\ leaving' = leaving \cup ({current} \ {None})
    /\ UNCHANGED <<disconnected, sessVars, keeperVars, callVars, chanVars>>

Disconnect ==
    /\ disconnected' = TRUE
    /\ DeleteDeviceSession
    /\ leaving' = leaving \cup ({current} \ {None})
    /\ UNCHANGED <<loggedIn, kind, link, subs, keeperVars, callVars, chanVars>>

\* Marks only a realm that has an entry, and cancels after the lock.
DisconnectAll ==
    /\ current # None
    /\ disconnected' = TRUE
    /\ current' = None
    /\ leaving' = leaving \cup {current}
    /\ UNCHANGED <<loggedIn, sessVars, keeperVars, callVars, chanVars>>

\* The rest of Logout, Disconnect and DisconnectAll: cancel and Leave.
LeaveTaken(s) ==
    /\ s \in leaving
    /\ leaving' = leaving \ {s}
    /\ link' = [link EXCEPT ![s] = "down"]
    /\ ctxDone' = ctxDone \cup {s}
    /\ UNCHANGED <<cacheVars, kind, subs, keeperVars, callVars, chanVars>>

\* The connection of s breaks (of interest only while something refers to s).
Drop(s) ==
    /\ link[s] = "up"
    /\ Referenced(s)
    /\ Lost(s)
    /\ UNCHANGED <<cacheVars, kind, subs, keeperVars, callVars, chanVars, leaving>>

-----------------------------------------------------------------------------
Call(c) ==
    \/ EnsureHit(c) \/ EnsureStale(c) \/ EnsureMiss(c)
    \/ DialFail(c) \/ (\E s \in Sess : DialOK(c, s))
    \/ Install(c) \/ NotifyStale(c) \/ StartUpgrade(c)
    \/ Migrate(c) \/ EndCall(c)
    \/ HandlerFails(c) \/ MigratedFails(c) \/ EvictAfterError(c)

Keep(s) ==
    \/ UpgradeFail(s) \/ (\E w \in Sess : UpgradeOK(s, w))
    \/ UpgradeAbort(s) \/ UpgradeGo(s)
    \/ StoreDeviceSession(s) \/ NotifyStored(s)
    \/ LoopWakes(s) \/ LoopLoggedIn(s) \/ LoopNotDisconnected(s) \/ LoopEvicts(s)
    \/ LoopDialFail(s) \/ (\E q \in Sess : LoopDialOK(s, q))

User == Login \/ Logout \/ Disconnect \/ DisconnectAll

Next ==
    \/ \E c \in Callers : Call(c)
    \/ \E s \in Sess : Keep(s) \/ LeaveTaken(s) \/ Drop(s)
    \/ User

Spec == Init /\ [][Next]_vars

-----------------------------------------------------------------------------
(* Fairness.  Goroutines that can run do run; a dial that is retried for    *)
(* ever succeeds eventually.  Nothing is assumed of the user, of proxied    *)
(* calls, or of the WebRTC handshake beyond returning.                      *)
Fairness ==
    /\ \A s \in Sess :
        /\ WF_vars(Keep(s))
        /\ WF_vars(LeaveTaken(s))
        /\ SF_vars(\E q \in Sess : LoopDialOK(s, q))
    /\ \A c \in Callers :
        WF_vars(DialFail(c) \/ (\E s \in Sess : DialOK(c, s)) \/ Install(c)
                \/ NotifyStale(c) \/ StartUpgrade(c) \/ EvictAfterError(c))

\* The user neither logs out nor disconnects.
SteadyNext ==
    \/ \E c \in Callers : Call(c)
    \/ \E s \in Sess : Keep(s) \/ Drop(s)

\* A daemon whose user has logged in and stays so.
SteadySpec == LoggedInInit /\ [][SteadyNext]_vars /\ Fairness

\* A daemon restarted after the login: the credentials are on disk, so dials
\* succeed, but nothing calls the login procedure again.
RestartedSpec == Init /\ [][SteadyNext]_vars /\ Fairness

-----------------------------------------------------------------------------
(* Properties. *)

\* s has been dialled but not put in the cache yet.
Pending(s) ==
    \/ \E c \in Callers : pc[c] = "install" /\ mine[c] = s
    \/ \E t \in Sess : keeper[t] \in {"check", "store"} /\ fresh[t] = s

\* Every entry that was cached once and is not any more has its context
\* cancelled, unless Logout or Disconnect is still on the way to it
\* (StoreDeviceSession, connectAndUpgrade, DeleteDeviceSession, Disconnect and
\* Logout each have to do it): a call bound to the entry's context cannot
\* outlive the entry unnoticed.
EvictedIsCancelled ==
    \A s \in Sess :
        link[s] # "free" /\ s # current /\ s \notin leaving /\ ~Pending(s)
            => s \in ctxDone

\* notifyReplaced sends on a subscriber's channel and closes it: a channel that is
\* still registered anywhere has never been sent on, and it is registered once, so
\* no second send can hit the closed channel.
NotifiedOnce ==
    \A c \in Subscribers :
        /\ \A s \in Sess : c \in subs[s] => chan[c] = "open"
        /\ \A s, t \in Sess : c \in subs[s] /\ c \in subs[t] => s = t

\* A call has a session of its own in hand, whose upgrade it has not started yet.
Starting(c) == pc[c] \in {"install", "notify", "start"}

\* A keeper has a new session in hand, whose keeper does not run yet.
Holding(s) == keeper[s] \in HoldsFresh

\* connectAndUpgrade, upgradeToWebRTC and reconnectLoop each start the goroutine of
\* a session with a plain `go` statement: no session ever gets two of them, because
\* the one who is about to start it is the only one and it does not run yet.
OneKeeper ==
    /\ \A c \in Callers : Starting(c) => keeper[mine[c]] = "none"
    /\ \A s \in Sess : Holding(s) => keeper[fresh[s]] = "none"
    /\ \A c, d \in Callers : Starting(c) /\ Starting(d) /\ mine[c] = mine[d] => c = d
    /\ \A s, t \in Sess : Holding(s) /\ Holding(t) /\ fresh[s] = fresh[t] => s = t
    /\ \A c \in Callers, s \in Sess : Starting(c) /\ Holding(s) => mine[c] # fresh[s]

\* No WebRTC session leaks: one that is connected is watched by its reconnect loop
\* or still in the hands of the upgrade that opened it.
WebRTCIsKept ==
    \A w \in Sess :
        link[w] = "up" /\ kind[w] = "webrtc" =>
            \/ keeper[w] = "wait"
            \/ \E s \in Sess : Holding(s) /\ fresh[s] = w

\* A cached session that has dropped is replaced by a new one: its reconnect loop
\* runs, evicts it, dials until it succeeds and stores the result, whatever the
\* proxied calls do to the cache meanwhile.  (The last disjunct is the bound on the
\* number of sessions, never lifted again, not a behaviour of the code.)
DeadIsReplaced ==
    \A s \in Sess :
        (current = s /\ link[s] = "down")
            ~> (current \notin {s, None} \/ [](\A t \in Sess : Referenced(t)))

\* README.md:34: the daemon "maintains a persistent session to the cloud router per
\* target device": when the session of a realm the user has not disconnected drops,
\* it does not stay in the cache for ever.
SessionIsPersistent ==
    \A s \in Sess :
        (current = s /\ link[s] = "down") ~> (current # s \/ disconnected)

\* types.go:231: when an entry is replaced, by an upgrade "or a reconnect after a
\* network blip", "every caller that subscribed to that old entry [...] is notified".
ReplacedIsNotified ==
    \A s \in Sess, c \in Subscribers :
        (c \in subs[s] /\ current \notin {s, None}) ~> (c \notin subs[s])
=============================================================================
