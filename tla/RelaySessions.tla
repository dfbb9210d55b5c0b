--------------------------- MODULE RelaySessions ---------------------------
(***************************************************************************)
(* Connections accepted on the device and relayed to the client, which     *)
(* dials a local service for each (portreverse.go).  A call of             *)
(* port.reverse makes the device listen; its session object keeps the      *)
(* connections that wait for the client's key (pending) and those that are *)
(* relayed (active), by connection number.  The table leads from a key to  *)
(* a session; the methods look the session up under one lock and use it    *)
(* under another, and every message is handled by a goroutine of its own.  *)
(*                                                                         *)
(* AgentForward extends this module: there the table is keyed by user.     *)
(* The bytes of a connection are those of PortStream and left out here.    *)
(***************************************************************************)
EXTENDS Naturals, FiniteSets

CONSTANTS
    Clients,  \* WAMP sessions that call the device
    Reqs,     \* calls with msgConnect; also the session object each may create
    Conns,    \* connections made to the device's listeners
    User,     \* the user of the clients
    None      \* a nil

ASSUME RelayAssumption ==
    /\ IsFiniteSet(Conns)
    /\ User \notin Clients
    /\ None \notin Clients \cup Reqs \cup Conns

VARIABLES
    relay,     \* the service: "reverse" or "agent"
    madeBy,    \* request -> the client that made it
    table,     \* sessions: key -> session
    req,       \* request -> where its handler is
    target,    \* request -> the session its handler has looked up, to take it over
    ln,        \* session -> its listener
    owner,     \* session -> currentCallerID
    count,     \* session -> connCounter
    pending,   \* session -> connection number -> connection
    active,    \* session -> connection number -> connection
    by,        \* connection -> the session whose listener accepted it
    num,       \* connection -> its number
    at,        \* connection -> the session a handler has looked up for it
    phase,     \* connection -> what is done next for it on the device
    taken,     \* connection -> the connection its key exchange has found
    open,      \* connections whose device end is open
    local,     \* connection -> the client's end of it, and its msgClose
    stopping,  \* client -> the session stop has removed and not closed yet
    locked,    \* the client whose stop holds the lock of an agent's table, which it has found
               \* to own the session
    cut        \* ghost: sessions that the end of the call that made them was found to own

connVars == <<by, num, at, phase, taken, open, local>>
agentVars == <<target, owner, locked, cut>>
relayVars == <<relay, madeBy, table, req, ln, count, pending, active, connVars, stopping,
               agentVars>>

Nums == 1 .. Cardinality(Conns)
Keys == Clients \cup {User}
NoConns == [n \in Nums |-> None]

\* inv.Caller() or inv.CallerAuthID()
KeyOf(r) == IF relay = "reverse" THEN madeBy[r] ELSE User

RelayTypeOK ==
    /\ relay \in {"reverse", "agent"}
    /\ madeBy \in [Reqs -> Clients]
    /\ table \in [Keys -> Reqs \cup {None}]
    /\ req \in [Reqs -> {"idle", "creating", "taking", "taken", "ready", "stored",
                          "serving", "over", "unused"}]
    /\ target \in [Reqs -> Reqs \cup {None}]
    /\ ln \in [Reqs -> {"none", "open", "closed"}]
    /\ owner \in [Reqs -> Clients \cup {None}]
    /\ count \in [Reqs -> 0 .. Cardinality(Conns)]
    /\ pending \in [Reqs -> [Nums -> Conns \cup {None}]]
    /\ active \in [Reqs -> [Nums -> Conns \cup {None}]]
    /\ by \in [Conns -> Reqs \cup {None}]
    /\ num \in [Conns -> Nums \cup {0}]
    /\ at \in [Conns -> Reqs \cup {None}]
    /\ phase \in [Conns -> {"none", "accepted", "storing", "stored", "offered", "keyed", "deriving",
                            "activating", "relayed", "over"}]
    /\ taken \in [Conns -> Conns \cup {None}]
    /\ open \subseteq Conns
    /\ local \in [Conns -> {"none", "open", "closing", "removing", "missed", "lost", "over"}]
    /\ stopping \in [Clients -> Reqs \cup {None}]
    /\ locked \in Clients \cup {None}
    /\ cut \subseteq Reqs

\* made: the requests that clients make.
RelayInit(made) ==
    /\ relay \in {"reverse", "agent"}
    /\ madeBy \in [Reqs -> Clients]
    /\ table = [k \in Keys |-> None]
    /\ req = [r \in Reqs |-> IF r \in made THEN "idle" ELSE "unused"]
    /\ target = [r \in Reqs |-> None]
    /\ ln = [r \in Reqs |-> "none"]
    /\ owner = [r \in Reqs |-> None]
    /\ count = [r \in Reqs |-> 0]
    /\ pending = [r \in Reqs |-> NoConns]
    /\ active = [r \in Reqs |-> NoConns]
    /\ by = [c \in Conns |-> None]
    /\ num = [c \in Conns |-> 0]
    /\ at = [c \in Conns |-> None]
    /\ phase = [c \in Conns |-> "none"]
    /\ taken = [c \in Conns |-> None]
    /\ open = {}
    /\ local = [c \in Conns |-> "none"]
    /\ stopping = [a \in Clients |-> None]
    /\ locked = None
    /\ cut = {}

\* The lock of the table is free.  (The sections of the reversed ports are single steps.)
Unlocked == locked = None

-----------------------------------------------------------------------------
(* Listening and stopping. *)

\* msgConnect for port.reverse: the device will listen.
ReverseConnect(r) ==
    /\ relay = "reverse"
    /\ req[r] = "idle"
    /\ req' = [req EXCEPT ![r] = "creating"]
    /\ UNCHANGED <<relay, madeBy, table, ln, count, pending, active, connVars, stopping, agentVars>>

\* The device cannot listen: msgClose with number 0.
ListenFails(r) ==
    /\ req[r] = "creating"
    /\ req' = [req EXCEPT ![r] = "over"]
    /\ UNCHANGED <<relay, madeBy, table, ln, count, pending, active, connVars, stopping, agentVars>>

\* store: an entry that is there is overwritten.
StoreSession(r) ==
    /\ req[r] = "creating" /\ Unlocked
    /\ req' = [req EXCEPT ![r] = "stored"]
    /\ ln' = [ln EXCEPT ![r] = "open"]
    /\ owner' = [owner EXCEPT ![r] = madeBy[r]]
    /\ table' = [table EXCEPT ![KeyOf(r)] = r]
    /\ UNCHANGED <<relay, madeBy, count, pending, active, connVars, stopping, target, locked, cut>>

\* The accept loop starts.
ServeSession(r) ==
    /\ req[r] = "stored"
    /\ req' = [req EXCEPT ![r] = "serving"]
    /\ UNCHANGED <<relay, madeBy, table, ln, count, pending, active, connVars, stopping, agentVars>>

\* stop(a), its critical section, when a has an entry.
Remove(a) ==
    /\ stopping[a] = None
    /\ table' = [table EXCEPT ![a] = None]
    /\ stopping' = [stopping EXCEPT ![a] = table[a]]

stop(a) == IF table[a] = None THEN UNCHANGED <<table, stopping>> ELSE Remove(a)

\* stop for the final message or a session that left.
ReverseStop(a) ==
    /\ relay = "reverse" /\ table[a] # None
    /\ Remove(a)
    /\ UNCHANGED <<relay, madeBy, req, ln, count, pending, active, connVars, agentVars>>

Held(f, s) == {f[s][n] : n \in Nums} \ {None}

\* close: the listener, then every connection the session holds.
CloseSession(a) ==
    /\ stopping[a] # None
    /\ LET s == stopping[a]
       IN  /\ ln' = [ln EXCEPT ![s] = "closed"]
           /\ open' = open \ (Held(active, s) \cup Held(pending, s))
    /\ stopping' = [stopping EXCEPT ![a] = None]
    /\ UNCHANGED <<relay, madeBy, table, req, count, pending, active, by, num, at, phase, taken,
                   local, agentVars>>

-----------------------------------------------------------------------------
(* The accept loop. *)

Accept(r, c) ==
    /\ req[r] = "serving" /\ ln[r] = "open"
    /\ phase[c] = "none"
    /\ \A d \in Conns : by[d] = r => phase[d] \notin {"accepted", "storing", "stored"}
    /\ by' = [by EXCEPT ![c] = r]
    /\ num' = [num EXCEPT ![c] = count[r] + 1]
    /\ count' = [count EXCEPT ![r] = @ + 1]
    /\ phase' = [phase EXCEPT ![c] = "accepted"]
    /\ open' = open \cup {c}
    /\ UNCHANGED <<relay, madeBy, table, req, ln, pending, active, at, taken, stopping, local,
                   agentVars>>

\* No key pair can be made: the connection is closed and the loop goes on.
KeyPairFails(c) ==
    /\ phase[c] = "accepted"
    /\ open' = open \ {c}
    /\ phase' = [phase EXCEPT ![c] = "over"]
    /\ UNCHANGED <<relay, madeBy, table, req, ln, count, pending, active, by, num, at, taken,
                   stopping, local, agentVars>>

\* storePending, the lookup: without a session the connection is stored nowhere.
LookUpToStore(c) ==
    /\ phase[c] = "accepted" /\ Unlocked
    /\ at' = [at EXCEPT ![c] = table[KeyOf(by[c])]]
    /\ phase' = [phase EXCEPT ![c] = IF at'[c] = None THEN "stored" ELSE "storing"]
    /\ UNCHANGED <<relay, madeBy, table, req, ln, count, pending, active, by, num, taken, open,
                   stopping, local, agentVars>>

\* storePending, in the session that was found.
storePending(c) ==
    /\ phase[c] = "storing"
    /\ pending' = [pending EXCEPT ![at[c]][num[c]] = c]
    /\ phase' = [phase EXCEPT ![c] = "stored"]
    /\ UNCHANGED <<relay, madeBy, table, req, ln, count, active, by, num, at, taken, open, stopping,
                   local, agentVars>>

\* msgConnect is sent to the client.
OfferConn(c) ==
    /\ phase[c] = "stored"
    /\ phase' = [phase EXCEPT ![c] = "offered"]
    /\ UNCHANGED <<relay, madeBy, table, req, ln, count, pending, active, by, num, at, taken, open,
                   stopping, local, agentVars>>

\* It cannot be sent: the connection is closed.  For port.reverse the caller is also stopped, and
\* the loop returns; an agent's listener is kept.
OfferFails(c) ==
    /\ phase[c] = "stored"
    /\ open' = open \ {c}
    /\ phase' = [phase EXCEPT ![c] = "over"]
    /\ IF relay = "reverse"
         THEN req' = [req EXCEPT ![by[c]] = "over"] /\ stop(madeBy[by[c]])
         ELSE UNCHANGED <<req, table, stopping>>
    /\ UNCHANGED <<relay, madeBy, ln, count, pending, active, by, num, at, taken, local, agentVars>>

-----------------------------------------------------------------------------
(* The client, ReverseLocalPort. *)

\* msgConnect: a connection to the local service, and msgKeyExchange.
DialLocal(c) ==
    /\ phase[c] = "offered" /\ local[c] = "none"
    /\ phase' = [phase EXCEPT ![c] = "keyed"]
    /\ local' = [local EXCEPT ![c] = "open"]
    /\ UNCHANGED <<relay, madeBy, table, req, ln, count, pending, active, by, num, at, taken, open,
                   stopping, agentVars>>

\* It cannot be dialed, or there are no keys: msgClose.
DialLocalFails(c) ==
    /\ phase[c] = "offered" /\ local[c] = "none"
    /\ local' = [local EXCEPT ![c] = "closing"]
    /\ UNCHANGED <<relay, madeBy, table, req, ln, count, pending, active, by, num, at, phase, taken,
                   open, stopping, agentVars>>

\* The client's end is read to its end: msgClose, however far the key exchange has come on the
\* device, where each message has its own goroutine.
LocalEnds(c) ==
    /\ local[c] = "open"
    /\ local' = [local EXCEPT ![c] = "closing"]
    /\ UNCHANGED <<relay, madeBy, table, req, ln, count, pending, active, by, num, at, phase, taken,
                   open, stopping, agentVars>>

-----------------------------------------------------------------------------
(* The device's handlers of the client's messages. *)

\* msgKeyExchange: fetchPending, with the number the message carries.
fetchPending(c) ==
    /\ phase[c] = "keyed" /\ Unlocked
    /\ LET s == table[KeyOf(by[c])]
           d == IF s = None THEN None ELSE pending[s][num[c]]
       IN  /\ taken' = [taken EXCEPT ![c] = d]
           /\ phase' = [phase EXCEPT ![c] = IF d = None THEN "over" ELSE "deriving"]
    /\ UNCHANGED <<relay, madeBy, table, req, ln, count, pending, active, by, num, at, open,
                   stopping, local, agentVars>>

\* The keys cannot be derived.
DeriveFails(c) ==
    /\ phase[c] = "deriving"
    /\ open' = open \ {taken[c]}
    /\ phase' = [phase EXCEPT ![c] = "over"]
    /\ UNCHANGED <<relay, madeBy, table, req, ln, count, pending, active, by, num, at, taken,
                   stopping, local, agentVars>>

\* activateConn, the lookup.
LookUpToActivate(c) ==
    /\ phase[c] = "deriving" /\ Unlocked
    /\ at' = [at EXCEPT ![c] = table[KeyOf(by[c])]]
    /\ phase' = [phase EXCEPT ![c] = IF at'[c] = None THEN "relayed" ELSE "activating"]
    /\ UNCHANGED <<relay, madeBy, table, req, ln, count, pending, active, by, num, taken, open,
                   stopping, local, agentVars>>

\* Mutant: the connection leaves pending and enters nothing.
activateConnForgets(c) ==
    /\ phase[c] = "activating"
    /\ pending' = [pending EXCEPT ![at[c]][num[c]] = None]
    /\ phase' = [phase EXCEPT ![c] = "relayed"]
    /\ UNCHANGED <<relay, madeBy, table, req, ln, count, active, by, num, at, taken, open, stopping,
                   local, agentVars>>

\* activateConn, in the session that was found; the reader starts.
activateConn(c) ==
    /\ phase[c] = "activating"
    /\ pending' = [pending EXCEPT ![at[c]][num[c]] = None]
    /\ active' = [active EXCEPT ![at[c]][num[c]] = taken[c]]
    /\ phase' = [phase EXCEPT ![c] = "relayed"]
    /\ UNCHANGED <<relay, madeBy, table, req, ln, count, by, num, at, taken, open, stopping, local,
                   agentVars>>

\* The device's end is read to its end: msgClose to the client, which closes its own end without
\* a msgClose of its own.  The device's end stays open, and listed.
RemoteEnds(c) ==
    /\ phase[c] = "relayed" /\ local[c] = "open"
    /\ local' = [local EXCEPT ![c] = "over"]
    /\ UNCHANGED <<relay, madeBy, table, req, ln, count, pending, active, by, num, at, phase, taken,
                   open, stopping, agentVars>>

\* The reader cannot encrypt or send, or a write fails: the connection is closed and stays listed.
RelayBreaks(c) ==
    /\ phase[c] = "relayed" /\ taken[c] \in open
    /\ open' = open \ {taken[c]}
    /\ UNCHANGED <<relay, madeBy, table, req, ln, count, pending, active, by, num, at, phase, taken,
                   stopping, local, agentVars>>

\* msgClose from the client: fetchActive, with the number the message carries.  What is found is
\* closed, and its reader waited for.
CloseActive(c) ==
    /\ local[c] = "closing" /\ Unlocked
    /\ LET s == table[KeyOf(by[c])]
           d == IF s = None THEN None ELSE active[s][num[c]]
       IN  /\ open' = open \ {d}
           /\ local' = [local EXCEPT ![c] = IF d = None THEN "missed" ELSE "removing"]
    /\ UNCHANGED <<relay, madeBy, table, req, ln, count, pending, active, by, num, at, phase, taken,
                   stopping, agentVars>>

\* ... then removeActive, which looks the session up again.  What was activated meanwhile leaves
\* the session too, and is open ("lost").
removeActive(c) ==
    /\ local[c] \in {"removing", "missed"} /\ Unlocked
    /\ LET s == table[KeyOf(by[c])]
       IN  IF s = None \/ active[s][num[c]] = None
             THEN /\ UNCHANGED active
                  /\ local' = [local EXCEPT ![c] = "over"]
             ELSE /\ active' = [active EXCEPT ![s][num[c]] = None]
                  /\ local' = [local EXCEPT ![c] = IF @ = "missed" THEN "lost" ELSE "over"]
    /\ UNCHANGED <<relay, madeBy, table, req, ln, count, pending, by, num, at, phase, taken, open,
                   stopping, agentVars>>

-----------------------------------------------------------------------------
SessionStep(r) ==
    \/ ReverseConnect(r) \/ ListenFails(r) \/ StoreSession(r) \/ ServeSession(r)
    \/ \E c \in Conns : Accept(r, c)

ConnStep(c) ==
    \/ KeyPairFails(c) \/ LookUpToStore(c) \/ storePending(c) \/ OfferConn(c) \/ OfferFails(c)
    \/ DialLocal(c) \/ DialLocalFails(c)
    \/ fetchPending(c) \/ DeriveFails(c) \/ LookUpToActivate(c) \/ activateConn(c)
    \/ RemoteEnds(c) \/ LocalEnds(c) \/ RelayBreaks(c) \/ CloseActive(c) \/ removeActive(c)

RelayNext ==
    \/ \E r \in Reqs : SessionStep(r)
    \/ \E c \in Conns : ConnStep(c)
    \/ \E a \in Clients : ReverseStop(a) \/ CloseSession(a)

-----------------------------------------------------------------------------
(* Properties. *)

\* No connection of another session of the same key has c's number.  (Numbers are counted per
\* session and looked up by key: a connection accepted by a session that is stopped or overwritten
\* meanwhile may be stored in its successor, under a number that is in use there.)
NoRival(c) ==
    \A d \in Conns :
        by[d] # None /\ by[d] # by[c] /\ KeyOf(by[d]) = KeyOf(by[c]) => num[d] # num[c]

\* c is open, and neither a rival nor a msgClose that overtook the key exchange has taken its
\* place in its session.
Due(c) == c \in open /\ local[c] # "lost" /\ NoRival(c)

HeldBy(s, c) == c \in Held(pending, s) \cup Held(active, s)

\* While a session is listed it holds every connection that was stored: nothing is lost between
\* pending and active, where stop would not find it.
HeldWhileListed ==
    \A c \in Conns :
        /\ Due(c)
        /\ phase[c] \in {"stored", "offered", "keyed", "deriving", "activating", "relayed"}
        /\ table[KeyOf(by[c])] = by[c]
        => HeldBy(by[c], c)

\* A connection whose key exchange the device has begun is held by a session that is not closed,
\* and so closed with it, however stop falls between the steps of the exchange.
KeyedIsHeld ==
    \A c \in Conns :
        /\ Due(c)
        /\ phase[c] \in {"deriving", "activating", "relayed"}
        => \E s \in Reqs : KeyOf(s) = KeyOf(by[c]) /\ ln[s] = "open" /\ HeldBy(s, c)

\* A session in the table listens: a connection can be made to whatever is listed.
ListedListens == \A k \in Keys : table[k] # None => ln[table[k]] = "open"

\* A listener that is neither listed nor being stopped, and so is never closed, had a rival: a
\* second call of its key has stored its session as well (store overwrites).
LostOnlyByOverwrite ==
    \A r \in Reqs :
        /\ ln[r] = "open" /\ table[KeyOf(r)] # r
        /\ \A a \in Clients : stopping[a] # r
        => \E q \in Reqs \ {r} : KeyOf(q) = KeyOf(r) /\ ln[q] # "none"

\* Nothing gets out of reach but by the overwriting of a session, the confusion of numbers after
\* it, and a msgClose that overtakes the key exchange: what is listed listens and holds its
\* connections, those whose key exchange has begun can be closed, and so can every listener
\* (portReverseSessions, agentForwardSessions and their handlers).
RelaysWithinReach ==
    /\ RelayTypeOK
    /\ ListedListens
    /\ HeldWhileListed
    /\ KeyedIsHeld
    /\ LostOnlyByOverwrite
=============================================================================
