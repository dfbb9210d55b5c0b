------------------------- MODULE DeviceSessionsProofs -------------------------
(***************************************************************************)
(* Proofs about the services of a device, for any number of callers,       *)
(* calls, requests, connections and streams.                               *)
(*                                                                         *)
(* DeviceSessions lets a behaviour use one of the services, because they   *)
(* share no state; ServicesSpec lets it use all of them at once, each for  *)
(* any of its calls.  Every property of the run is proved for both.        *)
(***************************************************************************)
EXTENDS DeviceSessions, FiniteSetTheorems, WellFoundedInduction, TLAPS

\* All services in use, each for some of its calls.
ServicesInit ==
    /\ \E made \in SUBSET Calls : ShellInit(made)
    /\ \E made \in SUBSET Reqs : RelayInit(made)
    /\ \E made \in SUBSET Streams : LogInit(made)

ServicesSpec == ServicesInit /\ [][DeviceNext]_deviceVars

-----------------------------------------------------------------------------
(* Log streaming. *)

\* The streams that came through daemon d and have an id.
NumberedBy(d) == {s \in Streams : caller[s] = d /\ streamID[s] # 0}

\* An entry is under its own stream's id; what runs has an id; a daemon has numbered as many
\* streams as it has started, so that its ids do not run out.
LogInd ==
    /\ LogTypeOK
    /\ \A i \in StreamIDs : sess[i] # NoStream => streamID[sess[i]] = i
    /\ \A s \in running : streamID[s] # 0
    /\ \A d \in Daemons : counter[d] = Cardinality(NumberedBy(d))
    /\ RunningIsListed
    /\ ListedRuns

\* ProxyLogsHandler never runs out of ids: the next one is within the number of streams.
LEMMA NextIdIsFree ==
    ASSUME LogInd, NEW s \in Streams, streamID[s] = 0
    PROVE  /\ counter[caller[s]] + 1 \in StreamIDs
           /\ counter[caller[s]] + 1 = Cardinality(NumberedBy(caller[s]) \cup {s})
<1> DEFINE T == NumberedBy(caller[s])
<1>1. IsFiniteSet(Streams) /\ T \subseteq Streams /\ s \notin T /\ caller[s] \in Daemons
  BY LogAssumption DEF LogInd, LogTypeOK, NumberedBy
<1>2. IsFiniteSet(T)
  BY <1>1, FS_Subset
<1>3. Cardinality(T \cup {s}) = Cardinality(T) + 1
  BY <1>1, <1>2, FS_AddElement
<1>4. Cardinality(T \cup {s}) <= Cardinality(Streams)
  BY <1>1, FS_Subset
<1>5. counter[caller[s]] = Cardinality(T)
  BY <1>1 DEF LogInd
<1>6. Cardinality(T) \in Nat /\ Cardinality(Streams) \in Nat
  BY <1>1, <1>2, FS_CardinalityType
<1> QED
  BY <1>3, <1>4, <1>5, <1>6 DEF StreamIDs

\* The invariant holds when the device starts, whoever calls logs.
LEMMA LogInitial ==
    ASSUME NEW made, LogInit(made)
    PROVE  LogInd
<1>1. Cardinality(Streams) \in Nat
  BY LogAssumption, FS_CardinalityType
<1>2. LogTypeOK
  BY <1>1 DEF LogInit, LogTypeOK, StreamIDs
<1>3. \A d \in Daemons : NumberedBy(d) = {}
  BY DEF LogInit, NumberedBy
<1>4. \A d \in Daemons : counter[d] = Cardinality(NumberedBy(d))
  BY <1>3, FS_EmptySet DEF LogInit
<1> QED
  BY <1>2, <1>4 DEF LogInit, LogInd, RunningIsListed, ListedRuns

\* Every critical section of the table, and every end of a stream, keeps the invariant.
LEMMA LogStep ==
    ASSUME LogInd, [LogNext]_logVars
    PROVE  LogInd'
<1>a. ASSUME NEW s \in Streams, streamID[s] = 0
      PROVE  /\ counter[caller[s]] + 1 \in StreamIDs
             /\ counter[caller[s]] + 1 = Cardinality(NumberedBy(caller[s]) \cup {s})
  BY <1>a, NextIdIsFree
<1> USE DEF LogInd, LogTypeOK
<1>0. Cardinality(Streams) \in Nat /\ NoStream \notin Streams
  BY LogAssumption, FS_CardinalityType
<1>1. ASSUME NEW s \in Streams, handleLogs(s)
      PROVE  LogInd'
  <2> DEFINE i == counter[caller[s]] + 1
  <2>1. i \in StreamIDs /\ i # 0 /\ i \in 0 .. Cardinality(Streams)
    <3>1. streamID[s] = 0
      BY <1>1 DEF handleLogs
    <3>2. i \in StreamIDs
      BY <3>1, <1>a
    <3> QED
      BY <3>2, <1>0 DEF StreamIDs
  <2>2. LogTypeOK'
    BY <2>1, <1>0, <1>1 DEF handleLogs, NextStreamID
  <2>3. \A d \in Daemons : counter'[d] = Cardinality(NumberedBy(d)')
    <3> SUFFICES ASSUME NEW d \in Daemons PROVE counter'[d] = Cardinality(NumberedBy(d)')
      OBVIOUS
    <3>1. CASE d = caller[s]
      <4>1. NumberedBy(d)' = NumberedBy(d) \cup {s}
        BY <1>1, <2>1, <3>1 DEF handleLogs, NextStreamID, NumberedBy
      <4> QED
        BY <4>1, <3>1, <1>1, <1>a DEF handleLogs, NextStreamID
    <3>2. CASE d # caller[s]
      <4>1. NumberedBy(d)' = NumberedBy(d)
        BY <1>1, <2>1, <3>2 DEF handleLogs, NextStreamID, NumberedBy
      <4> QED
        BY <4>1, <3>2, <1>1 DEF handleLogs, NextStreamID
    <3> QED
      BY <3>1, <3>2
  <2>4. \A j \in StreamIDs : sess'[j] # NoStream => streamID'[sess'[j]] = j
    BY <1>0, <1>1, <2>1 DEF handleLogs, NextStreamID, RunningIsListed, ListedRuns
  <2>5. \A t \in running' : streamID'[t] # 0
    BY <1>0, <1>1, <2>1 DEF handleLogs, NextStreamID
  <2>6. RunningIsListed'
    <3> SUFFICES ASSUME NEW t \in running'
                 PROVE  t \in dying' \cup killed' \/ sess'[streamID'[t]] = t
      BY DEF RunningIsListed
    <3>1. CASE t = s
      BY <1>1, <2>1, <3>1 DEF handleLogs, NextStreamID
    <3>2. CASE t # s
      BY <1>0, <1>1, <2>1, <3>2 DEF handleLogs, NextStreamID, RunningIsListed
    <3> QED
      BY <3>1, <3>2
  <2>7. ListedRuns'
    BY <1>0, <1>1, <2>1 DEF handleLogs, NextStreamID, ListedRuns
  <2> QED
    BY <2>2, <2>3, <2>4, <2>5, <2>6, <2>7
<1>2. ASSUME NEW s \in Streams, kill(s)
      PROVE  LogInd'
  BY <1>0, <1>2 DEF kill, NumberedBy, RunningIsListed, ListedRuns
<1>3. ASSUME NEW s \in Streams, killAndDelete(s)
      PROVE  LogInd'
  BY <1>0, <1>3 DEF killAndDelete, NumberedBy, RunningIsListed, ListedRuns
<1>4. ASSUME NEW s \in Streams, streamJournalLogs(s) \/ streamFileLogs(s)
      PROVE  LogInd'
  BY <1>0, <1>4 DEF streamJournalLogs, streamFileLogs, deleteIfSame, NumberedBy, RunningIsListed,
       ListedRuns
<1>5. ASSUME NEW d \in Daemons, killAndDeleteByCaller(d)
      PROVE  LogInd'
  BY <1>0, <1>5 DEF killAndDeleteByCaller, NumberedBy, RunningIsListed, ListedRuns
<1>6. CASE UNCHANGED logVars
  BY <1>6 DEF logVars, StreamIDs, NumberedBy, RunningIsListed, ListedRuns
<1> QED
  BY <1>1, <1>2, <1>3, <1>4, <1>5, <1>6 DEF LogNext

-----------------------------------------------------------------------------
(* Port reversing and agent forwarding. *)

\* The connections session r has accepted.
AcceptedBy(r) == {c \in Conns : by[c] = r}

\* What a handler goes on to use has been set.
HandlersReady ==
    /\ \A c \in Conns :
         /\ phase[c] = "none" => by[c] = None /\ local[c] = "none"
         /\ phase[c] # "none" => by[c] \in Reqs /\ num[c] \in Nums
         /\ phase[c] \in {"storing", "activating"} => at[c] \in Reqs
         /\ phase[c] \in {"deriving", "activating", "relayed"} => taken[c] \in Conns
    /\ \A r \in Reqs : req[r] = "taking" => target[r] \in Reqs
    /\ locked # None => relay = "agent" /\ table[User] # None /\ stopping[locked] = None

\* connCounter counts the connections accepted.
Counted == \A r \in Reqs : count[r] = Cardinality(AcceptedBy(r))

\* The types, inductively.
RelayTypeInd == RelayTypeOK /\ HandlersReady /\ Counted

\* A listed session listens and is under its own key; a session that is not stored yet does not,
\* and one that is being stopped has left the table.  A listener that nobody can stop was
\* overwritten.
Listed ==
    /\ \A k \in Keys : table[k] # None => ln[table[k]] = "open" /\ KeyOf(table[k]) = k
    /\ \A r \in Reqs : req[r] \in {"idle", "creating"} => ln[r] = "none"
    /\ \A a \in Clients : stopping[a] # None =>
         ln[stopping[a]] # "none" /\ table[KeyOf(stopping[a])] # stopping[a]
    /\ LostOnlyByOverwrite

\* Every call comes from a client of its own.
OwnClients == \A r, q \in Reqs : madeBy[r] = madeBy[q] => r = q

\* A session that is looked up to be taken over was made by another call.  Once a re-issued call
\* has taken over what its first leg made, that leg's caller does not own it; the end of the leg
\* comes when the re-issued call has been answered.
Handed ==
    /\ relay = "reverse" => \A r \in Reqs : req[r] # "taking"
    /\ \A r \in Reqs : target[r] # None => target[r] # r /\ ln[target[r]] # "none"
    /\ OwnClients => \A r \in Reqs :
         legOf[r] # None /\ target[r] = legOf[r] /\ req[r] # "taking"
           => owner[legOf[r]] # madeBy[legOf[r]]
    /\ \A r \in Reqs : legOf[r] \in cut => req[r] \in {"ready", "serving", "over"}
    /\ TakenOverStays

\* Connection c and session s belong to the same key.
SameKey(c, s) == by[c] # None /\ ln[s] # "none" /\ KeyOf(by[c]) = KeyOf(s)

\* The number of a connection is its own among those of its session.  Whatever leads to a
\* connection or to a session leads to one of the same key, and under the same number.
Numbered ==
    /\ \A c \in Conns : by[c] # None => ln[by[c]] # "none" /\ num[c] <= count[by[c]]
    /\ \A c, d \in Conns : by[c] # None /\ by[c] = by[d] /\ num[c] = num[d] => c = d
    /\ \A c \in Conns : at[c] # None => SameKey(c, at[c])
    /\ \A c \in Conns : taken[c] # None =>
         by[c] # None /\ num[taken[c]] = num[c] /\ SameKey(taken[c], by[c])

\* The same for what a session stores under a number.
Stored ==
    \A s \in Reqs, n \in Nums :
        /\ pending[s][n] # None => SameKey(pending[s][n], s) /\ num[pending[s][n]] = n
        /\ active[s][n] # None => SameKey(active[s][n], s) /\ num[active[s][n]] = n

\* Session t of c's key listens and has c pending, or active.
PendingIn(t, c) == KeyOf(t) = KeyOf(by[c]) /\ ln[t] = "open" /\ pending[t][num[c]] = c
ActiveIn(t, c) == KeyOf(t) = KeyOf(by[c]) /\ ln[t] = "open" /\ active[t][num[c]] = c

\* Where a connection without a rival is kept: in its session while that is listed, and from the
\* key exchange on in a session that listens, perhaps a successor.  Its msgClose has not found it.
Kept(c) ==
    /\ table[KeyOf(by[c])] = by[c] =>
         /\ phase[c] \in {"storing", "activating"} => at[c] = by[c]
         /\ phase[c] \in {"stored", "offered", "keyed", "deriving", "activating"}
              => pending[by[c]][num[c]] = c
         /\ phase[c] = "relayed" => active[by[c]][num[c]] = c
    /\ phase[c] \in {"deriving", "activating"} => \E t \in Reqs : PendingIn(t, c)
    /\ phase[c] = "relayed" => \E t \in Reqs : PendingIn(t, c) \/ ActiveIn(t, c)
    /\ local[c] # "removing"

\* Every connection that is due is kept.
AllKept == \A c \in Conns : Due(c) => Kept(c)

\* The inductive invariant of the relay services.
RelayInd == RelayTypeInd /\ Listed /\ Handed /\ Numbered /\ Stored /\ AllKept

\* The types of the relay services hold when the device starts.
LEMMA RelayTypeInitial ==
    ASSUME NEW made, RelayInit(made)
    PROVE  RelayTypeInd
<1>1. Cardinality(Conns) \in Nat
  BY RelayAssumption, FS_CardinalityType
<1>2. RelayTypeOK
  BY <1>1 DEF RelayInit, RelayTypeOK, Nums, Keys, NoConns
<1>3. \A r \in Reqs : AcceptedBy(r) = {}
  BY RelayAssumption DEF RelayInit, AcceptedBy
<1>4. \A r \in Reqs : count[r] = Cardinality(AcceptedBy(r))
  BY <1>3, FS_EmptySet DEF RelayInit
<1> QED
  BY <1>2, <1>4 DEF RelayInit, RelayTypeInd, HandlersReady, Counted

\* connCounter does not leave the range of numbers: a session has accepted as many connections as
\* it has counted.
LEMMA NextNumber ==
    ASSUME RelayTypeInd, NEW r \in Reqs, NEW c \in Conns, phase[c] = "none"
    PROVE  /\ count[r] + 1 \in Nums
           /\ count[r] + 1 = Cardinality(AcceptedBy(r) \cup {c})
<1> DEFINE T == AcceptedBy(r)
<1>1. IsFiniteSet(Conns) /\ T \subseteq Conns /\ c \notin T
  BY RelayAssumption DEF RelayTypeInd, RelayTypeOK, HandlersReady, AcceptedBy
<1>2. IsFiniteSet(T)
  BY <1>1, FS_Subset
<1>3. Cardinality(T \cup {c}) = Cardinality(T) + 1
  BY <1>1, <1>2, FS_AddElement
<1>4. Cardinality(T \cup {c}) <= Cardinality(Conns)
  BY <1>1, FS_Subset
<1>5. count[r] = Cardinality(T)
  BY DEF RelayTypeInd, Counted
<1>6. Cardinality(T) \in Nat /\ Cardinality(Conns) \in Nat
  BY <1>1, <1>2, FS_CardinalityType
<1> QED
  BY <1>3, <1>4, <1>5, <1>6 DEF Nums

\* Every step of port reversing and of agent forwarding keeps the types, and what a handler goes
\* on to use after a lookup is there.
LEMMA RelayTypeStep ==
    ASSUME RelayTypeInd, [AgentNext]_relayVars
    PROVE  RelayTypeInd'
<1>0. Cardinality(Conns) \in Nat /\ User \in Keys /\ Clients \subseteq Keys
      /\ None \notin Clients /\ None \notin Reqs /\ None \notin Conns
  BY RelayAssumption, FS_CardinalityType DEF Keys
<1>n. ASSUME NEW r \in Reqs, NEW c \in Conns, phase[c] = "none"
      PROVE  /\ count[r] + 1 \in Nums
             /\ count[r] + 1 = Cardinality(AcceptedBy(r) \cup {c})
  BY <1>n, NextNumber
<1>k. \A r \in Reqs : KeyOf(r) \in Keys
  BY <1>0 DEF RelayTypeInd, RelayTypeOK, KeyOf
<1>c. ASSUME UNCHANGED <<by, count>>
      PROVE  Counted'
  BY <1>c DEF RelayTypeInd, Counted, AcceptedBy
<1> USE DEF RelayTypeInd, RelayTypeOK, HandlersReady, connVars, agentVars
<1>a. ASSUME NEW r \in Reqs, NEW c \in Conns, Accept(r, c)
      PROVE  RelayTypeInd'
  <2>1. count[r] + 1 \in Nums /\ count[r] + 1 = Cardinality(AcceptedBy(r) \cup {c})
    <3>1. phase[c] = "none"
      BY <1>a DEF Accept
    <3> QED
      BY <3>1, <1>n
  <2>2. count[r] + 1 \in 0 .. Cardinality(Conns)
    BY <2>1, <1>0 DEF Nums
  <2>3. RelayTypeOK'
    BY <2>1, <2>2, <1>a DEF Accept
  <2>4. ASSUME NEW q \in Reqs
        PROVE  count'[q] = Cardinality(AcceptedBy(q)')
    <3>1. CASE q = r
      <4>1. AcceptedBy(q)' = AcceptedBy(q) \cup {c}
        BY <1>a, <3>1 DEF Accept, AcceptedBy, Counted
      <4> QED
        BY <4>1, <2>1, <1>a, <3>1 DEF Accept
    <3>2. CASE q # r
      <4>1. AcceptedBy(q)' = AcceptedBy(q)
        BY <1>0, <1>a, <3>2 DEF Accept, AcceptedBy, Counted
      <4> QED
        BY <4>1, <1>a, <3>2 DEF Accept, Counted
    <3> QED
      BY <3>1, <3>2
  <2> QED
    BY <2>1, <2>3, <2>4, <1>a DEF Accept, HandlersReady, Counted
<1>1. ASSUME NEW r \in Reqs, ReverseConnect(r)
      PROVE  RelayTypeInd'
  <2>1. Counted'
    BY <1>c, <1>1 DEF ReverseConnect
  <2> QED
    BY <2>1, <1>0, <1>k, <1>1 DEF ReverseConnect
<1>2. ASSUME NEW r \in Reqs, ListenFails(r)
      PROVE  RelayTypeInd'
  <2>1. Counted'
    BY <1>c, <1>2 DEF ListenFails
  <2> QED
    BY <2>1, <1>0, <1>k, <1>2 DEF ListenFails
<1>3. ASSUME NEW r \in Reqs, StoreSession(r)
      PROVE  RelayTypeInd'
  <2>1. Counted'
    BY <1>c, <1>3 DEF StoreSession
  <2> QED
    BY <2>1, <1>0, <1>k, <1>3 DEF StoreSession, Unlocked
<1>4. ASSUME NEW r \in Reqs, ServeSession(r)
      PROVE  RelayTypeInd'
  <2>1. Counted'
    BY <1>c, <1>4 DEF ServeSession
  <2> QED
    BY <2>1, <1>0, <1>k, <1>4 DEF ServeSession
<1>5. ASSUME NEW r \in Reqs, AgentConnect(r)
      PROVE  RelayTypeInd'
  <2>1. Counted'
    BY <1>c, <1>5 DEF AgentConnect
  <2> QED
    BY <2>1, <1>0, <1>k, <1>5 DEF AgentConnect, Unlocked
<1>6. ASSUME NEW r \in Reqs, takeOver(r)
      PROVE  RelayTypeInd'
  <2>1. Counted'
    BY <1>c, <1>6 DEF takeOver
  <2> QED
    BY <2>1, <1>0, <1>k, <1>6 DEF takeOver
<1>7. ASSUME NEW r \in Reqs, SendReady(r)
      PROVE  RelayTypeInd'
  <2>1. Counted'
    BY <1>c, <1>7 DEF SendReady
  <2> QED
    BY <2>1, <1>0, <1>k, <1>7 DEF SendReady
<1>8. ASSUME NEW r \in Reqs, ReadyFails(r)
      PROVE  RelayTypeInd'
  <2>1. Counted'
    BY <1>c, <1>8 DEF ReadyFails
  <2> QED
    BY <2>1, <1>0, <1>k, <1>8 DEF ReadyFails, FindOwned, owns, Unlocked
<1>9. ASSUME NEW r \in Reqs, LegEnds(r)
      PROVE  RelayTypeInd'
  <2>1. Counted'
    BY <1>c, <1>9 DEF LegEnds
  <2> QED
    BY <2>1, <1>0, <1>k, <1>9 DEF LegEnds, FindOwned, owns, Unlocked
<1>10. ASSUME NEW a \in Clients, AgentStop(a)
      PROVE  RelayTypeInd'
  <2>1. Counted'
    BY <1>c, <1>10 DEF AgentStop
  <2> QED
    BY <2>1, <1>0, <1>k, <1>10 DEF AgentStop, FindOwned, owns, Unlocked
<1>11. ASSUME NEW c \in Conns, KeyPairFails(c)
      PROVE  RelayTypeInd'
  <2>1. Counted'
    BY <1>c, <1>11 DEF KeyPairFails
  <2> QED
    BY <2>1, <1>0, <1>k, <1>11 DEF KeyPairFails
<1>12. ASSUME NEW c \in Conns, LookUpToStore(c)
      PROVE  RelayTypeInd'
  <2>1. Counted'
    BY <1>c, <1>12 DEF LookUpToStore
  <2> QED
    BY <2>1, <1>0, <1>k, <1>12 DEF LookUpToStore, Unlocked
<1>13. ASSUME NEW c \in Conns, storePending(c)
      PROVE  RelayTypeInd'
  <2>1. Counted'
    BY <1>c, <1>13 DEF storePending
  <2> QED
    BY <2>1, <1>0, <1>k, <1>13 DEF storePending
<1>14. ASSUME NEW c \in Conns, OfferConn(c)
      PROVE  RelayTypeInd'
  <2>1. Counted'
    BY <1>c, <1>14 DEF OfferConn
  <2> QED
    BY <2>1, <1>0, <1>k, <1>14 DEF OfferConn
<1>15. ASSUME NEW c \in Conns, DialLocal(c)
      PROVE  RelayTypeInd'
  <2>1. Counted'
    BY <1>c, <1>15 DEF DialLocal
  <2> QED
    BY <2>1, <1>0, <1>k, <1>15 DEF DialLocal
<1>16. ASSUME NEW c \in Conns, DialLocalFails(c)
      PROVE  RelayTypeInd'
  <2>1. Counted'
    BY <1>c, <1>16 DEF DialLocalFails
  <2> QED
    BY <2>1, <1>0, <1>k, <1>16 DEF DialLocalFails
<1>17. ASSUME NEW c \in Conns, LocalEnds(c)
      PROVE  RelayTypeInd'
  <2>1. Counted'
    BY <1>c, <1>17 DEF LocalEnds
  <2> QED
    BY <2>1, <1>0, <1>k, <1>17 DEF LocalEnds
<1>18. ASSUME NEW c \in Conns, fetchPending(c)
      PROVE  RelayTypeInd'
  <2>1. Counted'
    BY <1>c, <1>18 DEF fetchPending
  <2> QED
    BY <2>1, <1>0, <1>k, <1>18 DEF fetchPending, Unlocked
<1>19. ASSUME NEW c \in Conns, DeriveFails(c)
      PROVE  RelayTypeInd'
  <2>1. Counted'
    BY <1>c, <1>19 DEF DeriveFails
  <2> QED
    BY <2>1, <1>0, <1>k, <1>19 DEF DeriveFails
<1>20. ASSUME NEW c \in Conns, LookUpToActivate(c)
      PROVE  RelayTypeInd'
  <2>1. Counted'
    BY <1>c, <1>20 DEF LookUpToActivate
  <2> QED
    BY <2>1, <1>0, <1>k, <1>20 DEF LookUpToActivate, Unlocked
<1>21. ASSUME NEW c \in Conns, activateConn(c)
      PROVE  RelayTypeInd'
  <2>1. Counted'
    BY <1>c, <1>21 DEF activateConn
  <2> QED
    BY <2>1, <1>0, <1>k, <1>21 DEF activateConn
<1>22. ASSUME NEW c \in Conns, RemoteEnds(c)
      PROVE  RelayTypeInd'
  <2>1. Counted'
    BY <1>c, <1>22 DEF RemoteEnds
  <2> QED
    BY <2>1, <1>0, <1>k, <1>22 DEF RemoteEnds
<1>23. ASSUME NEW c \in Conns, RelayBreaks(c)
      PROVE  RelayTypeInd'
  <2>1. Counted'
    BY <1>c, <1>23 DEF RelayBreaks
  <2> QED
    BY <2>1, <1>0, <1>k, <1>23 DEF RelayBreaks
<1>24. ASSUME NEW c \in Conns, CloseActive(c)
      PROVE  RelayTypeInd'
  <2>1. Counted'
    BY <1>c, <1>24 DEF CloseActive
  <2> QED
    BY <2>1, <1>0, <1>k, <1>24 DEF CloseActive, Unlocked
<1>25. ASSUME NEW c \in Conns, removeActive(c)
      PROVE  RelayTypeInd'
  <2> DEFINE s == table[KeyOf(by[c])]
  <2>1. Counted'
    BY <1>c, <1>25 DEF removeActive
  <2>2. /\ by[c] \in Reqs /\ num[c] \in Nums /\ s \in Reqs \cup {None}
        /\ phase[c] # "none" /\ UNCHANGED <<relay, table, by, num, at, phase, taken, open, stopping, locked>>
    BY <1>25, <1>k DEF removeActive
  <2>3. /\ active' \in [Reqs -> [Nums -> Conns \cup {None}]]
        /\ \E v \in {"over", "lost"} : local' = [local EXCEPT ![c] = v]
    <3>1. CASE s = None \/ active[s][num[c]] = None
      BY <3>1, <1>25 DEF removeActive
    <3>2. CASE ~(s = None \/ active[s][num[c]] = None)
      <4>1. s \in Reqs /\ active' = [active EXCEPT ![s][num[c]] = None]
        BY <3>2, <2>2, <1>25 DEF removeActive
      <4>2. \E v \in {"over", "lost"} : local' = [local EXCEPT ![c] = v]
        BY <3>2, <1>25 DEF removeActive
      <4> QED
        BY <4>1, <4>2, <2>2
    <3> QED
      BY <3>1, <3>2
  <2>4. local' \in [Conns -> {"none", "open", "closing", "removing", "missed", "lost", "over"}]
        /\ \A d \in Conns \ {c} : local'[d] = local[d]
    BY <2>3
  <2> QED
    BY <2>1, <2>2, <2>3, <2>4, <1>25 DEF removeActive
<1>26. ASSUME NEW a \in Clients, ReverseStop(a)
      PROVE  RelayTypeInd'
  <2>1. Counted'
    BY <1>c, <1>26 DEF ReverseStop
  <2> QED
    BY <2>1, <1>0, <1>k, <1>26 DEF ReverseStop, Remove
<1>27. ASSUME NEW a \in Clients, CloseSession(a)
      PROVE  RelayTypeInd'
  <2>1. Counted'
    BY <1>c, <1>27 DEF CloseSession
  <2> QED
    BY <2>1, <1>0, <1>k, <1>27 DEF CloseSession, Held
<1>28. ASSUME NEW c \in Conns, OfferFails(c)
      PROVE  RelayTypeInd'
  <2>1. Counted'
    BY <1>c, <1>28 DEF OfferFails
  <2>2. by[c] \in Reqs /\ madeBy[by[c]] \in Clients
    BY <1>28 DEF OfferFails
  <2>3. CASE relay = "reverse" /\ table[madeBy[by[c]]] # None
    <3>1. Remove(madeBy[by[c]]) /\ req' = [req EXCEPT ![by[c]] = "over"]
      BY <2>3, <1>28 DEF OfferFails, stop
    <3>2. table' \in [Keys -> Reqs \cup {None}] /\ stopping' \in [Clients -> Reqs \cup {None}]
      BY <3>1, <2>2, <2>3, <1>0 DEF Remove
    <3> QED
      BY <2>1, <3>1, <3>2, <2>2, <2>3, <1>28 DEF OfferFails
  <2>4. CASE ~(relay = "reverse" /\ table[madeBy[by[c]]] # None)
    <3>1. UNCHANGED <<table, stopping>>
      BY <2>4, <1>28 DEF OfferFails, stop
    <3>2. req' = req \/ req' = [req EXCEPT ![by[c]] = "over"]
      BY <1>28 DEF OfferFails
    <3>3. CASE req' = req
      BY <2>1, <3>1, <3>3, <1>28 DEF OfferFails
    <3>4. CASE req' = [req EXCEPT ![by[c]] = "over"]
      BY <2>1, <3>1, <3>4, <2>2, <1>28 DEF OfferFails
    <3> QED
      BY <3>2, <3>3, <3>4
  <2> QED
    BY <2>3, <2>4
<1>29. CASE RemoveOwned
  <2>1. Counted'
    BY <1>c, <1>29 DEF RemoveOwned
  <2>2. locked \in Clients
    BY <1>29 DEF RemoveOwned
  <2> QED
    BY <2>1, <2>2, <1>0, <1>29 DEF RemoveOwned
<1>30. CASE UNCHANGED relayVars
  <2>1. Counted'
    BY <1>c, <1>30 DEF relayVars
  <2> QED
    BY <2>1, <1>30 DEF relayVars
<1> QED
  BY <1>a, <1>1, <1>2, <1>3, <1>4, <1>5, <1>6, <1>7, <1>8, <1>9, <1>10, <1>11, <1>12, <1>13,
     <1>14, <1>15, <1>16, <1>17, <1>18, <1>19, <1>20, <1>21, <1>22, <1>23, <1>24, <1>25, <1>26,
     <1>27, <1>28, <1>29, <1>30
  DEF AgentNext, RelayNext, SessionStep, ConnStep

\* No step changes who made a request, and a listener that was opened stays known as open or
\* closed.
LEMMA SessionsStay ==
    ASSUME RelayTypeOK, [AgentNext]_relayVars
    PROVE  /\ UNCHANGED <<relay, madeBy>>
           /\ \A r \in Reqs : ln[r] # "none" => ln'[r] # "none"
           /\ \A r \in Reqs : KeyOf(r)' = KeyOf(r)
<1>1. UNCHANGED <<relay, madeBy>>
  BY DEF AgentNext, RelayNext, SessionStep, ConnStep, relayVars, ReverseConnect, ListenFails,
         StoreSession, ServeSession, Accept,
         KeyPairFails, LookUpToStore, storePending, OfferConn, OfferFails, DialLocal,
         DialLocalFails, fetchPending, DeriveFails, LookUpToActivate, activateConn, RemoteEnds,
         LocalEnds, RelayBreaks, CloseActive, removeActive, ReverseStop, CloseSession,
         AgentConnect, takeOver, SendReady, ReadyFails, LegEnds, AgentStop, RemoveOwned
<1>2. ASSUME \E r \in Reqs : StoreSession(r)
      PROVE  \A r \in Reqs : ln[r] # "none" => ln'[r] # "none"
  BY <1>2 DEF StoreSession, RelayTypeOK
<1>3. ASSUME \E a \in Clients : CloseSession(a)
      PROVE  \A r \in Reqs : ln[r] # "none" => ln'[r] # "none"
  BY <1>3 DEF CloseSession, RelayTypeOK
<1>4. ASSUME ~(\E r \in Reqs : StoreSession(r)),
             ~(\E a \in Clients : CloseSession(a))
      PROVE  \A r \in Reqs : ln[r] # "none" => ln'[r] # "none"
  <2>1. UNCHANGED ln
    BY <1>4 DEF AgentNext, RelayNext, SessionStep, ConnStep, relayVars, ReverseConnect,
         ListenFails, ServeSession, Accept,
         KeyPairFails, LookUpToStore, storePending, OfferConn, OfferFails, DialLocal,
         DialLocalFails, fetchPending, DeriveFails, LookUpToActivate, activateConn, RemoteEnds,
         LocalEnds, RelayBreaks, CloseActive, removeActive,
         ReverseStop, AgentConnect, takeOver, SendReady, ReadyFails, LegEnds, AgentStop, RemoveOwned
  <2> QED
    BY <2>1
<1>5. \A r \in Reqs : ln[r] # "none" => ln'[r] # "none"
  BY <1>2, <1>3, <1>4
<1> QED
  BY <1>1, <1>5 DEF KeyOf

\* Every step keeps the table of sessions sound, and every listener in reach that was not
\* overwritten.
LEMMA ListedStep ==
    ASSUME RelayTypeInd, Listed, [AgentNext]_relayVars
    PROVE  Listed'
<1>0. /\ User \in Keys /\ Clients \subseteq Keys /\ None \notin Clients /\ None \notin Reqs
      /\ User \notin Clients
  BY RelayAssumption DEF Keys
<1>t. RelayTypeOK
  BY DEF RelayTypeInd
<1>g. /\ UNCHANGED <<relay, madeBy>>
      /\ \A r \in Reqs : ln[r] # "none" => ln'[r] # "none"
      /\ \A r \in Reqs : KeyOf(r)' = KeyOf(r)
  BY <1>t, SessionsStay
<1>k. \A r \in Reqs : KeyOf(r) \in Keys
  BY <1>0, <1>t DEF RelayTypeOK, KeyOf
<1> DEFINE Rival(r) == \E q \in Reqs \ {r} : KeyOf(q) = KeyOf(r) /\ ln[q] # "none"
<1>r. \A r \in Reqs : Rival(r) => Rival(r)'
  BY <1>g
<1>o. ASSUME \A r \in Reqs : ln'[r] = "open" /\ ln[r] = "open" /\ table[KeyOf(r)] = r =>
                 table'[KeyOf(r)] = r \/ (\E a \in Clients : stopping'[a] = r) \/ Rival(r)',
             \A r \in Reqs : ln'[r] = "open" => ln[r] = "open" \/ table'[KeyOf(r)] = r,
             \A a \in Clients :
                 stopping[a] # None => stopping'[a] = stopping[a] \/ ln'[stopping[a]] = "closed"
      PROVE  LostOnlyByOverwrite'
  <2> SUFFICES ASSUME NEW r \in Reqs, ln'[r] = "open", table'[KeyOf(r)'] # r,
                      \A a \in Clients : stopping'[a] # r
               PROVE  Rival(r)'
    BY DEF LostOnlyByOverwrite
  <2>1. KeyOf(r)' = KeyOf(r) /\ ln[r] = "open"
    BY <1>o, <1>g
  <2>2. CASE table[KeyOf(r)] = r
    BY <2>1, <2>2, <1>o
  <2>3. CASE \E a \in Clients : stopping[a] = r
    BY <2>1, <2>3, <1>o, <1>0
  <2>4. CASE table[KeyOf(r)] # r /\ \A a \in Clients : stopping[a] # r
    <3>1. Rival(r)
      BY <2>1, <2>4 DEF Listed, LostOnlyByOverwrite
    <3> QED
      BY <3>1, <1>r
  <2> QED
    BY <2>2, <2>3, <2>4
<1>s. ASSUME UNCHANGED <<table, ln, stopping>>,
             \A r \in Reqs : req'[r] = req[r] \/ req'[r] \notin {"idle", "creating"}
                             \/ (req'[r] = "creating" /\ req[r] = "idle")
      PROVE  Listed'
  <2>1. LostOnlyByOverwrite'
    BY <1>s, <1>o
  <2> QED
    BY <2>1, <1>s, <1>g, <1>t, <1>k DEF Listed, RelayTypeOK
<1> HIDE DEF Rival
<1>1. ASSUME NEW r \in Reqs, StoreSession(r)
      PROVE  Listed'
  <2>1. /\ table' = [table EXCEPT ![KeyOf(r)] = r] /\ ln' = [ln EXCEPT ![r] = "open"]
        /\ stopping' = stopping /\ req[r] = "creating" /\ req' = [req EXCEPT ![r] = "stored"]
        /\ ln[r] = "none" /\ KeyOf(r) \in Keys
    BY <1>1, <1>k DEF StoreSession, Listed
  <2>2. ASSUME NEW q \in Reqs, table[KeyOf(q)] = q, table'[KeyOf(q)] # q
        PROVE  Rival(q)'
    <3>1. KeyOf(q) = KeyOf(r) /\ q # r /\ ln'[r] # "none"
      BY <2>1, <2>2, <1>t, <1>k DEF RelayTypeOK
    <3> QED
      BY <3>1, <1>g DEF Rival
  <2>3. LostOnlyByOverwrite'
    BY <2>1, <2>2, <1>o, <1>t, <1>k DEF RelayTypeOK
  <2>4. \A k \in Keys : table'[k] # None => ln'[table'[k]] = "open" /\ KeyOf(table[k])' = k
    <3>1. ASSUME NEW k \in Keys, table'[k] # None
          PROVE  table'[k] \in Reqs /\ ln'[table'[k]] = "open" /\ KeyOf(table'[k]) = k
      BY <2>1, <3>1, <1>t, <1>k DEF RelayTypeOK, Listed
    <3> QED
      BY <3>1, <1>g DEF KeyOf
  <2>5. \A q \in Reqs : req'[q] \in {"idle", "creating"} => ln'[q] = "none"
    BY <2>1, <1>t DEF RelayTypeOK, Listed
  <2>6. ASSUME NEW a \in Clients, stopping'[a] # None
        PROVE  ln'[stopping'[a]] # "none" /\ table'[KeyOf(stopping[a])'] # stopping'[a]
    <3>1. /\ stopping[a] \in Reqs /\ stopping[a] # r /\ table[KeyOf(stopping[a])] # stopping[a]
          /\ KeyOf(stopping[a]) \in Keys
      BY <2>1, <2>6, <1>t, <1>k DEF RelayTypeOK, Listed
    <3>2. ln[stopping[a]] # "none" /\ KeyOf(stopping[a])' = KeyOf(stopping[a])
      BY <3>1, <2>1, <1>0, <1>g DEF Listed, KeyOf
    <3> QED
      BY <3>1, <3>2, <2>1, <1>t DEF RelayTypeOK
  <2> QED
    BY <2>3, <2>4, <2>5, <2>6 DEF Listed
<1>2. ASSUME NEW a \in Clients, NEW k \in Keys, table[k] # None, stopping[a] = None,
             table' = [table EXCEPT ![k] = None], stopping' = [stopping EXCEPT ![a] = table[k]],
             UNCHANGED ln, \A r \in Reqs : req'[r] = req[r] \/ req'[r] = "over"
      PROVE  Listed'
  <2>1. table[k] \in Reqs /\ KeyOf(table[k]) = k /\ ln[table[k]] = "open"
    BY <1>2, <1>t DEF RelayTypeOK, Listed
  <2>2. \A r \in Reqs : table[KeyOf(r)] = r => table'[KeyOf(r)] = r \/ stopping'[a] = r
    BY <1>2, <1>t, <1>k DEF RelayTypeOK
  <2>3. LostOnlyByOverwrite'
    BY <2>2, <1>2, <1>o, <1>t DEF RelayTypeOK
  <2>4. \A j \in Keys : table'[j] # None => ln'[table'[j]] = "open" /\ KeyOf(table[j])' = j
    <3>1. ASSUME NEW j \in Keys, table'[j] # None
          PROVE  ln[table[j]] = "open" /\ KeyOf(table[j]) = j /\ table'[j] = table[j]
      BY <1>2, <3>1, <1>t DEF RelayTypeOK, Listed
    <3> QED
      BY <3>1, <1>2, <1>g DEF KeyOf
  <2>5. \A r \in Reqs : req'[r] \in {"idle", "creating"} => ln'[r] = "none"
    BY <1>2 DEF Listed
  <2>6. ASSUME NEW b \in Clients, stopping'[b] # None
        PROVE  ln'[stopping'[b]] # "none" /\ table'[KeyOf(stopping[b])'] # stopping'[b]
    <3>1. KeyOf(stopping[b])' = KeyOf(stopping'[b])
      BY <1>g DEF KeyOf
    <3>2. CASE b = a
      <4>1. stopping'[b] = table[k]
        BY <3>2, <1>2, <1>t DEF RelayTypeOK
      <4> QED
        BY <4>1, <3>1, <2>1, <1>2, <1>t, <1>0 DEF RelayTypeOK
    <3>3. CASE b # a
      <4>1. stopping'[b] = stopping[b] /\ stopping[b] \in Reqs /\ KeyOf(stopping[b]) \in Keys
        BY <3>3, <2>6, <1>2, <1>t, <1>k DEF RelayTypeOK
      <4>2. ln[stopping[b]] # "none" /\ table[KeyOf(stopping[b])] # stopping[b]
        BY <4>1, <1>0 DEF Listed
      <4> QED
        BY <4>1, <4>2, <3>1, <1>2, <1>t, <1>0 DEF RelayTypeOK
    <3> QED
      BY <3>2, <3>3
  <2> QED
    BY <2>3, <2>4, <2>5, <2>6 DEF Listed
<1>3. ASSUME NEW a \in Clients, ReverseStop(a)
      PROVE  Listed'
  BY <1>2, <1>3, <1>0 DEF ReverseStop, Remove
<1>4. ASSUME NEW c \in Conns, OfferFails(c)
      PROVE  Listed'
  <2>1. /\ by[c] \in Reqs /\ madeBy[by[c]] \in Clients /\ UNCHANGED ln
        /\ \A r \in Reqs : req'[r] = req[r] \/ req'[r] = "over"
    BY <1>4 DEF OfferFails, RelayTypeInd, RelayTypeOK, HandlersReady
  <2>2. CASE relay = "reverse" /\ table[madeBy[by[c]]] # None
    <3>1. Remove(madeBy[by[c]])
      BY <2>2, <1>4 DEF OfferFails, stop
    <3> QED
      BY <2>1, <2>2, <3>1, <1>2, <1>0 DEF Remove
  <2>3. CASE ~(relay = "reverse" /\ table[madeBy[by[c]]] # None)
    <3>1. UNCHANGED <<table, stopping>>
      BY <2>3, <1>4 DEF OfferFails, stop
    <3> QED
      BY <2>1, <3>1, <1>s
  <2> QED
    BY <2>2, <2>3
<1>5. CASE RemoveOwned
  <2>1. locked \in Clients /\ table[User] # None /\ stopping[locked] = None
    BY <1>5 DEF RemoveOwned, RelayTypeInd, RelayTypeOK, HandlersReady
  <2> QED
    BY <2>1, <1>2, <1>5, <1>0 DEF RemoveOwned
<1>6. ASSUME NEW a \in Clients, CloseSession(a)
      PROVE  Listed'
  <2>1. /\ stopping[a] \in Reqs /\ ln' = [ln EXCEPT ![stopping[a]] = "closed"]
        /\ stopping' = [stopping EXCEPT ![a] = None] /\ UNCHANGED <<table, req>>
        /\ ln[stopping[a]] # "none" /\ table[KeyOf(stopping[a])] # stopping[a]
    BY <1>6, <1>t DEF CloseSession, RelayTypeOK, Listed
  <2>2. LostOnlyByOverwrite'
    BY <2>1, <1>o, <1>t DEF RelayTypeOK
  <2> QED
    BY <2>1, <2>2, <1>g, <1>t, <1>k DEF RelayTypeOK, Listed
<1>7. ASSUME NEW r \in Reqs,
             \/ ReverseConnect(r) \/ ListenFails(r) \/ ServeSession(r) \/ AgentConnect(r)
             \/ takeOver(r) \/ SendReady(r) \/ ReadyFails(r) \/ LegEnds(r)
      PROVE  Listed'
  <2>1. /\ UNCHANGED <<table, ln, stopping>>
        /\ \A q \in Reqs : req'[q] = req[q] \/ req'[q] \notin {"idle", "creating"}
                           \/ (req'[q] = "creating" /\ req[q] = "idle")
    BY <1>7, <1>t DEF ReverseConnect, ListenFails, ServeSession, AgentConnect, takeOver, SendReady,
         ReadyFails, LegEnds, RelayTypeOK
  <2> QED
    BY <2>1, <1>s
<1>8. ASSUME NEW r \in Reqs, NEW c \in Conns, Accept(r, c)
      PROVE  Listed'
  BY <1>s, <1>8 DEF Accept
<1>9. ASSUME NEW c \in Conns, ConnStep(c), ~OfferFails(c)
      PROVE  Listed'
  BY <1>s, <1>9
  DEF ConnStep, KeyPairFails, LookUpToStore, storePending, OfferConn, DialLocal, DialLocalFails,
  fetchPending, DeriveFails, LookUpToActivate, activateConn, RemoteEnds, LocalEnds, RelayBreaks,
  CloseActive, removeActive
<1>10. ASSUME NEW a \in Clients, AgentStop(a)
       PROVE  Listed'
  BY <1>s, <1>10 DEF AgentStop
<1>11. CASE UNCHANGED relayVars
  BY <1>s, <1>11 DEF relayVars
<1> QED
  BY <1>1, <1>3, <1>4, <1>5, <1>6, <1>7, <1>8, <1>9, <1>10, <1>11
  DEF AgentNext, RelayNext, SessionStep

\* Every step leaves what a re-issued call has taken over to its new owner, wherever takeOver falls
\* between the two halves of a stop.
LEMMA HandedStep ==
    ASSUME RelayTypeInd, Listed, Handed, [AgentNext]_relayVars
    PROVE  Handed'
<1>0. User \in Keys /\ None \notin Clients /\ None \notin Reqs
  BY RelayAssumption DEF Keys
<1>t. RelayTypeOK
  BY DEF RelayTypeInd
<1>g. /\ UNCHANGED <<relay, madeBy>>
      /\ \A r \in Reqs : ln[r] # "none" => ln'[r] # "none"
  BY <1>t, SessionsStay
<1>l. /\ \A r \in Reqs : legOf[r] \in Reqs \cup {None} /\ legOf[r] # r
      /\ \A r, q \in Reqs : legOf[r] # None /\ legOf[r] = legOf[q] => r = q
  BY LegsAssumption
<1>e. OwnClients' <=> OwnClients
  BY <1>g DEF OwnClients
<1>q. ASSUME UNCHANGED <<target, owner, cut>>,
             \A r \in Reqs : \/ req'[r] = req[r]
                             \/ /\ req[r] # "taking" /\ req[r] \notin {"ready", "serving", "over"}
                                /\ req'[r] # "taking"
                             \/ req'[r] = "over" /\ req[r] # "taking"
      PROVE  Handed'
  <2>1. \A r \in Reqs : target[r] \in Reqs \cup {None}
    BY <1>t DEF RelayTypeOK
  <2>2. \A r \in Reqs : target'[r] # None => target'[r] # r /\ ln'[target'[r]] # "none"
    BY <2>1, <1>q, <1>g DEF Handed
  <2>3. \A r \in Reqs : legOf[r] \in cut' => req'[r] \in {"ready", "serving", "over"}
    BY <1>q DEF Handed
  <2>4. OwnClients => \A r \in Reqs :
          legOf[r] # None /\ target'[r] = legOf[r] /\ req'[r] # "taking"
            => owner'[legOf[r]] # madeBy[legOf[r]]
    BY <1>q DEF Handed
  <2>5. TakenOverStays'
    BY <1>q, <1>g DEF Handed, TakenOverStays
  <2>6. (relay = "reverse" => \A r \in Reqs : req[r] # "taking")'
    BY <1>q, <1>g DEF Handed
  <2> QED
    BY <2>2, <2>3, <2>4, <2>5, <2>6, <1>g, <1>e DEF Handed
<1>1. ASSUME NEW r \in Reqs, StoreSession(r)
      PROVE  Handed'
  <2>1. /\ owner' = [owner EXCEPT ![r] = madeBy[r]] /\ UNCHANGED <<target, cut>>
        /\ req[r] = "creating" /\ req' = [req EXCEPT ![r] = "stored"] /\ ln[r] = "none"
    BY <1>1 DEF StoreSession, Listed
  <2>2. \A q \in Reqs : target[q] # r
    BY <2>1, <1>0 DEF Handed
  <2>3. \A q \in Reqs : legOf[q] # None /\ target[q] = legOf[q] => owner'[legOf[q]] = owner[legOf[q]]
    BY <2>1, <2>2, <1>t, <1>l DEF RelayTypeOK
  <2> QED
    BY <2>1, <2>3, <1>g, <1>e, <1>t DEF Handed, TakenOverStays, RelayTypeOK, OwnClients
<1>2. ASSUME NEW r \in Reqs, AgentConnect(r)
      PROVE  Handed'
  <2>1. /\ req[r] = "idle" /\ ln[r] = "none" /\ target' = [target EXCEPT ![r] = table[User]]
        /\ req' = [req EXCEPT ![r] = IF table[User] = None THEN "creating" ELSE "taking"]
        /\ UNCHANGED <<owner, cut, ln>>
    BY <1>2 DEF AgentConnect, Listed
  <2>2. table[User] # None => table[User] # r /\ ln[table[User]] # "none"
    BY <2>1, <1>0 DEF Listed
  <2>3. legOf[r] \notin cut
    BY <2>1 DEF Handed
  <2>4. \A q \in Reqs : legOf[q] \in cut' => req'[q] \in {"ready", "serving", "over"}
    BY <2>1, <2>3, <1>t DEF Handed, RelayTypeOK
  <2>5. TakenOverStays'
    BY <2>1, <2>3, <1>g, <1>t DEF Handed, TakenOverStays, RelayTypeOK
  <2>6. \A q \in Reqs : target'[q] # None => target'[q] # q /\ ln'[target'[q]] # "none"
    BY <2>1, <2>2, <1>t DEF Handed, RelayTypeOK
  <2>7. OwnClients => \A q \in Reqs :
          legOf[q] # None /\ target'[q] = legOf[q] /\ req'[q] # "taking"
            => owner'[legOf[q]] # madeBy[legOf[q]]
    BY <2>1, <1>t DEF Handed, RelayTypeOK
  <2>8. (relay = "reverse" => \A q \in Reqs : req[q] # "taking")'
    BY <1>2, <1>g DEF AgentConnect
  <2> QED
    BY <2>4, <2>5, <2>6, <2>7, <2>8, <1>g, <1>e DEF Handed
<1>3. ASSUME NEW r \in Reqs, takeOver(r)
      PROVE  Handed'
  <2>1. /\ req[r] = "taking" /\ target[r] \in Reqs /\ target[r] # r
        /\ owner' = [owner EXCEPT ![target[r]] = madeBy[r]]
        /\ req' = [req EXCEPT ![r] = "taken"] /\ UNCHANGED <<target, cut, ln>>
    BY <1>3, <1>0 DEF takeOver, RelayTypeInd, HandlersReady, Handed
  <2>2. ASSUME OwnClients, NEW q \in Reqs, legOf[q] # None, target[q] = legOf[q],
               req'[q] # "taking"
        PROVE  owner'[legOf[q]] # madeBy[legOf[q]]
    <3>0. legOf[q] \in Reqs
      BY <2>2, <1>l
    <3>1. CASE legOf[q] = target[r]
      <4>1. owner'[legOf[q]] = madeBy[r] /\ legOf[q] # r
        BY <3>0, <3>1, <2>1, <1>t DEF RelayTypeOK
      <4> QED
        BY <4>1, <3>0, <2>2 DEF OwnClients
    <3>2. CASE legOf[q] # target[r]
      <4>1. q # r /\ req[q] # "taking" /\ owner'[legOf[q]] = owner[legOf[q]]
        BY <3>0, <3>2, <2>1, <2>2, <1>t DEF RelayTypeOK
      <4> QED
        BY <4>1, <2>2 DEF Handed
    <3> QED
      BY <3>1, <3>2
  <2>3. \A q \in Reqs : legOf[q] \in cut' => req'[q] \in {"ready", "serving", "over"}
    BY <2>1, <1>t DEF Handed, RelayTypeOK
  <2>4. TakenOverStays'
    BY <2>1, <1>g DEF Handed, TakenOverStays
  <2>5. \A q \in Reqs : target'[q] # None => target'[q] # q /\ ln'[target'[q]] # "none"
    BY <2>1 DEF Handed
  <2>6. (relay = "reverse" => \A q \in Reqs : req[q] # "taking")'
    BY <2>1, <1>g DEF Handed
  <2> QED
    BY <2>1, <2>2, <2>3, <2>4, <2>5, <2>6, <1>g, <1>e DEF Handed
<1>4. ASSUME NEW q \in Reqs, LegEnds(q)
      PROVE  Handed'
  <2>1. /\ UNCHANGED <<target, owner, req, ln>> /\ owner[table[User]] = madeBy[q]
        /\ cut' = IF table[User] = q THEN cut \cup {q} ELSE cut
    BY <1>4 DEF LegEnds, FindOwned, owns
  <2>2. PICK r \in Reqs : legOf[r] = q /\ req[r] \in {"ready", "serving", "over"}
    BY <1>4 DEF LegEnds
  <2>3. \A x \in Reqs : legOf[x] = q => x = r
    BY <2>2, <1>l, <1>0
  <2>4. \A x \in Reqs : legOf[x] \in cut' => req'[x] \in {"ready", "serving", "over"}
    BY <2>1, <2>2, <2>3 DEF Handed
  <2>5. ASSUME OwnClients, q \in cut', q \notin cut
        PROVE  target[r] # q
    <3>1. owner[q] = madeBy[q]
      BY <2>1, <2>5
    <3> QED
      BY <3>1, <2>2, <2>5, <1>0 DEF Handed
  <2>6. TakenOverStays'
    <3> SUFFICES ASSUME OwnClients, NEW x \in Reqs, legOf[x] # None, target[x] = legOf[x],
                        legOf[x] \in cut'
                 PROVE  FALSE
      BY <2>1, <1>g DEF TakenOverStays, OwnClients
    <3>1. legOf[x] \notin cut
      BY DEF Handed, TakenOverStays, OwnClients
    <3>2. legOf[x] = q /\ q \notin cut
      BY <3>1, <2>1
    <3> QED
      BY <3>2, <2>3, <2>5
  <2> QED
    BY <2>1, <2>4, <2>6, <1>g, <1>e DEF Handed
<1>5. ASSUME NEW r \in Reqs,
             \/ ReverseConnect(r) \/ ListenFails(r) \/ ServeSession(r) \/ SendReady(r)
             \/ ReadyFails(r)
      PROVE  Handed'
  <2>1. /\ UNCHANGED <<target, owner, cut>>
        /\ \A q \in Reqs : \/ req'[q] = req[q]
                           \/ /\ req[q] # "taking" /\ req[q] \notin {"ready", "serving", "over"}
                              /\ req'[q] # "taking"
    BY <1>5, <1>t DEF ReverseConnect, ListenFails, ServeSession, SendReady, ReadyFails,
         RelayTypeOK, agentVars
  <2> QED
    BY <2>1, <1>q
<1>6. ASSUME NEW c \in Conns, OfferFails(c)
      PROVE  Handed'
  <2>1. UNCHANGED <<target, owner, cut>>
    BY <1>6 DEF OfferFails, agentVars
  <2>2. CASE relay = "agent"
    BY <2>1, <2>2, <1>6, <1>q DEF OfferFails
  <2>3. CASE relay = "reverse"
    <3>1. PICK b \in Reqs : req' = [req EXCEPT ![b] = "over"]
      BY <2>3, <1>6 DEF OfferFails, RelayTypeInd, HandlersReady
    <3>2. req[b] # "taking"
      BY <2>3 DEF Handed
    <3>3. \A r \in Reqs : req'[r] = req[r] \/ (req'[r] = "over" /\ req[r] # "taking")
      BY <3>1, <3>2, <1>t DEF RelayTypeOK
    <3> QED
      BY <2>1, <3>3, <1>q
  <2> QED
    BY <2>2, <2>3, <1>t DEF RelayTypeOK
<1>7. ASSUME NEW r \in Reqs, NEW c \in Conns, Accept(r, c)
      PROVE  Handed'
  BY <1>q, <1>7 DEF Accept, agentVars
<1>8. ASSUME NEW c \in Conns, ConnStep(c), ~OfferFails(c)
      PROVE  Handed'
  BY <1>q, <1>8
  DEF ConnStep, KeyPairFails, LookUpToStore, storePending, OfferConn, DialLocal, DialLocalFails,
  fetchPending, DeriveFails, LookUpToActivate, activateConn, RemoteEnds, LocalEnds, RelayBreaks,
  CloseActive, removeActive, agentVars
<1>9. ASSUME NEW a \in Clients, ReverseStop(a) \/ CloseSession(a) \/ AgentStop(a)
      PROVE  Handed'
  BY <1>q, <1>9 DEF ReverseStop, CloseSession, AgentStop, agentVars
<1>10. CASE RemoveOwned
  BY <1>q, <1>10 DEF RemoveOwned
<1>11. CASE UNCHANGED relayVars
  BY <1>q, <1>11 DEF relayVars, agentVars
<1> QED
  BY <1>1, <1>2, <1>3, <1>4, <1>5, <1>6, <1>7, <1>8, <1>9, <1>10, <1>11
  DEF AgentNext, RelayNext, SessionStep

\* Every step keeps connections, numbers and sessions together: a lookup between two critical
\* sections of a handler may find another session, but only one of the same key.
LEMMA NumberedStep ==
    ASSUME RelayTypeInd, Listed, Numbered, Stored, [AgentNext]_relayVars
    PROVE  Numbered' /\ Stored'
<1>0. /\ User \in Keys /\ Clients \subseteq Keys
      /\ None \notin Clients /\ None \notin Reqs /\ None \notin Conns
      /\ Cardinality(Conns) \in Nat
  BY RelayAssumption, FS_CardinalityType DEF Keys
<1>t. RelayTypeOK
  BY DEF RelayTypeInd
<1>g. /\ \A r \in Reqs : ln[r] # "none" => ln'[r] # "none"
      /\ \A r \in Reqs : KeyOf(r)' = KeyOf(r)
  BY <1>t, SessionsStay
<1>k. \A r \in Reqs : KeyOf(r) \in Keys
  BY <1>0 DEF RelayTypeInd, RelayTypeOK, KeyOf
<1>p. RelayTypeOK'
  BY RelayTypeStep DEF RelayTypeInd
<1> DEFINE Goal == Numbered /\ Stored
<1>m. ASSUME NEW c \in Conns, NEW s \in Reqs, SameKey(c, s), by'[c] = by[c]
      PROVE  SameKey(c, s)'
  BY <1>g, <1>m, <1>t DEF SameKey, RelayTypeOK
<1>s. ASSUME UNCHANGED <<by, num, count>>
      PROVE  \A c \in Conns : by'[c] # None => ln'[by'[c]] # "none" /\ num'[c] <= count'[by'[c]]
  BY <1>g, <1>s, <1>t DEF RelayTypeOK, Numbered
<1>q. ASSUME UNCHANGED <<by, num, count, at, taken, pending, active>>
      PROVE  Goal'
  BY <1>m, <1>q, <1>s, <1>t DEF Numbered, Stored, RelayTypeOK
<1> USE DEF RelayTypeInd, RelayTypeOK, HandlersReady, connVars, agentVars
<1>1. ASSUME NEW r \in Reqs, NEW c \in Conns, Accept(r, c)
      PROVE  Goal'
  <2>1. /\ phase[c] = "none" /\ by[c] = None /\ ln[r] = "open"
        /\ by' = [by EXCEPT ![c] = r] /\ num' = [num EXCEPT ![c] = count[r] + 1]
        /\ count' = [count EXCEPT ![r] = @ + 1]
        /\ UNCHANGED <<ln, pending, active, at, taken>>
    BY <1>1 DEF Accept
  <2>2. \A d \in Conns : by'[d] # None => ln'[by'[d]] # "none" /\ num'[d] <= count'[by'[d]]
    <3>1. by'[c] = r /\ num'[c] = count[r] + 1 /\ count'[r] = count[r] + 1 /\ ln'[r] = "open"
      BY <2>1
    <3>2. ASSUME NEW d \in Conns, d # c, by[d] # None
          PROVE  ln'[by[d]] # "none" /\ num'[d] <= count'[by[d]] /\ by'[d] = by[d]
      <4>1. num[d] <= count[by[d]] /\ ln[by[d]] # "none" /\ by[d] \in Reqs
        BY <3>2 DEF Numbered
      <4>2. count'[by[d]] = count[by[d]] \/ count'[by[d]] = count[by[d]] + 1
        BY <2>1, <4>1
      <4>3. num[d] \in Nat /\ count[by[d]] \in Nat /\ num'[d] = num[d] /\ by'[d] = by[d]
        BY <2>1, <3>2, <4>1, <1>0 DEF Nums
      <4> QED
        BY <2>1, <4>1, <4>2, <4>3
    <3> QED
      BY <3>1, <3>2, <2>1, <1>0
  <2>3. \A d, e \in Conns : by'[d] # None /\ by'[d] = by'[e] /\ num'[d] = num'[e] => d = e
    BY <2>1, <1>0 DEF Numbered
  <2>4. \A d \in Conns : by[d] # None => d # c /\ by'[d] = by[d] /\ num'[d] = num[d]
    BY <2>1
  <2>5. \A d \in Conns : at'[d] # None => SameKey(d, at[d])'
    BY <2>1, <2>4, <1>m DEF Numbered, SameKey
  <2>6. \A d \in Conns : taken'[d] # None =>
           by'[d] # None /\ num'[taken'[d]] = num'[d] /\ SameKey(taken[d], by[d])'
    BY <2>1, <2>4, <1>m DEF Numbered, SameKey
  <2>7. Stored'
    BY <2>1, <2>4, <1>m DEF Stored, SameKey
  <2> QED
    BY <2>2, <2>3, <2>5, <2>6, <2>7 DEF Numbered
<1>2. ASSUME NEW c \in Conns, LookUpToStore(c) \/ LookUpToActivate(c)
      PROVE  Goal'
  <2>1. /\ by[c] \in Reqs /\ at' = [at EXCEPT ![c] = table[KeyOf(by[c])]]
        /\ UNCHANGED <<by, num, count, taken, pending, active>>
    BY <1>2 DEF LookUpToStore, LookUpToActivate
  <2>2. at'[c] # None => SameKey(c, at'[c])
    BY <2>1, <1>k, <1>0 DEF Listed, Numbered, SameKey
  <2>3. \A d \in Conns : at'[d] # None => at'[d] \in Reqs /\ SameKey(d, at'[d])
    BY <2>1, <2>2, <1>p DEF Numbered
  <2>4. \A d \in Conns : at'[d] # None => SameKey(d, at[d])'
    BY <2>1, <2>3, <1>m
  <2> QED
    BY <2>1, <2>4, <1>s, <1>m DEF Numbered, Stored
<1>3. ASSUME NEW c \in Conns, storePending(c)
      PROVE  Goal'
  <2>1. /\ at[c] \in Reqs /\ by[c] \in Reqs /\ num[c] \in Nums
        /\ pending' = [pending EXCEPT ![at[c]][num[c]] = c]
        /\ UNCHANGED <<by, num, count, at, taken, active>>
    BY <1>3 DEF storePending
  <2>2. ASSUME NEW s \in Reqs, NEW n \in Nums
        PROVE  /\ pending'[s][n] # None => SameKey(pending'[s][n], s) /\ num[pending'[s][n]] = n
               /\ active'[s][n] # None => SameKey(active'[s][n], s) /\ num[active'[s][n]] = n
    BY <2>1, <1>0 DEF Numbered, Stored
  <2>3. Stored'
    BY <2>1, <2>2, <1>m, <1>p DEF Stored
  <2> QED
    BY <2>1, <2>3, <1>s, <1>m DEF Numbered
<1>4. ASSUME NEW c \in Conns, fetchPending(c)
      PROVE  Goal'
  <2> DEFINE s == table[KeyOf(by[c])]
             d == IF s = None THEN None ELSE pending[s][num[c]]
  <2>1. /\ by[c] \in Reqs /\ num[c] \in Nums /\ taken' = [taken EXCEPT ![c] = d]
        /\ UNCHANGED <<by, num, count, at, pending, active>>
    BY <1>4 DEF fetchPending
  <2>2. s # None => s \in Reqs /\ KeyOf(s) = KeyOf(by[c])
    BY <2>1, <1>k DEF Listed
  <2>3. d # None => d \in Conns /\ num[d] = num[c] /\ SameKey(d, by[c])
    <3>1. SUFFICES ASSUME d # None
                   PROVE  d \in Conns /\ num[d] = num[c] /\ SameKey(d, by[c])
      OBVIOUS
    <3>2. s \in Reqs /\ KeyOf(s) = KeyOf(by[c]) /\ d = pending[s][num[c]]
      BY <2>2, <3>1
    <3>3. d \in Conns /\ SameKey(d, s) /\ num[d] = num[c]
      BY <2>1, <3>1, <3>2 DEF Stored
    <3> QED
      BY <2>1, <3>2, <3>3, <1>0 DEF Numbered, SameKey
  <2>4. \A e \in Conns : taken'[e] # None =>
           /\ taken'[e] \in Conns /\ by[e] \in Reqs
           /\ num[taken'[e]] = num[e] /\ SameKey(taken'[e], by[e])
    BY <2>1, <2>3, <1>p DEF Numbered
  <2>5. \A e \in Conns : taken'[e] # None => SameKey(taken[e], by[e])'
    BY <2>1, <2>4, <1>m
  <2> QED
    <3> HIDE DEF d
    <3>1. Numbered'
      BY <2>1, <2>4, <2>5, <1>s, <1>m, <1>0 DEF Numbered
    <3>2. Stored'
      BY <2>1, <1>m DEF Stored
    <3> QED
      BY <3>1, <3>2
<1>5. ASSUME NEW c \in Conns, activateConn(c)
      PROVE  Goal'
  <2>1. /\ at[c] \in Reqs /\ by[c] \in Reqs /\ num[c] \in Nums /\ taken[c] \in Conns
        /\ pending' = [pending EXCEPT ![at[c]][num[c]] = None]
        /\ active' = [active EXCEPT ![at[c]][num[c]] = taken[c]]
        /\ UNCHANGED <<by, num, count, at, taken>>
    BY <1>5 DEF activateConn
  <2>2. SameKey(taken[c], at[c]) /\ num[taken[c]] = num[c]
    BY <2>1, <1>0 DEF Numbered, SameKey
  <2>3. ASSUME NEW s \in Reqs, NEW n \in Nums
        PROVE  /\ pending'[s][n] # None => SameKey(pending'[s][n], s) /\ num[pending'[s][n]] = n
               /\ active'[s][n] # None => SameKey(active'[s][n], s) /\ num[active'[s][n]] = n
    BY <2>1, <2>2, <1>0 DEF Stored
  <2>4. Stored'
    BY <2>1, <2>3, <1>m, <1>p DEF Stored
  <2> QED
    BY <2>1, <2>4, <1>s, <1>m DEF Numbered
<1>6. ASSUME NEW c \in Conns, removeActive(c)
      PROVE  Goal'
  <2> DEFINE t == table[KeyOf(by[c])]
  <2>0. /\ by[c] \in Reqs /\ num[c] \in Nums /\ t \in Reqs \cup {None}
        /\ UNCHANGED <<by, num, count, at, taken, pending>>
    BY <1>6, <1>k DEF removeActive
  <2>1. \A s \in Reqs, n \in Nums : active'[s][n] = active[s][n] \/ active'[s][n] = None
    <3>1. CASE t = None \/ active[t][num[c]] = None
      BY <3>1, <1>6 DEF removeActive
    <3>2. CASE ~(t = None \/ active[t][num[c]] = None)
      <4>1. t \in Reqs /\ active' = [active EXCEPT ![t][num[c]] = None]
        BY <3>2, <2>0, <1>6 DEF removeActive
      <4> HIDE DEF t
      <4> QED
        BY <4>1, <2>0, <1>k
    <3> QED
      BY <3>1, <3>2
  <2>2. Stored'
    BY <2>0, <2>1, <1>m, <1>p DEF Stored
  <2> QED
    BY <2>0, <2>2, <1>s, <1>m DEF Numbered
<1>7. ASSUME NEW r \in Reqs, SessionStep(r), ~(\E c \in Conns : Accept(r, c))
      PROVE  Goal'
  BY <1>q, <1>7 DEF SessionStep, ReverseConnect, ListenFails, StoreSession, ServeSession
<1>8. ASSUME NEW c \in Conns, ConnStep(c), ~LookUpToStore(c), ~LookUpToActivate(c),
             ~storePending(c), ~fetchPending(c), ~activateConn(c), ~removeActive(c)
      PROVE  Goal'
  BY <1>q, <1>8
  DEF ConnStep, KeyPairFails, OfferConn, OfferFails, DialLocal, DialLocalFails, DeriveFails,
      RemoteEnds, LocalEnds, RelayBreaks, CloseActive
<1>9. ASSUME NEW a \in Clients, ReverseStop(a) \/ CloseSession(a) \/ AgentStop(a)
      PROVE  Goal'
  BY <1>q, <1>9 DEF ReverseStop, CloseSession, AgentStop
<1>10. ASSUME NEW r \in Reqs,
              AgentConnect(r) \/ takeOver(r) \/ SendReady(r) \/ ReadyFails(r) \/ LegEnds(r)
       PROVE  Goal'
  BY <1>q, <1>10 DEF AgentConnect, takeOver, SendReady, ReadyFails, LegEnds
<1>11. CASE RemoveOwned \/ UNCHANGED relayVars
  BY <1>q, <1>11 DEF RemoveOwned, relayVars
<1> QED
  BY <1>1, <1>2, <1>3, <1>4, <1>5, <1>6, <1>7, <1>8, <1>9, <1>10, <1>11
  DEF AgentNext, RelayNext

\* A connection without a rival is the only one of its key and number.
LEMMA NoOther ==
    ASSUME RelayTypeInd, Numbered, NEW c \in Conns, NoRival(c), NEW d \in Conns,
           by[d] # None, KeyOf(by[d]) = KeyOf(by[c]), num[d] = num[c]
    PROVE  d = c
BY DEF Numbered, NoRival

\* Every step keeps the connections that are due where close finds them.
LEMMA KeptStep ==
    ASSUME RelayInd, [AgentNext]_relayVars
    PROVE  AllKept'
<1>0. /\ User \in Keys /\ Clients \subseteq Keys
      /\ None \notin Clients /\ None \notin Reqs /\ None \notin Conns
  BY RelayAssumption DEF Keys
<1>t. RelayTypeInd /\ RelayTypeOK /\ HandlersReady /\ Listed /\ Numbered /\ Stored
  BY DEF RelayInd, RelayTypeInd
<1>g. /\ UNCHANGED <<relay, madeBy>>
      /\ \A r \in Reqs : ln[r] # "none" => ln'[r] # "none"
      /\ \A r \in Reqs : KeyOf(r)' = KeyOf(r)
  BY <1>t, SessionsStay
<1>k. \A r \in Reqs : KeyOf(r) \in Keys
  BY <1>0, <1>t DEF RelayTypeOK, KeyOf
<1>p. RelayTypeOK' /\ HandlersReady'
  BY <1>t, RelayTypeStep DEF RelayTypeInd
<1>l. ASSUME NEW s \in Reqs, ln[s] # "none", table'[KeyOf(s)] = s
      PROVE  table[KeyOf(s)] = s
  <2>1. CASE \E q \in Reqs : StoreSession(q)
    BY <2>1, <1>l, <1>k, <1>t DEF StoreSession, RelayTypeOK, Listed
  <2>2. CASE ~(\E q \in Reqs : StoreSession(q))
    <3>1. ASSUME NEW d \in Conns, OfferFails(d)
          PROVE  \A k \in Keys : table'[k] = table[k] \/ table'[k] = None
      BY <3>1, <1>t DEF OfferFails, stop, Remove, RelayTypeOK
    <3>2. ASSUME NEW a \in Clients, ReverseStop(a)
          PROVE  \A k \in Keys : table'[k] = table[k] \/ table'[k] = None
      BY <3>2, <1>t DEF ReverseStop, Remove, RelayTypeOK
    <3>3. ASSUME RemoveOwned
          PROVE  \A k \in Keys : table'[k] = table[k] \/ table'[k] = None
      BY <3>3, <1>t DEF RemoveOwned, RelayTypeOK
    <3>4. \/ UNCHANGED table
          \/ \E d \in Conns : OfferFails(d)
          \/ \E a \in Clients : ReverseStop(a)
          \/ RemoveOwned
      BY <2>2 DEF AgentNext, RelayNext, SessionStep, ConnStep, relayVars, ReverseConnect,
           ListenFails, ServeSession, Accept,
           KeyPairFails, LookUpToStore, storePending, OfferConn, DialLocal,
           DialLocalFails, fetchPending, DeriveFails, LookUpToActivate, activateConn, RemoteEnds,
           LocalEnds, RelayBreaks, CloseActive, removeActive, CloseSession, AgentConnect, takeOver,
           SendReady, ReadyFails, LegEnds, AgentStop
    <3> QED
      BY <3>1, <3>2, <3>3, <3>4, <1>k, <1>l, <1>0
  <2> QED
    BY <2>1, <2>2
<1>a. ASSUME NEW r \in Reqs, NEW d \in Conns, Accept(r, d)
      PROVE  /\ by[d] = None /\ phase'[d] = "accepted" /\ local'[d] = "none"
             /\ \A e \in Conns \ {d} : /\ by'[e] = by[e] /\ num'[e] = num[e]
                                       /\ phase'[e] = phase[e]
                                       /\ (e \in open' => e \in open)
             /\ UNCHANGED local
  BY <1>a, <1>t DEF Accept, RelayTypeOK, HandlersReady
<1>b. ASSUME ~(\E r \in Reqs, d \in Conns : Accept(r, d))
      PROVE  open' \subseteq open /\ UNCHANGED <<by, num>>
  BY <1>b DEF AgentNext, RelayNext, SessionStep, ConnStep, relayVars, connVars,
       ReverseConnect, ListenFails, StoreSession, ServeSession,
       KeyPairFails, LookUpToStore, storePending, OfferConn, OfferFails, DialLocal,
       DialLocalFails, fetchPending, DeriveFails, LookUpToActivate, activateConn, RemoteEnds,
       LocalEnds, RelayBreaks, CloseActive, removeActive,
       ReverseStop, CloseSession, AgentConnect, takeOver, SendReady, ReadyFails, LegEnds,
       AgentStop, RemoveOwned
<1>m. ASSUME NEW d \in Conns, by[d] # None
      PROVE  by'[d] = by[d] /\ num'[d] = num[d] /\ (d \in open' => d \in open)
  BY <1>a, <1>b, <1>m
<1>v. ASSUME NEW d \in Conns, local[d] = "lost"
      PROVE  local'[d] = "lost"
  <2>1. CASE \E e \in Conns : DialLocal(e) \/ DialLocalFails(e) \/ RemoteEnds(e) \/ LocalEnds(e)
    BY <2>1, <1>v, <1>t DEF DialLocal, DialLocalFails, RemoteEnds, LocalEnds, RelayTypeOK
  <2>2. CASE \E e \in Conns : CloseActive(e) \/ removeActive(e)
    BY <2>2, <1>v, <1>t DEF CloseActive, removeActive, RelayTypeOK
  <2>3. CASE UNCHANGED local
    BY <2>3, <1>v
  <2>4. \/ UNCHANGED local
        \/ \E e \in Conns : DialLocal(e) \/ DialLocalFails(e) \/ RemoteEnds(e) \/ LocalEnds(e)
        \/ \E e \in Conns : CloseActive(e) \/ removeActive(e)
    BY DEF AgentNext, RelayNext, SessionStep, ConnStep, relayVars, connVars,
         ReverseConnect, ListenFails, StoreSession, ServeSession, Accept,
         KeyPairFails, LookUpToStore, storePending, OfferConn, OfferFails,
         fetchPending, DeriveFails, LookUpToActivate, activateConn, RelayBreaks,
         ReverseStop, CloseSession, AgentConnect, takeOver, SendReady, ReadyFails, LegEnds,
         AgentStop, RemoveOwned
  <2> QED
    BY <2>1, <2>2, <2>3, <2>4
<1> SUFFICES ASSUME NEW c \in Conns, Due(c)'
             PROVE  Kept(c)'
  BY DEF AllKept
<1>x. CASE phase'[c] = "none"
  BY <1>x, <1>p DEF HandlersReady, Kept
<1>y. CASE \E r \in Reqs : Accept(r, c)
  BY <1>y, <1>a DEF Kept
<1> SUFFICES ASSUME phase'[c] # "none", ~(\E r \in Reqs : Accept(r, c))
             PROVE  Kept(c)'
  BY <1>x, <1>y
<1> DEFINE s == by[c]
           n == num[c]
<1>c. s \in Reqs /\ n \in Nums /\ by'[c] = s /\ num'[c] = n /\ c \in open
  <2>1. by'[c] \in Reqs
    BY <1>p DEF HandlersReady
  <2>2. by[c] = by'[c] /\ num[c] = num'[c] /\ c \in open
    BY <1>a, <1>b DEF Due
  <2>3. phase[c] # "none"
    BY <2>1, <2>2, <1>t, <1>0 DEF HandlersReady
  <2> QED
    BY <2>2, <2>3, <1>t DEF HandlersReady
<1>d. ln[s] # "none"
  BY <1>c, <1>t, <1>0 DEF Numbered
<1>e. Kept(c) /\ NoRival(c)
  <2>1. NoRival(c)
    <3> SUFFICES ASSUME NEW d \in Conns, by[d] # None, by[d] # s, KeyOf(by[d]) = KeyOf(s)
                 PROVE  num[d] # n
      BY DEF NoRival
    <3>1. by[d] \in Reqs /\ by'[d] = by[d] /\ num'[d] = num[d]
      BY <1>m, <1>t DEF RelayTypeOK
    <3>2. KeyOf(by[d])' = KeyOf(by[d]) /\ KeyOf(by[c])' = KeyOf(s)
      BY <3>1, <1>c, <1>g DEF KeyOf
    <3> QED
      BY <3>1, <3>2, <1>c DEF Due, NoRival
  <2>2. Due(c)
    BY <2>1, <1>c, <1>v DEF Due
  <2> QED
    BY <2>1, <2>2 DEF RelayInd, AllKept
<1>h. table'[KeyOf(s)] = s => table[KeyOf(s)] = s
  BY <1>c, <1>d, <1>l
<1>i. KeyOf(by[c])' = KeyOf(s) /\ \A t \in Reqs : KeyOf(t)' = KeyOf(t)
  BY <1>c, <1>g DEF KeyOf
<1>o. ASSUME NEW t \in Reqs, KeyOf(t) = KeyOf(s), NEW d \in Conns, SameKey(d, t), num[d] = n
      PROVE  d = c
  BY <1>o, <1>e, <1>t, NoOther DEF SameKey
<1>u. ASSUME NEW t \in Reqs, KeyOf(t) = KeyOf(s), NEW d \in Conns, d # c, by[d] \in Reqs,
             num[d] = n
      PROVE  at[d] # t /\ table[KeyOf(by[d])] # t
  <2>1. KeyOf(by[d]) # KeyOf(s)
    BY <1>u, <1>e, <1>t, <1>0, NoOther
  <2>2. at[d] # t
    BY <2>1, <1>u, <1>t, <1>0 DEF Numbered, SameKey
  <2>3. table[KeyOf(by[d])] # t
    BY <2>1, <1>u, <1>k, <1>t, <1>0 DEF Listed
  <2> QED
    BY <2>2, <2>3
<1>f. ASSUME phase'[c] = phase[c], at'[c] = at[c], local'[c] # "removing",
             \A t \in Reqs : KeyOf(t) = KeyOf(s) =>
                 /\ pending'[t][n] = pending[t][n] /\ active'[t][n] = active[t][n]
                 /\ (ln[t] = "open" /\ (pending[t][n] = c \/ active[t][n] = c)) => ln'[t] = "open"
      PROVE  Kept(c)'
  <2>1. /\ table'[KeyOf(by[c])'] = by'[c] =>
             /\ phase'[c] \in {"storing", "activating"} => at'[c] = by'[c]
             /\ phase'[c] \in {"stored", "offered", "keyed", "deriving", "activating"}
                  => pending'[by'[c]][num'[c]] = c
             /\ phase'[c] = "relayed" => active'[by'[c]][num'[c]] = c
    BY <1>c, <1>e, <1>f, <1>h, <1>i DEF Kept
  <2>2. \A t \in Reqs : PendingIn(t, c) => PendingIn(t, c)'
    BY <1>c, <1>f, <1>i DEF PendingIn
  <2>3. \A t \in Reqs : ActiveIn(t, c) => ActiveIn(t, c)'
    BY <1>c, <1>f, <1>i DEF ActiveIn
  <2> QED
    BY <2>1, <2>2, <2>3, <1>e, <1>f DEF Kept
<1>w. local[c] # "removing"
  BY <1>e DEF Kept
<1>1. ASSUME NEW r \in Reqs, SessionStep(r)
      PROVE  Kept(c)'
  <2>1. CASE \E d \in Conns : Accept(r, d)
    <3>1. PICK d \in Conns : Accept(r, d)
      BY <2>1
    <3>2. d # c
      BY <3>1
    <3>3. phase'[c] = phase[c] /\ UNCHANGED <<at, local, pending, active, ln>>
      BY <3>1, <3>2, <1>a DEF Accept
    <3> QED
      BY <3>3, <1>w, <1>f
  <2>2. CASE StoreSession(r)
    BY <2>2, <1>w, <1>f, <1>t DEF StoreSession, connVars, RelayTypeOK
  <2>3. CASE ReverseConnect(r) \/ ListenFails(r) \/ ServeSession(r)
    BY <2>3, <1>w, <1>f DEF ReverseConnect, ListenFails, ServeSession, connVars
  <2> QED
    BY <1>1, <2>1, <2>2, <2>3 DEF SessionStep
<1>2. ASSUME NEW a \in Clients, CloseSession(a)
      PROVE  Kept(c)'
  <2>1. /\ stopping[a] \in Reqs /\ ln' = [ln EXCEPT ![stopping[a]] = "closed"]
        /\ c \notin Held(pending, stopping[a]) /\ c \notin Held(active, stopping[a])
        /\ UNCHANGED <<phase, at, local, pending, active>>
    BY <1>2, <1>t DEF CloseSession, RelayTypeOK, Due
  <2>2. pending[stopping[a]][n] # c /\ active[stopping[a]][n] # c
    BY <2>1, <1>c, <1>0 DEF Held
  <2> QED
    BY <2>1, <2>2, <1>w, <1>f, <1>t DEF RelayTypeOK
<1>3. ASSUME NEW a \in Clients, ReverseStop(a) \/ AgentStop(a)
      PROVE  Kept(c)'
  BY <1>3, <1>w, <1>f DEF ReverseStop, AgentStop, connVars
<1>4. ASSUME NEW r \in Reqs,
             AgentConnect(r) \/ takeOver(r) \/ SendReady(r) \/ ReadyFails(r) \/ LegEnds(r)
      PROVE  Kept(c)'
  BY <1>4, <1>w, <1>f DEF AgentConnect, takeOver, SendReady, ReadyFails, LegEnds, connVars
<1>5. CASE RemoveOwned \/ UNCHANGED relayVars
  BY <1>5, <1>w, <1>f DEF RemoveOwned, relayVars, connVars
<1>6. ASSUME NEW d \in Conns, d # c, ConnStep(d)
      PROVE  Kept(c)'
  <2>1. phase'[c] = phase[c] /\ at'[c] = at[c] /\ local'[c] = local[c] /\ UNCHANGED ln
    BY <1>6, <1>t
    DEF ConnStep, KeyPairFails, LookUpToStore, storePending, OfferConn, OfferFails, DialLocal,
       DialLocalFails, fetchPending, DeriveFails, LookUpToActivate, activateConn, RemoteEnds,
       LocalEnds, RelayBreaks, CloseActive, removeActive, RelayTypeOK
  <2>2. CASE storePending(d) \/ activateConn(d)
    <3>1. by[d] \in Reqs /\ at[d] \in Reqs /\ num[d] \in Nums
      BY <2>2, <1>t DEF storePending, activateConn, HandlersReady
    <3>2. ASSUME NEW t \in Reqs, KeyOf(t) = KeyOf(s)
          PROVE  pending'[t][n] = pending[t][n] /\ active'[t][n] = active[t][n]
      <4>1. at[d] # t \/ num[d] # n
        BY <3>1, <3>2, <1>u, <1>6
      <4>2. CASE storePending(d)
        BY <4>1, <4>2, <3>1, <1>c, <1>t DEF storePending, RelayTypeOK
      <4>3. CASE activateConn(d)
        BY <4>1, <4>3, <3>1, <1>c, <1>t DEF activateConn, RelayTypeOK
      <4> QED
        BY <2>2, <4>2, <4>3
    <3> QED
      BY <2>1, <3>2, <1>w, <1>f
  <2>3. CASE removeActive(d)
    <3> DEFINE u == table[KeyOf(by[d])]
    <3>1. /\ by[d] \in Reqs /\ num[d] \in Nums /\ u \in Reqs \cup {None} /\ pending' = pending
      BY <2>3, <1>t, <1>k DEF removeActive, HandlersReady, RelayTypeOK
    <3>2. ASSUME NEW t \in Reqs, KeyOf(t) = KeyOf(s)
          PROVE  active'[t][n] = active[t][n]
      <4>1. u # t \/ num[d] # n
        BY <3>1, <3>2, <1>u, <1>6
      <4>2. CASE u = None \/ active[u][num[d]] = None
        BY <4>2, <2>3 DEF removeActive
      <4>3. CASE ~(u = None \/ active[u][num[d]] = None)
        <5>1. u \in Reqs /\ active' = [active EXCEPT ![u][num[d]] = None]
          BY <4>3, <3>1, <2>3 DEF removeActive
        <5> HIDE DEF u
        <5> QED
          BY <5>1, <4>1, <3>1, <3>2, <1>c, <1>t DEF RelayTypeOK
      <4> QED
        BY <4>2, <4>3
    <3> QED
      BY <2>1, <3>1, <3>2, <1>w, <1>f
  <2>4. CASE ~storePending(d) /\ ~activateConn(d) /\ ~removeActive(d)
    <3>1. UNCHANGED <<pending, active>>
      BY <1>6, <2>4
      DEF ConnStep, KeyPairFails, LookUpToStore, OfferConn, OfferFails, DialLocal,
       DialLocalFails, fetchPending, DeriveFails, LookUpToActivate, RemoteEnds,
       LocalEnds, RelayBreaks, CloseActive
    <3> QED
      BY <2>1, <3>1, <1>w, <1>f
  <2> QED
    BY <2>2, <2>3, <2>4
<1>7. ASSUME ConnStep(c)
      PROVE  Kept(c)'
  <2>k. KeyOf(s) \in Keys /\ table[KeyOf(s)] \in Reqs \cup {None}
    BY <1>c, <1>k, <1>t DEF RelayTypeOK
  <2>z. /\ UNCHANGED ln
        /\ phase \in [Conns -> {"none", "accepted", "storing", "stored", "offered", "keyed",
                                "deriving", "activating", "relayed", "over"}]
        /\ at \in [Conns -> Reqs \cup {None}] /\ taken \in [Conns -> Conns \cup {None}]
        /\ local \in [Conns -> {"none", "open", "closing", "removing", "missed", "lost", "over"}]
    BY <1>7, <1>t
    DEF ConnStep, KeyPairFails, LookUpToStore, storePending, OfferConn, OfferFails, DialLocal,
       DialLocalFails, fetchPending, DeriveFails, LookUpToActivate, activateConn, RemoteEnds,
       LocalEnds, RelayBreaks, CloseActive, removeActive, RelayTypeOK
  <2>1. CASE LookUpToStore(c)
    <3>1. /\ at'[c] = table[KeyOf(s)] /\ phase'[c] \in {"stored", "storing"} /\ local' = local
          /\ phase'[c] = "stored" => table[KeyOf(s)] = None
          /\ UNCHANGED table
      BY <2>1, <2>z DEF LookUpToStore
    <3> QED
      BY <3>1, <1>c, <1>h, <1>i, <1>w, <1>0 DEF Kept
  <2>2. CASE storePending(c)
    <3>1. /\ phase[c] = "storing" /\ phase'[c] = "stored" /\ local' = local
          /\ pending' = [pending EXCEPT ![at[c]][n] = c] /\ UNCHANGED table
      BY <2>2, <2>z DEF storePending
    <3>2. table[KeyOf(s)] = s => pending'[s][n] = c
      BY <3>1, <1>c, <1>e, <1>t DEF Kept, RelayTypeOK
    <3> QED
      BY <3>1, <3>2, <1>c, <1>i, <1>w DEF Kept
  <2>3. CASE OfferConn(c) \/ DialLocal(c)
    <3>1. /\ phase[c] \in {"stored", "offered"} /\ phase'[c] \in {"offered", "keyed"}
          /\ local'[c] # "removing" /\ UNCHANGED <<table, pending>>
      BY <2>3, <2>z, <1>w DEF OfferConn, DialLocal
    <3> QED
      BY <3>1, <1>c, <1>e, <1>i DEF Kept
  <2>4. CASE fetchPending(c)
    <3>1. /\ phase[c] = "keyed" /\ phase'[c] \in {"over", "deriving"} /\ local' = local
          /\ phase'[c] = "deriving" =>
               table[KeyOf(s)] # None /\ pending[table[KeyOf(s)]][n] # None
          /\ UNCHANGED <<table, pending>>
      BY <2>4, <2>z DEF fetchPending
    <3>2. CASE phase'[c] = "deriving"
      <4> DEFINE t == table[KeyOf(s)]
      <4>1. t \in Reqs /\ KeyOf(t) = KeyOf(s) /\ ln[t] = "open"
        BY <3>1, <3>2, <2>k, <1>t DEF Listed
      <4>2. pending[t][n] \in Conns
        BY <3>1, <3>2, <4>1, <1>c, <1>t DEF RelayTypeOK
      <4>3. pending[t][n] = c
        BY <4>1, <4>2, <1>c, <1>o, <1>t, <1>0 DEF Stored
      <4>4. PendingIn(t, c)'
        BY <4>1, <4>3, <3>1, <2>z, <1>c, <1>i, <1>g DEF PendingIn, KeyOf
      <4>5. \E q \in Reqs : PendingIn(q, c)'
        BY <4>1, <4>3, <3>1, <2>z, <1>c, <1>i DEF PendingIn
      <4> QED
        BY <4>5, <3>1, <3>2, <1>c, <1>e, <1>i, <1>w DEF Kept
    <3>3. CASE phase'[c] = "over"
      BY <3>1, <3>3, <1>w DEF Kept
    <3> QED
      BY <3>1, <3>2, <3>3
  <2>5. CASE LookUpToActivate(c)
    <3>1. /\ phase[c] = "deriving" /\ at'[c] = table[KeyOf(s)] /\ local' = local
          /\ phase'[c] \in {"relayed", "activating"}
          /\ phase'[c] = "relayed" => table[KeyOf(s)] = None
          /\ UNCHANGED <<table, pending, active>>
      BY <2>5, <2>z DEF LookUpToActivate
    <3>2. \E t \in Reqs : PendingIn(t, c)'
      BY <3>1, <2>z, <1>c, <1>e, <1>i DEF Kept, PendingIn
    <3> QED
      BY <3>1, <3>2, <1>c, <1>e, <1>i, <1>w, <1>0 DEF Kept
  <2>6. CASE activateConn(c)
    <3>1. /\ phase[c] = "activating" /\ phase'[c] = "relayed" /\ local' = local
          /\ at[c] \in Reqs /\ taken[c] \in Conns
          /\ pending' = [pending EXCEPT ![at[c]][n] = None]
          /\ active' = [active EXCEPT ![at[c]][n] = taken[c]]
          /\ UNCHANGED table
      BY <2>6, <2>z, <1>t DEF activateConn, HandlersReady
    <3>2. taken[c] = c
      <4>1. num[taken[c]] = n /\ SameKey(taken[c], s)
        BY <3>1, <1>t, <1>0 DEF Numbered
      <4> QED
        BY <4>1, <3>1, <1>c, <1>o
    <3>3. active'[at[c]][n] = c
      BY <3>1, <3>2, <1>c, <1>t DEF RelayTypeOK
    <3>4. PICK t \in Reqs : PendingIn(t, c)
      BY <3>1, <1>e DEF Kept
    <3>5. PendingIn(t, c)' \/ ActiveIn(t, c)'
      <4>1. CASE t = at[c]
        BY <4>1, <3>3, <3>4, <2>z, <1>c, <1>i DEF PendingIn, ActiveIn
      <4>2. CASE t # at[c]
        <5>1. pending'[t][n] = pending[t][n]
          BY <4>2, <3>1, <1>t DEF RelayTypeOK
        <5> QED
          BY <5>1, <3>4, <2>z, <1>c, <1>i DEF PendingIn
      <4> QED
        BY <4>1, <4>2
    <3>6. table'[KeyOf(s)] = s => active'[s][n] = c
      BY <3>1, <3>3, <1>e DEF Kept
    <3> QED
      BY <3>1, <3>5, <3>6, <1>c, <1>i, <1>w DEF Kept
  <2>7. CASE RemoteEnds(c) \/ LocalEnds(c) \/ DialLocalFails(c)
    BY <2>7, <2>z, <1>f DEF RemoteEnds, LocalEnds, DialLocalFails
  <2>8. CASE RelayBreaks(c)
    BY <2>8, <1>w, <1>f DEF RelayBreaks
  <2>9. CASE CloseActive(c)
    <3> DEFINE t == table[KeyOf(s)]
               d == IF t = None THEN None ELSE active[t][n]
    <3>1. /\ open' = open \ {d} /\ UNCHANGED <<phase, at, pending, active>>
          /\ local'[c] = IF d = None THEN "missed" ELSE "removing"
      BY <2>9, <2>z DEF CloseActive
    <3>2. ASSUME d # None
          PROVE  d = c
      <4>1. t \in Reqs /\ KeyOf(t) = KeyOf(s) /\ d = active[t][n]
        BY <3>2, <2>k, <1>t DEF Listed
      <4>2. d \in Conns /\ SameKey(d, t) /\ num[d] = n
        BY <3>2, <4>1, <1>c, <1>t DEF Stored, RelayTypeOK
      <4> QED
        BY <4>1, <4>2, <1>o
    <3>3. d = None
      BY <3>1, <3>2 DEF Due
    <3> QED
      BY <3>1, <3>3, <2>z, <1>f
  <2>10. CASE removeActive(c)
    <3>1. local[c] = "missed" /\ local'[c] # "lost"
      BY <2>10, <1>w DEF removeActive, Due
    <3>2. UNCHANGED active /\ local'[c] = "over"
      BY <3>1, <2>10, <2>z DEF removeActive
    <3> QED
      BY <3>2, <2>10, <2>z, <1>f DEF removeActive
  <2>11. CASE KeyPairFails(c) \/ OfferFails(c) \/ DeriveFails(c)
    <3>1. phase'[c] = "over" /\ local' = local
      BY <2>11, <2>z DEF KeyPairFails, OfferFails, DeriveFails
    <3> QED
      BY <3>1, <1>w DEF Kept
  <2> QED
    BY <2>1, <2>2, <2>3, <2>4, <2>5, <2>6, <2>7, <2>8, <2>9, <2>10, <2>11, <1>7 DEF ConnStep
<1> QED
  BY <1>1, <1>2, <1>3, <1>4, <1>5, <1>6, <1>7 DEF AgentNext, RelayNext

-----------------------------------------------------------------------------
(* Shells. *)

\* PTY p was opened.
Started(p) == pty[p].state # "unused"

\* What a handler or a reader goes on to use has been set.
ShellTypeInd ==
    /\ ShellTypeOK
    /\ \A c \in Calls : stage[c] = "idle" => shellID[c] = NoShell
    /\ \A c \in Calls : stage[c] \notin {"idle", "failed"} => shellID[c] \in Ids
    /\ \A p \in Ptys : Started(p) =>
         /\ pty[p].starter \in Calls /\ pty[p].inv \in Calls /\ pty[p].id \in Ids
         /\ shellID[pty[p].starter] = pty[p].id /\ shellID[pty[p].inv] \in Ids
    /\ \A p \in Ptys : pty[p].reading => Started(p)
    /\ \A i \in Ids : ptmx[i] # NoShell => Started(ptmx[i])

\* What a step may leave of a PTY: all but its state and whether it is read.
SamePty(p) ==
    pty'[p].id = pty[p].id /\ pty'[p].starter = pty[p].starter /\ pty'[p].inv = pty[p].inv

\* What is stored, and whose it is.
StoredInd == StoredUnderOneId /\ StoredIsOpen /\ OutputStaysWithUser

\* A running shell that has met no other under its id is stored under the id of the call it serves;
\* and a shell that is stored under the id of another one's reader has met it.
CrowdInd ==
    /\ \A p \in Ptys \ crowded : pty[p].state = "running" => ptmx[shellID[pty[p].inv]] = p
    /\ \A q \in Ptys : pty[q].reading => ptmx[pty[q].id] \in crowded \cup {q, NoShell}

\* generateShellID returns an id if one is free.
LEMMA FirstFreeId ==
    ASSUME ShellTypeOK, NEW c \in Callers, \E n \in 0 .. MaxId : ptmx[idOf[<<c, n>>]] = NoShell
    PROVE  generateShellID(c) \in Ids
<1> DEFINE Free == {n \in 0 .. MaxId : ptmx[idOf[<<c, n>>]] = NoShell}
<1>1. \E n \in Free : \A m \in Free : ~(<<m, n>> \in OpToRel(<, Nat))
  <2>1. Free # {} /\ Free \subseteq Nat
    BY ShellAssumption
  <2> QED
    BY <2>1, NatLessThanWellFounded, WFMin
<1>2. PICK n \in Free : \A m \in Free : ~(m < n)
  <2>1. PICK n \in Free : \A m \in Free : ~(<<m, n>> \in OpToRel(<, Nat))
    BY <1>1
  <2>2. n \in Nat /\ Free \subseteq Nat
    BY ShellAssumption
  <2>3. ASSUME NEW m \in Free, m < n
        PROVE  FALSE
    <3>1. <<m, n>> \in Nat \X Nat
      BY <2>2
    <3>2. <<m, n>> \in OpToRel(<, Nat)
      BY <3>1, <2>3 DEF OpToRel
    <3> QED
      BY <2>1, <3>2
  <2> QED
    BY <2>3
<1>3. \A m \in 0 .. n - 1 : ptmx[idOf[<<c, m>>]] # NoShell
  BY <1>2, ShellAssumption
<1>4. \E m \in 0 .. MaxId : /\ ptmx[idOf[<<c, m>>]] = NoShell
                            /\ \A l \in 0 .. m - 1 : ptmx[idOf[<<c, l>>]] # NoShell
  BY <1>2, <1>3
<1> DEFINE first == CHOOSE m \in 0 .. MaxId :
                      /\ ptmx[idOf[<<c, m>>]] = NoShell
                      /\ \A l \in 0 .. m - 1 : ptmx[idOf[<<c, l>>]] # NoShell
<1>5. first \in 0 .. MaxId
  BY <1>4
<1>6. generateShellID(c) = idOf[<<c, first>>]
  BY DEF generateShellID
<1> QED
  BY <1>5, <1>6 DEF Ids

\* The id of a call's own caller, or of the one it names, is not nil.
LEMMA IdsAreIds == /\ NoShell \notin Ids
                   /\ \A c \in Callers : idOf[<<c, 0>>] \in Ids
BY ShellAssumption DEF Ids

\* The types of the shell service hold when the device starts.
LEMMA ShellTypeInitial ==
    ASSUME NEW made, ShellInit(made)
    PROVE  ShellTypeInd
BY ShellAssumption, IdsAreIds DEF ShellInit, ShellTypeInd, ShellTypeOK, PtyRecords, Stages, Started

\* startPtySession takes a PTY that was not used and stores it under the id of the call.
LEMMA PtyStarts ==
    ASSUME ShellTypeOK, NEW c \in Calls, shellID[c] \in Ids, startPtySession(c)
    PROVE  \E p \in Ptys :
             /\ pty[p].state = "unused"
             /\ pty' = [pty EXCEPT ![p] = [state |-> "running", id |-> shellID[c], starter |-> c,
                                           inv |-> c, reading |-> TRUE]]
             /\ ptmx' = [ptmx EXCEPT ![shellID[c]] = p]
             /\ crowded' = crowded \cup Meeting(p, shellID[c])
<1> DEFINE p == CHOOSE q \in Ptys : pty[q].state = "unused"
<1>1. p \in Ptys /\ pty[p].state = "unused"
  BY DEF startPtySession
<1> QED
  BY <1>1 DEF startPtySession

\* The record of a PTY after its reader has ended is one.
LEMMA ReadToTheEnd ==
    ASSUME NEW r \in PtyRecords, NEW st \in {"exited", "closed"}
    PROVE  [r EXCEPT !.reading = FALSE, !.state = st] \in PtyRecords
<1>1. [r EXCEPT !.reading = FALSE] \in PtyRecords
  BY DEF PtyRecords
<1>2. ASSUME NEW q \in PtyRecords
      PROVE  [q EXCEPT !.state = st] \in PtyRecords
  BY DEF PtyRecords
<1> QED
  BY <1>1, <1>2

\* Every step of the shell service keeps the types, and what a handler or a reader goes on to use
\* is there.
LEMMA ShellTypeStep ==
    ASSUME ShellTypeInd, [ShellNext]_shellVars
    PROVE  ShellTypeInd'
<1>0. NoShell \notin Calls /\ NoShell \notin Ptys /\ NoShell \notin Callers /\ NoShell \notin Ids
  BY ShellAssumption, IdsAreIds
<1>c. \A c \in Calls : callerOf[c] \in Callers
  BY ShellAssumption
<1>s. ASSUME NEW c \in Calls, shellID[c] \in Ids, startPtySession(c),
             UNCHANGED <<shellID, encKeys, tokens, authID, ended>>,
             \A d \in Calls : stage'[d] = stage[d] \/ (d = c /\ stage'[d] = "open"),
             stage' \in [Calls -> Stages], from' \in [Calls -> Callers \cup {NoShell}]
      PROVE  ShellTypeInd'
  <2>1. PICK p \in Ptys :
             /\ pty[p].state = "unused"
             /\ pty' = [pty EXCEPT ![p] = [state |-> "running", id |-> shellID[c], starter |-> c,
                                           inv |-> c, reading |-> TRUE]]
             /\ ptmx' = [ptmx EXCEPT ![shellID[c]] = p]
             /\ crowded' = crowded \cup Meeting(p, shellID[c])
    BY <1>s, PtyStarts DEF ShellTypeInd
  <2>2. ShellTypeOK'
    BY <1>s, <2>1 DEF ShellTypeInd, ShellTypeOK, PtyRecords, Meeting
  <2>3. /\ \A q \in Ptys \ {p} : pty'[q] = pty[q]
        /\ pty'[p].starter = c /\ pty'[p].inv = c /\ pty'[p].id = shellID[c]
        /\ pty'[p].state = "running"
    BY <2>1 DEF ShellTypeInd, ShellTypeOK
  <2>4. \A q \in Ptys : Started(q)' =>
         /\ pty'[q].starter \in Calls /\ pty'[q].inv \in Calls /\ pty'[q].id \in Ids
         /\ shellID'[pty'[q].starter] = pty'[q].id /\ shellID'[pty'[q].inv] \in Ids
    BY <1>s, <2>3 DEF ShellTypeInd, Started
  <2>5. \A q \in Ptys : pty'[q].reading => Started(q)'
    BY <2>3 DEF ShellTypeInd, Started
  <2>6. \A i \in Ids : ptmx'[i] # NoShell => Started(ptmx[i])'
    BY <2>1, <2>3, <1>0 DEF ShellTypeInd, ShellTypeOK, Started
  <2> QED
    BY <2>2, <2>4, <2>5, <2>6, <1>s DEF ShellTypeInd, ShellTypeOK
<1> USE DEF ShellTypeInd, ShellTypeOK, Stages, Started, PtyRecords
<1>q. ASSUME UNCHANGED <<shellID, pty, ptmx>>,
             \A c \in Calls : stage'[c] = stage[c] \/ stage'[c] = "failed" \/ (stage[c] \notin {"idle", "failed"} /\ stage'[c] # "idle"),
             ShellTypeOK'
      PROVE  ShellTypeInd'
  BY <1>q
<1>1. ASSUME NEW c \in Calls, FirstMessage(c)
      PROVE  ShellTypeInd'
  <2> DEFINE i == generateShellID(callerOf[c])
  <2>1. i \in Ids
    BY <1>1, <1>c, FirstFreeId DEF FirstMessage
  <2> HIDE DEF i
  <2>2. /\ stage[c] = "idle" /\ shellID' = [shellID EXCEPT ![c] = i]
        /\ stage' = [stage EXCEPT ![c] = "keyed"]
        /\ UNCHANGED <<ptmx, encKeys, tokens, pty, authID, ended, crowded>>
        /\ \E o \in Callers \cup {NoShell} : from' = [from EXCEPT ![c] = o]
    BY <1>1 DEF FirstMessage, i
  <2>3. shellID[c] = NoShell
    BY <2>2
  <2>4. ShellTypeOK'
    BY <2>1, <2>2
  <2> QED
    BY <2>1, <2>2, <2>3, <2>4, <1>0
<1>2. ASSUME NEW c \in Calls,
             setupEncryption(c) \/ setupEncryptionFails(c) \/ sendMigrationToken(c)
      PROVE  ShellTypeInd'
  BY <1>2 DEF setupEncryption, setupEncryptionFails, sendMigrationToken
<1>3. ASSUME NEW c \in Calls, StartShell(c)
      PROVE  ShellTypeInd'
  BY <1>3, <1>s DEF StartShell
<1>4. ASSUME NEW c \in Calls, InputWithoutPty(c)
      PROVE  ShellTypeInd'
  BY <1>4, <1>s DEF InputWithoutPty
<1>5. ASSUME NEW c \in Calls,
             StartShellFails(c) \/ MigrateRefused(c) \/ DecryptFails(c) \/ WriteFails(c)
      PROVE  ShellTypeInd'
  BY <1>5 DEF StartShellFails, MigrateRefused, DecryptFails, WriteFails
<1>6. ASSUME NEW c \in Calls, Migrate(c)
      PROVE  ShellTypeInd'
  <2>1. /\ OldId(c) \in Ids /\ ptmx[OldId(c)] \in Ptys /\ shellID[c] \in Ids
    BY <1>6, IdsAreIds DEF Migrate, CanTakeOver, OldId
  <2> HIDE DEF Started
  <2>2. ShellTypeOK'
    BY <1>6, <2>1 DEF Migrate, Move, Meeting
  <2>3. \A p \in Ptys :
           /\ pty'[p].state = pty[p].state /\ pty'[p].id = pty[p].id
           /\ pty'[p].starter = pty[p].starter /\ pty'[p].reading = pty[p].reading
           /\ pty'[p].inv \in {pty[p].inv, c}
    BY <1>6, <2>1 DEF Migrate, Move
  <2>4. \A j \in Ids : ptmx'[j] = NoShell \/ \E k \in Ids : ptmx'[j] = ptmx[k]
    BY <1>6, <2>1 DEF Migrate, Move
  <2>5. shellID' = shellID /\ stage' = [stage EXCEPT ![c] = "open"] /\ stage[c] = "starting"
    BY <1>6 DEF Migrate
  <2> QED
    BY <2>1, <2>2, <2>3, <2>4, <2>5 DEF Started
<1>7. ASSUME NEW c \in Calls, cleanupShell(c)
      PROVE  ShellTypeInd'
  BY <1>7, <1>0 DEF cleanupShell
<1>8. ASSUME NEW p \in Ptys, ProcessExits(p)
      PROVE  ShellTypeInd'
  BY <1>8, <1>0 DEF ProcessExits
<1>9. ASSUME NEW p \in Ptys, ReaderEnds(p)
      PROVE  ShellTypeInd'
  <2>1. pty[p].id \in Ids /\ Started(p) /\ UNCHANGED <<tokens, shellID, stage, from, authID,
  crowded, ended>>
    BY <1>9 DEF ReaderEnds
  <2>2. /\ ptmx' = [ptmx EXCEPT ![pty[p].id] = NoShell]
        /\ encKeys' = [encKeys EXCEPT ![pty[p].id] = NoShell]
    BY <1>9 DEF ReaderEnds
  <2>3. \E st \in {"exited", "closed"} :
           pty' = [pty EXCEPT ![p].reading = FALSE, ![p].state = st]
    BY <1>9 DEF ReaderEnds
  <2>4. PICK st \in {"exited", "closed"} :
           pty' = [pty EXCEPT ![p].reading = FALSE, ![p].state = st]
    BY <2>3
  <2>5. ShellTypeOK'
    <3> HIDE DEF PtyRecords
    <3>1. pty' = [pty EXCEPT ![p] = [pty[p] EXCEPT !.reading = FALSE, !.state = st]]
      BY <2>4
    <3>2. [pty[p] EXCEPT !.reading = FALSE, !.state = st] \in PtyRecords
      BY ReadToTheEnd
    <3> QED
      BY <2>1, <2>2, <3>1, <3>2
  <2>6. \A q \in Ptys :
           /\ pty'[q].id = pty[q].id /\ pty'[q].starter = pty[q].starter /\ pty'[q].inv = pty[q].inv
           /\ pty'[q].reading => pty[q].reading
           /\ pty'[q].state = pty[q].state \/ (q = p /\ pty'[q].state # "unused")
    BY <2>4
  <2>7. \A j \in Ids : ptmx'[j] = NoShell \/ ptmx'[j] = ptmx[j]
    BY <2>1, <2>2
  <2> QED
    BY <2>1, <2>5, <2>6, <2>7
<1>10. CASE UNCHANGED shellVars
  BY <1>10 DEF shellVars
<1> QED
  BY <1>1, <1>2, <1>3, <1>4, <1>5, <1>6, <1>7, <1>8, <1>9, <1>10 DEF ShellNext, CallStep

\* What a migration changes: the PTY under the old id is stored under the new one and serves c.
LEMMA MigrateEffect ==
    ASSUME ShellTypeInd, NEW c \in Calls, Migrate(c)
    PROVE  /\ stage[c] = "starting" /\ stage' = [stage EXCEPT ![c] = "open"]
           /\ OldId(c) \in Ids /\ shellID[c] \in Ids /\ ptmx[OldId(c)] \in Ptys
           /\ ptmx' = [ptmx EXCEPT ![OldId(c)] = NoShell, ![shellID[c]] = ptmx[OldId(c)]]
           /\ encKeys' = [encKeys EXCEPT ![OldId(c)] = NoShell]
           /\ UserOf(pty[ptmx[OldId(c)]].starter) = UserOf(c)
           /\ pty'[ptmx[OldId(c)]].inv = c
           /\ \A p \in Ptys : /\ pty'[p].state = pty[p].state /\ pty'[p].id = pty[p].id
                              /\ pty'[p].starter = pty[p].starter /\ pty'[p].reading = pty[p].reading
                              /\ p # ptmx[OldId(c)] => pty'[p].inv = pty[p].inv
           /\ crowded' = crowded \cup Meeting(ptmx[OldId(c)], shellID[c])
           /\ UNCHANGED <<shellID, authID>>
<1>1. OldId(c) \in Ids /\ ptmx[OldId(c)] \in Ptys /\ shellID[c] \in Ids
  BY IdsAreIds DEF Migrate, CanTakeOver, OldId, ShellTypeInd, ShellTypeOK
<1>2. UserOf(pty[ptmx[OldId(c)]].starter) = UserOf(c)
  BY DEF Migrate, MayMigrate
<1>3. pty' = [pty EXCEPT ![ptmx[OldId(c)]].inv = c]
  BY DEF Migrate, Move
<1>4. /\ pty'[ptmx[OldId(c)]].inv = c
      /\ \A p \in Ptys : /\ pty'[p].state = pty[p].state /\ pty'[p].id = pty[p].id
                         /\ pty'[p].starter = pty[p].starter /\ pty'[p].reading = pty[p].reading
                         /\ p # ptmx[OldId(c)] => pty'[p].inv = pty[p].inv
  BY <1>1, <1>3 DEF ShellTypeInd, ShellTypeOK, PtyRecords
<1> QED
  BY <1>1, <1>2, <1>4 DEF Migrate, Move

\* What cleanupShell changes: the PTY under the id of the call is closed and taken out.
LEMMA CleanupEffect ==
    ASSUME ShellTypeInd, NEW c \in Calls, cleanupShell(c)
    PROVE  /\ shellID[c] \in Ids
           /\ ptmx' = [ptmx EXCEPT ![shellID[c]] = NoShell]
           /\ encKeys' = [encKeys EXCEPT ![shellID[c]] = NoShell]
           /\ \A p \in Ptys : /\ SamePty(p) /\ pty'[p].reading = pty[p].reading
                              /\ pty'[p].state = IF p = ptmx[shellID[c]] THEN "closed" ELSE pty[p].state
           /\ UNCHANGED <<shellID, authID, crowded, stage>>
BY DEF cleanupShell, ShellTypeInd, ShellTypeOK, PtyRecords, SamePty

\* What the end of an output reader changes: whatever is under the id it remembers is taken out,
\* and its own PTY closed if that is what it was.
LEMMA ReaderEffect ==
    ASSUME ShellTypeInd, NEW p \in Ptys, ReaderEnds(p)
    PROVE  /\ pty[p].id \in Ids /\ Started(p)
           /\ ptmx' = [ptmx EXCEPT ![pty[p].id] = NoShell]
           /\ encKeys' = [encKeys EXCEPT ![pty[p].id] = NoShell]
           /\ \A q \in Ptys : SamePty(q) /\ (q # p => pty'[q].state = pty[q].state)
           /\ pty[p].reading /\ \A q \in Ptys : pty'[q].reading => q # p /\ pty[q].reading
           /\ pty[p].state \in {"exited", "closed"} /\ pty'[p].state \in {"exited", "closed"}
           /\ ptmx[pty[p].id] # p => pty'[p].state = pty[p].state
           /\ UNCHANGED <<shellID, authID, crowded, stage>>
<1>1. pty[p].id \in Ids /\ Started(p)
  BY DEF ReaderEnds, ShellTypeInd
<1>2. /\ pty' = [pty EXCEPT ![p].reading = FALSE,
                            ![p].state = IF ptmx[pty[p].id] = p THEN "closed" ELSE @]
      /\ pty[p].state \in {"exited", "closed"} /\ pty[p].reading
  BY DEF ReaderEnds
<1>3. /\ \A q \in Ptys : pty'[q].reading => q # p /\ pty[q].reading
      /\ \A q \in Ptys : SamePty(q) /\ (q # p => pty'[q].state = pty[q].state)
      /\ pty'[p].state = IF ptmx[pty[p].id] = p THEN "closed" ELSE pty[p].state
  BY <1>2 DEF ShellTypeInd, ShellTypeOK, PtyRecords, SamePty
<1> QED
  BY <1>1, <1>2, <1>3 DEF ReaderEnds

\* What starting a process changes, for the first message or for input.
LEMMA StartEffect ==
    ASSUME ShellTypeInd, NEW c \in Calls, StartShell(c) \/ InputWithoutPty(c)
    PROVE  /\ shellID[c] \in Ids
           /\ \E p \in Ptys :
                /\ ~Started(p) /\ ptmx' = [ptmx EXCEPT ![shellID[c]] = p]
                /\ pty'[p].state = "running" /\ pty'[p].id = shellID[c]
                /\ pty'[p].starter = c /\ pty'[p].inv = c
                /\ \A q \in Ptys \ {p} : pty'[q] = pty[q]
                /\ crowded' = crowded \cup Meeting(p, shellID[c])
           /\ UNCHANGED <<shellID, authID, encKeys>>
<1>1. shellID[c] \in Ids /\ startPtySession(c) /\ ShellTypeOK
  BY DEF StartShell, InputWithoutPty, ShellTypeInd
<1>2. PICK p \in Ptys :
             /\ pty[p].state = "unused"
             /\ pty' = [pty EXCEPT ![p] = [state |-> "running", id |-> shellID[c], starter |-> c,
                                           inv |-> c, reading |-> TRUE]]
             /\ ptmx' = [ptmx EXCEPT ![shellID[c]] = p]
             /\ crowded' = crowded \cup Meeting(p, shellID[c])
  BY <1>1, PtyStarts
<1>3. /\ pty'[p].state = "running" /\ pty'[p].id = shellID[c]
      /\ pty'[p].starter = c /\ pty'[p].inv = c
      /\ \A q \in Ptys \ {p} : pty'[q] = pty[q]
  BY <1>2 DEF ShellTypeInd, ShellTypeOK
<1>4. UNCHANGED <<shellID, authID, encKeys>>
  BY DEF StartShell, InputWithoutPty
<1> QED
  BY <1>1, <1>2, <1>3, <1>4 DEF Started

\* What the exit of a process changes.
LEMMA ExitEffect ==
    ASSUME ShellTypeInd, NEW p \in Ptys, ProcessExits(p)
    PROVE  /\ \A q \in Ptys : /\ SamePty(q) /\ pty'[q].reading = pty[q].reading
                              /\ q # p => pty'[q].state = pty[q].state
           /\ pty[p].state = "running" /\ pty'[p].state = "exited"
           /\ UNCHANGED <<ptmx, encKeys, shellID, stage, authID, crowded>>
BY DEF ProcessExits, ShellTypeInd, ShellTypeOK, PtyRecords, SamePty

\* Every step of the shell service keeps a PTY under one id, what is stored open, and the output
\* of a shell with its user.
LEMMA StoredStep ==
    ASSUME ShellTypeInd, StoredInd, [ShellNext]_shellVars
    PROVE  StoredInd'
<1>0. NoShell \notin Calls /\ NoShell \notin Ptys
  BY ShellAssumption
<1>t. /\ ptmx \in [Ids -> Ptys \cup {NoShell}]
      /\ \A i \in Ids : ptmx[i] # NoShell => Started(ptmx[i])
      /\ \A p \in Ptys : Started(p) => pty[p].starter \in Calls /\ pty[p].inv \in Calls
  BY DEF ShellTypeInd, ShellTypeOK
<1>q. ASSUME UNCHANGED <<ptmx, pty, authID>>
      PROVE  StoredInd'
  BY <1>q DEF StoredInd, StoredUnderOneId, StoredIsOpen, OutputStaysWithUser, UserOf
<1>1. ASSUME NEW c \in Calls, StartShell(c) \/ InputWithoutPty(c)
      PROVE  StoredInd'
  <2>1. shellID[c] \in Ids /\ UNCHANGED authID
    BY <1>1, StartEffect
  <2>2. PICK p \in Ptys :
                /\ ~Started(p) /\ ptmx' = [ptmx EXCEPT ![shellID[c]] = p]
                /\ pty'[p].state = "running" /\ pty'[p].id = shellID[c]
                /\ pty'[p].starter = c /\ pty'[p].inv = c
                /\ \A q \in Ptys \ {p} : pty'[q] = pty[q]
    BY <1>1, StartEffect
  <2>3. \A i \in Ids : ptmx[i] # p
    BY <1>t, <1>0, <2>2
  <2>4. StoredUnderOneId'
    BY <2>1, <2>2, <2>3, <1>t DEF StoredInd, StoredUnderOneId
  <2>5. StoredIsOpen'
    BY <2>1, <2>2, <2>3, <1>t, <1>0 DEF StoredInd, StoredIsOpen
  <2>6. OutputStaysWithUser'
    BY <2>1, <2>2 DEF StoredInd, OutputStaysWithUser, UserOf
  <2> QED
    BY <2>4, <2>5, <2>6 DEF StoredInd
<1>2. ASSUME NEW c \in Calls, Migrate(c)
      PROVE  StoredInd'
  <2>1. /\ OldId(c) \in Ids /\ shellID[c] \in Ids /\ ptmx[OldId(c)] \in Ptys
        /\ ptmx' = [ptmx EXCEPT ![OldId(c)] = NoShell, ![shellID[c]] = ptmx[OldId(c)]]
        /\ UserOf(pty[ptmx[OldId(c)]].starter) = UserOf(c)
        /\ pty'[ptmx[OldId(c)]].inv = c
        /\ \A p \in Ptys : /\ pty'[p].state = pty[p].state /\ pty'[p].id = pty[p].id
                           /\ pty'[p].starter = pty[p].starter
                           /\ p # ptmx[OldId(c)] => pty'[p].inv = pty[p].inv
        /\ UNCHANGED authID
    BY <1>2, MigrateEffect
  <2>2. StoredUnderOneId'
    BY <2>1, <1>t, <1>0 DEF StoredInd, StoredUnderOneId
  <2>3. StoredIsOpen'
    BY <2>1, <1>t, <1>0 DEF StoredInd, StoredIsOpen
  <2>4. OutputStaysWithUser'
    BY <2>1 DEF StoredInd, OutputStaysWithUser, UserOf
  <2> QED
    BY <2>2, <2>3, <2>4 DEF StoredInd
<1>3. ASSUME NEW c \in Calls, cleanupShell(c)
      PROVE  StoredInd'
  <2>1. /\ shellID[c] \in Ids /\ UNCHANGED authID
        /\ ptmx' = [ptmx EXCEPT ![shellID[c]] = NoShell]
        /\ \A p \in Ptys : /\ SamePty(p)
                           /\ pty'[p].state = IF p = ptmx[shellID[c]] THEN "closed" ELSE pty[p].state
    BY <1>3, CleanupEffect
  <2>2. \A p \in Ptys : p = ptmx[shellID[c]] => Started(p)
    BY <2>1, <1>t, <1>0
  <2> QED
    BY <2>1, <2>2, <1>t, <1>0
    DEF StoredInd, StoredUnderOneId, StoredIsOpen, OutputStaysWithUser, UserOf, SamePty, Started
<1>4. ASSUME NEW p \in Ptys, ReaderEnds(p)
      PROVE  StoredInd'
  <2>1. /\ pty[p].id \in Ids /\ Started(p) /\ UNCHANGED authID
        /\ ptmx' = [ptmx EXCEPT ![pty[p].id] = NoShell]
        /\ \A q \in Ptys : SamePty(q) /\ (q # p => pty'[q].state = pty[q].state)
        /\ ptmx[pty[p].id] # p => pty'[p].state = pty[p].state
    BY <1>4, ReaderEffect
  <2> QED
    BY <2>1, <1>t, <1>0
    DEF StoredInd, StoredUnderOneId, StoredIsOpen, OutputStaysWithUser, UserOf, SamePty, Started
<1>5. ASSUME NEW p \in Ptys, ProcessExits(p)
      PROVE  StoredInd'
  <2>1. /\ \A q \in Ptys : SamePty(q) /\ (q # p => pty'[q].state = pty[q].state)
        /\ pty[p].state = "running" /\ pty'[p].state = "exited"
        /\ UNCHANGED <<ptmx, authID>>
    BY <1>5, ExitEffect
  <2> QED
    BY <2>1, <1>t, <1>0
    DEF StoredInd, StoredUnderOneId, StoredIsOpen, OutputStaysWithUser, UserOf, SamePty, Started
<1>6. ASSUME NEW c \in Calls,
             \/ FirstMessage(c) \/ setupEncryption(c) \/ setupEncryptionFails(c)
             \/ sendMigrationToken(c) \/ StartShellFails(c) \/ MigrateRefused(c) \/ DecryptFails(c)
             \/ WriteFails(c)
      PROVE  StoredInd'
  BY <1>6, <1>q
  DEF FirstMessage, setupEncryption, setupEncryptionFails, sendMigrationToken, StartShellFails,
      MigrateRefused, DecryptFails, WriteFails
<1>7. CASE UNCHANGED shellVars
  BY <1>7, <1>q DEF shellVars
<1> QED
  BY <1>1, <1>2, <1>3, <1>4, <1>5, <1>6, <1>7 DEF ShellNext, CallStep

\* Every step of the shell service keeps a shell that is alone under its id in place.
LEMMA CrowdStep ==
    ASSUME ShellTypeInd, CrowdInd, [ShellNext]_shellVars
    PROVE  CrowdInd'
<1>0. NoShell \notin Calls /\ NoShell \notin Ptys /\ NoShell \notin Ids
  BY ShellAssumption, IdsAreIds
<1>t. /\ ptmx \in [Ids -> Ptys \cup {NoShell}]
      /\ \A i \in Ids : ptmx[i] # NoShell => Started(ptmx[i])
      /\ \A p \in Ptys : pty[p].state = "running" \/ pty[p].reading => Started(p)
      /\ \A p \in Ptys : Started(p) =>
           pty[p].inv \in Calls /\ pty[p].id \in Ids /\ shellID[pty[p].inv] \in Ids
      /\ \A c \in Calls : stage[c] = "idle" => shellID[c] = NoShell
  BY DEF ShellTypeInd, ShellTypeOK, Started
<1>q. ASSUME UNCHANGED <<ptmx, pty, shellID, crowded>>
      PROVE  CrowdInd'
  BY <1>q DEF CrowdInd
<1>1. ASSUME NEW c \in Calls, StartShell(c) \/ InputWithoutPty(c)
      PROVE  CrowdInd'
  <2>1. shellID[c] \in Ids /\ UNCHANGED shellID
    BY <1>1, StartEffect
  <2>2. PICK p \in Ptys :
                /\ ~Started(p) /\ ptmx' = [ptmx EXCEPT ![shellID[c]] = p]
                /\ pty'[p].state = "running" /\ pty'[p].id = shellID[c]
                /\ pty'[p].starter = c /\ pty'[p].inv = c
                /\ \A q \in Ptys \ {p} : pty'[q] = pty[q]
                /\ crowded' = crowded \cup Meeting(p, shellID[c])
    BY <1>1, StartEffect
  <2>3. \A q \in Ptys \ {p} : q = ptmx[shellID[c]] => q \in crowded'
    BY <2>2 DEF Meeting
  <2>4. (\E o \in Ptys \ {p} : pty[o].reading /\ pty[o].id = shellID[c]) => p \in crowded'
    BY <2>2 DEF Meeting
  <2>5. ASSUME NEW q \in Ptys \ crowded', pty'[q].state = "running"
        PROVE  ptmx'[shellID'[pty'[q].inv]] = q
    <3>1. CASE q = p
      BY <3>1, <2>1, <2>2, <1>t
    <3>2. CASE q # p
      <4>1. q \notin crowded /\ pty'[q] = pty[q] /\ ptmx[shellID[pty[q].inv]] = q
        BY <3>2, <2>2, <2>5 DEF CrowdInd
      <4> QED
        BY <4>1, <3>2, <2>1, <2>2, <2>3, <2>5, <1>t
    <3> QED
      BY <3>1, <3>2
  <2>6. ASSUME NEW q \in Ptys, pty'[q].reading
        PROVE  ptmx'[pty'[q].id] \in crowded' \cup {q, NoShell}
    <3>1. CASE q = p
      BY <3>1, <2>1, <2>2, <1>t
    <3>2. CASE q # p
      <4>1. pty'[q] = pty[q] /\ pty[q].id \in Ids /\ ptmx[pty[q].id] \in crowded \cup {q, NoShell}
        BY <3>2, <2>2, <2>6, <1>t DEF CrowdInd
      <4> QED
        BY <4>1, <3>2, <2>1, <2>2, <2>4, <2>6, <1>t
    <3> QED
      BY <3>1, <3>2
  <2> QED
    BY <2>5, <2>6 DEF CrowdInd
<1>2. ASSUME NEW c \in Calls, Migrate(c)
      PROVE  CrowdInd'
  <2> DEFINE p == ptmx[OldId(c)]
  <2>1. /\ OldId(c) \in Ids /\ shellID[c] \in Ids /\ p \in Ptys
        /\ ptmx' = [ptmx EXCEPT ![OldId(c)] = NoShell, ![shellID[c]] = p]
        /\ pty'[p].inv = c
        /\ \A q \in Ptys : /\ pty'[q].state = pty[q].state /\ pty'[q].id = pty[q].id
                           /\ pty'[q].reading = pty[q].reading
                           /\ q # p => pty'[q].inv = pty[q].inv
        /\ crowded' = crowded \cup Meeting(p, shellID[c])
        /\ UNCHANGED shellID
    BY <1>2, MigrateEffect
  <2> HIDE DEF p
  <2>2. \A i \in Ids : ptmx'[i] = IF i = shellID[c] THEN p
                                  ELSE IF i = OldId(c) THEN NoShell ELSE ptmx[i]
    BY <2>1, <1>t
  <2>3. \A q \in Ptys \ {p} : q = ptmx[shellID[c]] => q \in crowded'
    BY <2>1 DEF Meeting
  <2>4. (\E o \in Ptys \ {p} : pty[o].reading /\ pty[o].id = shellID[c]) => p \in crowded'
    BY <2>1 DEF Meeting
  <2>5. ASSUME NEW q \in Ptys \ crowded', pty'[q].state = "running"
        PROVE  ptmx'[shellID'[pty'[q].inv]] = q
    <3>1. CASE q = p
      BY <3>1, <2>1, <2>2
    <3>2. CASE q # p
      <4>1. /\ q \notin crowded /\ ptmx[shellID[pty[q].inv]] = q /\ pty'[q].inv = pty[q].inv
            /\ shellID[pty[q].inv] \in Ids
        BY <3>2, <2>1, <2>5, <1>t DEF CrowdInd
      <4>2. shellID[pty[q].inv] # shellID[c]
        BY <4>1, <3>2, <2>3, <2>5
      <4>3. shellID[pty[q].inv] # OldId(c)
        BY <4>1, <3>2 DEF p
      <4> QED
        BY <4>1, <4>2, <4>3, <2>1, <2>2
    <3> QED
      BY <3>1, <3>2
  <2>6. ASSUME NEW q \in Ptys, pty'[q].reading
        PROVE  ptmx'[pty'[q].id] \in crowded' \cup {q, NoShell}
    <3>1. /\ pty[q].reading /\ pty'[q].id = pty[q].id /\ pty[q].id \in Ids
          /\ ptmx[pty[q].id] \in crowded \cup {q, NoShell}
      BY <2>1, <2>6, <1>t DEF CrowdInd
    <3>2. CASE pty[q].id = shellID[c]
      <4>1. ptmx'[pty'[q].id] = p
        BY <3>1, <3>2, <2>2
      <4> QED
        BY <4>1, <3>1, <3>2, <2>4
    <3>3. CASE pty[q].id # shellID[c]
      <4>1. ptmx'[pty'[q].id] \in {NoShell, ptmx[pty[q].id]}
        BY <3>1, <3>3, <2>2
      <4> QED
        BY <4>1, <3>1, <2>1
    <3> QED
      BY <3>2, <3>3
  <2> QED
    BY <2>5, <2>6 DEF CrowdInd
<1>3. ASSUME NEW c \in Calls, cleanupShell(c)
      PROVE  CrowdInd'
  <2>1. /\ shellID[c] \in Ids /\ UNCHANGED <<shellID, crowded>>
        /\ ptmx' = [ptmx EXCEPT ![shellID[c]] = NoShell]
        /\ \A p \in Ptys : /\ SamePty(p) /\ pty'[p].reading = pty[p].reading
                           /\ pty'[p].state = IF p = ptmx[shellID[c]] THEN "closed" ELSE pty[p].state
    BY <1>3, CleanupEffect
  <2> QED
    BY <2>1, <1>t DEF CrowdInd, SamePty
<1>4. ASSUME NEW p \in Ptys, ReaderEnds(p)
      PROVE  CrowdInd'
  <2>1. /\ pty[p].id \in Ids /\ UNCHANGED <<shellID, crowded>> /\ pty[p].reading
        /\ ptmx' = [ptmx EXCEPT ![pty[p].id] = NoShell]
        /\ \A q \in Ptys : SamePty(q) /\ (q # p => pty'[q].state = pty[q].state)
        /\ \A q \in Ptys : pty'[q].reading => q # p /\ pty[q].reading
        /\ pty'[p].state \in {"exited", "closed"}
    BY <1>4, ReaderEffect
  <2>2. ptmx[pty[p].id] \in crowded \cup {p, NoShell}
    BY <2>1 DEF CrowdInd
  <2>3. ASSUME NEW q \in Ptys \ crowded', pty'[q].state = "running"
        PROVE  ptmx'[shellID'[pty'[q].inv]] = q
    <3>1. /\ q # p /\ q \notin crowded /\ pty[q].state = "running" /\ pty'[q].inv = pty[q].inv
          /\ ptmx[shellID[pty[q].inv]] = q /\ shellID[pty[q].inv] \in Ids
      BY <2>1, <2>3, <1>t DEF CrowdInd, SamePty
    <3>2. shellID[pty[q].inv] # pty[p].id
      BY <3>1, <2>2, <1>0
    <3> QED
      BY <3>1, <3>2, <2>1, <1>t
  <2>4. ASSUME NEW q \in Ptys, pty'[q].reading
        PROVE  ptmx'[pty'[q].id] \in crowded' \cup {q, NoShell}
    BY <2>1, <2>4, <1>t DEF CrowdInd, SamePty
  <2> QED
    BY <2>3, <2>4 DEF CrowdInd
<1>5. ASSUME NEW p \in Ptys, ProcessExits(p)
      PROVE  CrowdInd'
  <2>1. /\ \A q \in Ptys : /\ SamePty(q) /\ pty'[q].reading = pty[q].reading
                           /\ q # p => pty'[q].state = pty[q].state
        /\ pty'[p].state = "exited"
        /\ UNCHANGED <<ptmx, shellID, crowded>>
    BY <1>5, ExitEffect
  <2> QED
    BY <2>1, <1>t DEF CrowdInd, SamePty
<1>6. ASSUME NEW c \in Calls, FirstMessage(c)
      PROVE  CrowdInd'
  <2>1. /\ UNCHANGED <<ptmx, pty, crowded>> /\ shellID[c] = NoShell
        /\ \A d \in Calls \ {c} : shellID'[d] = shellID[d]
    BY <1>6, <1>t DEF FirstMessage, ShellTypeInd, ShellTypeOK
  <2>2. \A p \in Ptys : Started(p) => pty[p].inv \in Calls \ {c}
    BY <2>1, <1>t, <1>0
  <2> QED
    BY <2>1, <2>2, <1>t DEF CrowdInd
<1>7. ASSUME NEW c \in Calls,
             \/ setupEncryption(c) \/ setupEncryptionFails(c)
             \/ sendMigrationToken(c) \/ StartShellFails(c) \/ MigrateRefused(c) \/ DecryptFails(c)
             \/ WriteFails(c)
      PROVE  CrowdInd'
  BY <1>7, <1>q
  DEF setupEncryption, setupEncryptionFails, sendMigrationToken, StartShellFails,
      MigrateRefused, DecryptFails, WriteFails
<1>8. CASE UNCHANGED shellVars
  BY <1>8, <1>q DEF shellVars
<1> QED
  BY <1>1, <1>2, <1>3, <1>4, <1>5, <1>6, <1>7, <1>8 DEF ShellNext, CallStep

-----------------------------------------------------------------------------
(* The services together. *)

\* The inductive invariants of the shell service.
ShellInd == ShellTypeInd /\ StoredInd /\ CrowdInd

\* The inductive invariant of the device.
DeviceInd == ShellInd /\ RelayInd /\ LogInd

\* The shell service starts in its invariant.
LEMMA ShellInitial ==
    ASSUME NEW made, ShellInit(made)
    PROVE  ShellInd
<1>1. ShellTypeInd
  BY ShellTypeInitial
<1>2. StoredInd
  BY DEF ShellInit, StoredInd, StoredUnderOneId, StoredIsOpen, OutputStaysWithUser
<1>3. CrowdInd
  BY DEF ShellInit, CrowdInd
<1> QED
  BY <1>1, <1>2, <1>3 DEF ShellInd

\* The relay services start in their invariant.
LEMMA RelayInitial ==
    ASSUME NEW made, RelayInit(made)
    PROVE  RelayInd
<1>1. RelayTypeInd
  BY RelayTypeInitial
<1>2. Listed
  BY DEF RelayInit, Listed, LostOnlyByOverwrite
<1>h. Handed
  BY DEF RelayInit, Handed, TakenOverStays
<1>3. Numbered /\ Stored
  BY DEF RelayInit, Numbered, Stored, NoConns
<1>4. AllKept
  BY DEF RelayInit, AllKept, Due
<1> QED
  BY <1>1, <1>2, <1>h, <1>3, <1>4 DEF RelayInd

\* A device starts in the invariant, whichever services are used.
LEMMA DeviceInitial ==
    ASSUME ServicesInit
    PROVE  DeviceInd
BY ShellInitial, RelayInitial, LogInitial DEF ServicesInit, DeviceInd

\* Every step of a service keeps its own invariant, and leaves the others alone.
LEMMA DeviceStep ==
    ASSUME DeviceInd, [DeviceNext]_deviceVars
    PROVE  DeviceInd'
<1>1. /\ [ShellNext]_shellVars
      /\ [AgentNext]_relayVars
      /\ [LogNext]_logVars
  <2>1. CASE UNCHANGED deviceVars
    BY <2>1 DEF deviceVars
  <2>2. CASE \E a \in Clients : handleSessionLeave(a)
    BY <2>2, SessionsAssumption DEF handleSessionLeave, AgentNext, RelayNext, LogNext
  <2>3. CASE DeviceNext /\ ~(\E a \in Clients : handleSessionLeave(a))
    BY <2>3 DEF DeviceNext
  <2> QED
    BY <2>1, <2>2, <2>3
<1>2. ShellInd'
  BY <1>1, ShellTypeStep, StoredStep, CrowdStep DEF DeviceInd, ShellInd
<1>3. RelayInd'
  BY <1>1, RelayTypeStep, ListedStep, HandedStep, NumberedStep, KeptStep DEF DeviceInd, RelayInd
<1>4. LogInd'
  BY <1>1, LogStep DEF DeviceInd
<1> QED
  BY <1>2, <1>3, <1>4 DEF DeviceInd

\* The invariant of the relay services is about what can be reached.
LEMMA RelayReach ==
    ASSUME RelayInd
    PROVE  RelaysWithinReach
<1>1. RelayTypeOK /\ HandlersReady /\ Listed
  BY DEF RelayInd, RelayTypeInd
<1>2. ListedListens /\ LostOnlyByOverwrite
  BY <1>1 DEF Listed, ListedListens
<1>3. HeldWhileListed
  <2> SUFFICES ASSUME NEW c \in Conns, Due(c),
                      phase[c] \in {"stored", "offered", "keyed", "deriving", "activating",
                                    "relayed"},
                      table[KeyOf(by[c])] = by[c]
               PROVE  HeldBy(by[c], c)
    BY DEF HeldWhileListed
  <2>1. num[c] \in Nums /\ c # None
    BY <1>1, RelayAssumption DEF HandlersReady
  <2>2. pending[by[c]][num[c]] = c \/ active[by[c]][num[c]] = c
    BY DEF RelayInd, AllKept, Kept
  <2> QED
    BY <2>1, <2>2 DEF HeldBy, Held
<1>4. KeyedIsHeld
  <2> SUFFICES ASSUME NEW c \in Conns, Due(c),
                      phase[c] \in {"deriving", "activating", "relayed"}
               PROVE  \E s \in Reqs :
                        KeyOf(s) = KeyOf(by[c]) /\ ln[s] = "open" /\ HeldBy(s, c)
    BY DEF KeyedIsHeld
  <2>1. num[c] \in Nums /\ c # None
    BY <1>1, RelayAssumption DEF HandlersReady
  <2>2. PICK s \in Reqs : PendingIn(s, c) \/ ActiveIn(s, c)
    BY DEF RelayInd, AllKept, Kept
  <2> QED
    BY <2>1, <2>2 DEF PendingIn, ActiveIn, HeldBy, Held
<1> QED
  BY <1>1, <1>2, <1>3, <1>4 DEF RelaysWithinReach

\* The invariant of the shell service is about what can be reached.
LEMMA ShellReach ==
    ASSUME ShellInd
    PROVE  ShellsWithinReach
<1>1. LostOnlyInACrowd
  <2>1. \A p \in Ptys : pty[p].state = "running" => shellID[pty[p].inv] \in Ids
    BY DEF ShellInd, ShellTypeInd, Started
  <2> QED
    BY <2>1 DEF ShellInd, CrowdInd, LostOnlyInACrowd
<1> QED
  BY <1>1 DEF ShellInd, ShellTypeInd, StoredInd, ShellsWithinReach

\* The invariant of the device holds in every state it reaches, however the calls to its services
\* interleave.
THEOREM DeviceInvariant == ServicesSpec => []DeviceInd
<1>1. ServicesInit => DeviceInd
  BY DeviceInitial
<1>2. DeviceInd /\ [DeviceNext]_deviceVars => DeviceInd'
  BY DeviceStep
<1> QED
  BY <1>1, <1>2, PTL DEF ServicesSpec

\* A behaviour that uses one service is one of ServicesSpec: what holds for services that are used
\* together holds for the specification that the run checks.
THEOREM OneServiceAtATime == DeviceSpec => ServicesSpec
<1>1. DeviceInit => ServicesInit
  BY DEF DeviceInit, ServicesInit, NoShells, NoRelays, NoLogs
<1> QED
  BY <1>1, PTL DEF DeviceSpec, ServicesSpec

\* No shell alone under its id gets out of reach, in whatever order start, migration, the final
\* message and the output reader's cleanup of any number of calls come (handleShell,
\* cleanupShell, startOutputReader).
THEOREM ShellsInReach == ServicesSpec => []ShellsWithinReach
<1>1. DeviceInd => ShellsWithinReach
  BY ShellReach DEF DeviceInd
<1> QED
  BY <1>1, DeviceInvariant, PTL

\* The output of a shell is sent to a call of the user who started it, whatever migrations are
\* asked for (handleShell compares oldPS.authID with CallerAuthID).
THEOREM OutputIsTheUsers == ServicesSpec => []OutputStaysWithUser
<1>1. DeviceInd => OutputStaysWithUser
  BY DEF DeviceInd, ShellInd, StoredInd
<1> QED
  BY <1>1, DeviceInvariant, PTL

\* What is listed listens and holds its connections; a connection whose key exchange has begun is
\* held by a session that is not closed, wherever stop, an overwriting call or msgClose falls
\* between a handler's lookup and its use; and a listener is beyond reach only when another call
\* has overwritten its session (portReverseSessions, agentForwardSessions).
THEOREM RelaysInReach == ServicesSpec => []RelaysWithinReach
<1>1. DeviceInd => RelaysWithinReach
  BY RelayReach DEF DeviceInd
<1> QED
  BY <1>1, DeviceInvariant, PTL

\* The end of a first leg does not stop the agent session that it made and the re-issued call has
\* taken over, although takeOver has no lock in common with the search of stop: the proxy ends the
\* leg after the answer to the re-issued call (takeOver, owns, stop; closeCloud of the proxy).
THEOREM TakenOverIsKept == ServicesSpec => []TakenOverStays
<1>1. DeviceInd => TakenOverStays
  BY DEF DeviceInd, RelayInd, Handed
<1> QED
  BY <1>1, DeviceInvariant, PTL

\* The table of log streams lists exactly the streams that run and are not being killed, whoever
\* removes an entry (logSessions of logs.go).
THEOREM StreamsInReach == ServicesSpec => []StreamsWithinReach
<1>1. DeviceInd => StreamsWithinReach
  BY DEF DeviceInd, LogInd, StreamsWithinReach
<1> QED
  BY <1>1, DeviceInvariant, PTL
=============================================================================
