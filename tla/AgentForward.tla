---------------------------- MODULE AgentForward ----------------------------
(***************************************************************************)
(* Forwarding of the client's SSH agent (agentforward.go): the sessions of *)
(* RelaySessions, kept by user instead of by caller.  When a second call   *)
(* of the same user arrives (the proxy re-issues a call over WebRTC), it   *)
(* takes the session over with its socket; from then on only the new       *)
(* caller may stop it.  Accepting, the key exchange, closing a connection  *)
(* and the client are the actions of RelaySessions.                        *)
(***************************************************************************)
EXTENDS RelaySessions

CONSTANT legOf  \* request -> the first leg of the proxy's call that it re-issues, if any

ASSUME LegsAssumption ==
    /\ legOf \in [Reqs -> Reqs \cup {None}]
    /\ \A r \in Reqs : legOf[r] # r
    /\ \A r, q \in Reqs : legOf[r] # None /\ legOf[r] = legOf[q] => r = q

\* msgConnect: fetch finds a session of the user, or none.
AgentConnect(r) ==
    /\ relay = "agent" /\ Unlocked
    /\ req[r] = "idle"
    /\ target' = [target EXCEPT ![r] = table[User]]
    /\ req' = [req EXCEPT ![r] = IF table[User] = None THEN "creating" ELSE "taking"]
    /\ UNCHANGED <<relay, madeBy, table, ln, count, pending, active, connVars, stopping, owner,
                   locked, cut>>

\* Mutant: the invocation is switched, the caller's id is not.
takeOverInvocation(r) ==
    /\ req[r] = "taking"
    /\ req' = [req EXCEPT ![r] = "taken"]
    /\ UNCHANGED <<relay, madeBy, table, ln, count, pending, active, connVars, stopping, agentVars>>

\* takeOver, after the lookup, under the lock of the session alone.
takeOver(r) ==
    /\ req[r] = "taking"
    /\ req' = [req EXCEPT ![r] = "taken"]
    /\ owner' = [owner EXCEPT ![target[r]] = madeBy[r]]
    /\ UNCHANGED <<relay, madeBy, table, ln, count, pending, active, connVars, stopping, target,
                   locked, cut>>

\* msgReady: the client is told the path of the socket that was taken over.
SendReady(r) ==
    /\ req[r] = "taken"
    /\ req' = [req EXCEPT ![r] = "ready"]
    /\ UNCHANGED <<relay, madeBy, table, ln, count, pending, active, connVars, stopping, agentVars>>

owns(a) == table[User] # None /\ owner[table[User]] = a

\* stop, the search for a session that a owns, with which it keeps the table's lock.
FindOwned(a) == Unlocked /\ stopping[a] = None /\ owns(a) /\ locked' = a

\* stop for the final message or a session that left.
AgentStop(a) ==
    /\ relay = "agent"
    /\ FindOwned(a)
    /\ UNCHANGED <<relay, madeBy, table, req, ln, count, pending, active, connVars, stopping, target,
                   owner, cut>>

\* stop, the rest: the session leaves the table and is closed afterwards.
RemoveOwned ==
    /\ locked # None
    /\ table' = [table EXCEPT ![User] = None]
    /\ stopping' = [stopping EXCEPT ![locked] = table[User]]
    /\ locked' = None
    /\ UNCHANGED <<relay, madeBy, req, ln, count, pending, active, connVars, target, owner, cut>>

\* msgReady cannot be sent, for a new session or one taken over: stop for the caller.
ReadyFails(r) ==
    /\ relay = "agent" /\ req[r] \in {"stored", "taken"}
    /\ req' = [req EXCEPT ![r] = "over"]
    /\ \/ FindOwned(madeBy[r])
       \/ Unlocked /\ ~owns(madeBy[r]) /\ UNCHANGED locked
    /\ UNCHANGED <<relay, madeBy, table, ln, count, pending, active, connVars, stopping, target,
                   owner, cut>>

\* The final message of a first leg, with which the proxy (closeCloud) answers the first message
\* of the re-issued call, or its end.  It matters when stop finds a session.
LegEnds(q) ==
    /\ relay = "agent"
    /\ \E r \in Reqs : legOf[r] = q /\ req[r] \in {"ready", "serving", "over"}
    /\ FindOwned(madeBy[q])
    /\ cut' = IF table[User] = q THEN cut \cup {q} ELSE cut
    /\ UNCHANGED <<relay, madeBy, table, req, ln, count, pending, active, connVars, stopping, target,
                   owner>>

AgentNext ==
    \/ RelayNext
    \/ \E r \in Reqs : AgentConnect(r) \/ takeOver(r) \/ SendReady(r) \/ ReadyFails(r) \/ LegEnds(r)
    \/ \E a \in Clients : AgentStop(a)
    \/ RemoveOwned

\* When the re-issued call has taken over the session that its first leg made, the end of that
\* leg does not stop it (takeOver, owns and stop; the proxy ends the leg when it has msgReady).
\* This holds when every call comes from a client of its own: calls through one device session
\* have one caller id, and the end of any of them stops what another has taken over.
TakenOverStays ==
    (\A r, q \in Reqs : madeBy[r] = madeBy[q] => r = q) =>
        \A r \in Reqs : legOf[r] # None /\ target[r] = legOf[r] => legOf[r] \notin cut
=============================================================================
