-------------------------- MODULE MCDeviceSessions --------------------------
EXTENDS DeviceSessions

CONSTANTS a, w, c1, c2, c3, r1, s1, k1, k2

\* A first caller with a shell and an exec call, and a second one with a shell call.
MCCallerOf == [c \in Calls |-> IF c = c3 THEN w ELSE a]

\* The number of the second caller is that of the first one with a 1 after it.
MCIdOf == [x \in Callers \X (0 .. MaxId) |-> IF x = <<w, 0>> THEN <<a, 1>> ELSE x]

\* The other request re-issues r1.
MCLegOf == [r \in Reqs |-> IF r = r1 THEN None ELSE r1]

\* Users, clients and daemons are interchangeable: it is enough to follow the behaviours in
\* which the first caller, request and stream are those of the first one.  An agent is forwarded
\* for calls of two clients, who share the key of their user.  Ports are reversed by calls of one
\* client: those of two clients have keys of their own and share nothing.
MCInit ==
    /\ DeviceInit
    /\ authID[a] = CHOOSE u \in Users : TRUE
    /\ madeBy[r1] = CHOOSE d \in Clients : TRUE
    /\ \A r \in Reqs \ {r1} : relay = "agent" <=> madeBy[r] # madeBy[r1]
    /\ caller[s1] = CHOOSE d \in Daemons : TRUE

\* The connections are interchangeable too: k1 is accepted first.  Two connections do to each
\* other what both services do alike, by the key of their sessions: a forwarded agent gets one.
\* Where no migration is allowed, because a and w are different users, the calls do a part of what
\* those of one user do: the exec call is left out.
MCNext ==
    /\ DeviceNext
    /\ phase'[k1] = "none" \/ relay = "agent" => phase'[k2] = "none"
    /\ authID[a] # authID[w] => stage'[c2] = stage[c2]

MCSpec == MCInit /\ [][MCNext]_deviceVars
=============================================================================
