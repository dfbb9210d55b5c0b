---------------------------- MODULE ShellSessions ----------------------------
(***************************************************************************)
(* The shells of a device (shell.go, interactiveShellSession): the maps    *)
(* from shell ids to PTYs, sessions, keys and migration tokens, the        *)
(* handlers of shell and exec calls, the output reader of each PTY and the *)
(* hand-over of a live PTY from one call to another.                       *)
(*                                                                         *)
(* A call is one progressive invocation; its session key is identified     *)
(* with the call.  Every step is one critical section of p.Lock or one     *)
(* operation on a PTY.                                                     *)
(***************************************************************************)
EXTENDS Naturals, FiniteSets

CONSTANTS
    Callers,    \* WAMP sessions that call the device
    Calls,      \* progressive invocations of shell and exec
    Execs,      \* those of exec
    callerOf,   \* the caller of a call
    Users,      \* authids
    Ptys,       \* PTYs a run may open
    MaxId,      \* bound: ids of one caller
    idOf,       \* caller, n -> its n-th shell id: the caller's number, with n > 0 written after
                \* it, which may be an id of another caller
    NoShell     \* a nil

ASSUME ShellAssumption ==
    /\ Execs \subseteq Calls
    /\ callerOf \in [Calls -> Callers]
    /\ MaxId \in Nat
    /\ NoShell \notin Calls \cup Ptys \cup Callers
    /\ \A x \in Callers \X (0 .. MaxId) : idOf[x] # NoShell

VARIABLES
    ptmx,      \* ptmx and sessions: shell id -> PTY; they are always written together
    encKeys,   \* encKeys: shell id -> call whose key it is
    tokens,    \* migrationTokens: shell id -> the call it was issued for
    authID,    \* the authid of a caller, which never changes
    shellID,   \* the id of a call's shell, as the handler (or the client's prefix) knows it
    stage,     \* where the handler of the call's first message is
    ended,     \* the call's final message was handled
    from,      \* the caller whose shell the call's first message, while it is handled, asks
               \* for (kwarg session-id), if any
    pty,       \* PTY -> its process, its reader's id, and ps.inv
    crowded    \* ghost: PTYs that met another one under their id: replaced there, or stored
               \* before the reader that another one had started for the id has ended

shellVars == <<ptmx, encKeys, tokens, shellID, stage, ended, from, pty, authID, crowded>>

Ids == {idOf[x] : x \in Callers \X (0 .. MaxId)}

Stages == {"idle", "keyed", "sizing", "starting", "open", "failed"}

\* A PTY: its process, the id its reader knows, the call it was started for, ps.inv.
PtyRecords ==
    [state : {"unused", "running", "exited", "closed"}, id : Ids \cup {NoShell},
     starter : Calls \cup {NoShell}, inv : Calls \cup {NoShell}, reading : BOOLEAN]

ShellTypeOK ==
    /\ ptmx \in [Ids -> Ptys \cup {NoShell}]
    /\ encKeys \in [Ids -> Calls \cup {NoShell}]
    /\ tokens \in [Ids -> Calls \cup {NoShell}]
    /\ authID \in [Callers -> Users]
    /\ shellID \in [Calls -> Ids \cup {NoShell}]
    /\ stage \in [Calls -> Stages]
    /\ ended \in [Calls -> BOOLEAN]
    /\ from \in [Calls -> Callers \cup {NoShell}]
    /\ pty \in [Ptys -> PtyRecords]
    /\ crowded \subseteq Ptys

\* made: the calls that clients make.
ShellInit(made) ==
    /\ ptmx = [i \in Ids |-> NoShell]
    /\ encKeys = [i \in Ids |-> NoShell]
    /\ tokens = [i \in Ids |-> NoShell]
    /\ authID \in [Callers -> Users]
    /\ shellID = [c \in Calls |-> NoShell]
    /\ stage = [c \in Calls |-> IF c \in made THEN "idle" ELSE "failed"]
    /\ ended = [c \in Calls |-> FALSE]
    /\ from = [c \in Calls |-> NoShell]
    /\ pty = [p \in Ptys |-> [state |-> "unused", id |-> NoShell, starter |-> NoShell,
                              inv |-> NoShell, reading |-> FALSE]]
    /\ crowded = {}

-----------------------------------------------------------------------------
UserOf(c) == authID[callerOf[c]]

\* generateShellID: the first id of the caller under which no PTY is stored.
generateShellID(caller) ==
    LET n == CHOOSE m \in 0 .. MaxId :
                /\ ptmx[idOf[<<caller, m>>]] = NoShell
                /\ \A l \in 0 .. m - 1 : ptmx[idOf[<<caller, l>>]] # NoShell
    IN  idOf[<<caller, n>>]

\* First message of a call (SIZE:KEY): the id is generated.  A call made to take a shell over
\* names its caller.
FirstMessage(c) ==
    /\ stage[c] = "idle"
    /\ \E n \in 0 .. MaxId : ptmx[idOf[<<callerOf[c], n>>]] = NoShell
    /\ \E o \in IF c \in Execs THEN {NoShell} ELSE (Callers \ {callerOf[c]}) \cup {NoShell} :
        from' = [from EXCEPT ![c] = o]
    /\ shellID' = [shellID EXCEPT ![c] = generateShellID(callerOf[c])]
    /\ stage' = [stage EXCEPT ![c] = "keyed"]
    /\ UNCHANGED <<ptmx, encKeys, tokens, pty, authID, crowded, ended>>

\* setupEncryption: the key is stored and the public key sent.
setupEncryption(c) ==
    /\ stage[c] = "keyed"
    /\ encKeys' = [encKeys EXCEPT ![shellID[c]] = c]
    /\ stage' = [stage EXCEPT ![c] = "sizing"]
    /\ UNCHANGED <<ptmx, tokens, shellID, from, pty, authID, crowded, ended>>

\* setupEncryption fails: no key was derived.
setupEncryptionFails(c) ==
    /\ stage[c] = "keyed"
    /\ stage' = [stage EXCEPT ![c] = "failed"]
    /\ from' = [from EXCEPT ![c] = NoShell]
    /\ UNCHANGED <<ptmx, encKeys, tokens, shellID, pty, authID, crowded, ended>>

\* sendMigrationToken, for shells only; without randomness no token is issued.
sendMigrationToken(c) ==
    /\ stage[c] = "sizing"
    /\ \/ /\ c \notin Execs
          /\ tokens' = [tokens EXCEPT ![shellID[c]] = c]
       \/ UNCHANGED tokens
    /\ stage' = [stage EXCEPT ![c] = "starting"]
    /\ UNCHANGED <<ptmx, encKeys, shellID, from, pty, authID, crowded, ended>>

\* The id the SIZE message of c asks for.
OldId(c) == idOf[<<from[c], 0>>]

\* There is a live shell to take over.
CanTakeOver(c) ==
    /\ from[c] # NoShell
    /\ ptmx[OldId(c)] # NoShell
    /\ encKeys[OldId(c)] # NoShell

\* PTYs that meet under id i when p is stored there.
Meeting(p, i) ==
    {q \in Ptys \ {p} : q = ptmx[i]}
        \cup {q \in {p} : \E o \in Ptys \ {p} : pty[o].reading /\ pty[o].id = i}

\* startPtySession: a process is started, then the PTY stored and its reader started.
startPtySession(c) ==
    /\ \E p \in Ptys : pty[p].state = "unused"
    /\ LET p == CHOOSE q \in Ptys : pty[q].state = "unused"
       IN  /\ pty' = [pty EXCEPT ![p] = [state |-> "running", id |-> shellID[c], starter |-> c,
                                         inv |-> c, reading |-> TRUE]]
           /\ ptmx' = [ptmx EXCEPT ![shellID[c]] = p]
           /\ crowded' = crowded \cup Meeting(p, shellID[c])

\* SIZE without a shell to take over: a process of its own.
StartShell(c) ==
    /\ stage[c] = "starting"
    /\ ~CanTakeOver(c)
    /\ startPtySession(c)
    /\ stage' = [stage EXCEPT ![c] = "open"]
    /\ from' = [from EXCEPT ![c] = NoShell]
    /\ UNCHANGED <<encKeys, tokens, shellID, authID, ended>>

\* The process cannot be started.
StartShellFails(c) ==
    /\ stage[c] = "starting"
    /\ ~CanTakeOver(c)
    /\ stage' = [stage EXCEPT ![c] = "failed"]
    /\ from' = [from EXCEPT ![c] = NoShell]
    /\ UNCHANGED <<ptmx, encKeys, tokens, shellID, pty, authID, crowded, ended>>

\* Mutant: the authid of the caller is not compared.
MayMigrateAnyone(c, blob, fresh) ==
    /\ fresh
    /\ blob # NoShell /\ blob = tokens[OldId(c)]
    /\ encKeys[OldId(c)] = blob

\* The migration token.  blob is the ciphertext the call presents, identified with the call it
\* was made for, and may have been overheard; it opens only under the key stored for the old
\* shell.  fresh: migrationTokenTTL has not passed.
MayMigrate(c, blob, fresh) ==
    /\ fresh
    /\ blob # NoShell /\ blob = tokens[OldId(c)]
    /\ encKeys[OldId(c)] = blob
    /\ UserOf(pty[ptmx[OldId(c)]].starter) = UserOf(c)

\* Mutant: the PTY leaves its old id and is not stored under the new one.
MoveForgets(c) ==
    LET p == ptmx[OldId(c)]
    IN  /\ ptmx' = [ptmx EXCEPT ![OldId(c)] = NoShell]
        /\ encKeys' = [encKeys EXCEPT ![OldId(c)] = NoShell]
        /\ tokens' = [tokens EXCEPT ![OldId(c)] = NoShell]
        /\ pty' = [pty EXCEPT ![p].inv = c]
        /\ crowded' = crowded \cup Meeting(p, shellID[c])

\* The live PTY changes hands: its output goes to c from now on.
Move(c) ==
    LET p == ptmx[OldId(c)]
    IN  /\ ptmx' = [ptmx EXCEPT ![OldId(c)] = NoShell, ![shellID[c]] = p]
        /\ encKeys' = [encKeys EXCEPT ![OldId(c)] = NoShell]
        /\ tokens' = [tokens EXCEPT ![OldId(c)] = NoShell]
        /\ pty' = [pty EXCEPT ![p].inv = c]
        /\ crowded' = crowded \cup Meeting(p, shellID[c])

\* SIZE with session-id and a valid token.
Migrate(c) ==
    /\ stage[c] = "starting"
    /\ CanTakeOver(c)
    /\ \E blob \in Calls, fresh \in BOOLEAN : MayMigrate(c, blob, fresh)
    /\ Move(c)
    /\ stage' = [stage EXCEPT ![c] = "open"]
    /\ from' = [from EXCEPT ![c] = NoShell]
    /\ UNCHANGED <<shellID, authID, ended>>

\* SIZE with session-id and a token that is missing, stale or somebody else's.
MigrateRefused(c) ==
    /\ stage[c] = "starting"
    /\ CanTakeOver(c)
    /\ \E blob \in Calls \cup {NoShell}, fresh \in BOOLEAN : ~MayMigrate(c, blob, fresh)
    /\ stage' = [stage EXCEPT ![c] = "failed"]
    /\ from' = [from EXCEPT ![c] = NoShell]
    /\ UNCHANGED <<ptmx, encKeys, tokens, shellID, pty, authID, crowded, ended>>

\* Input that can be decrypted and has a PTY: it is written, which changes nothing here.  With a
\* key and without a PTY a shell call starts another process; an exec call fails.  The client
\* types once it has the public key, which is while the first message is still being handled.
InputWithoutPty(c) ==
    /\ stage[c] \in {"sizing", "starting", "open"} /\ ~ended[c]
    /\ encKeys[shellID[c]] = c
    /\ ptmx[shellID[c]] = NoShell
    /\ c \notin Execs
    /\ startPtySession(c)
    /\ UNCHANGED <<encKeys, tokens, shellID, stage, from, authID, ended>>

\* decryptProgress fails: no key is stored for the shell, or another one.  The call ends with an
\* error and nothing is cleaned up.
DecryptFails(c) ==
    /\ stage[c] = "open" /\ ~ended[c]
    /\ encKeys[shellID[c]] # c
    /\ stage' = [stage EXCEPT ![c] = "failed"]
    /\ UNCHANGED <<ptmx, encKeys, tokens, shellID, from, pty, authID, crowded, ended>>

\* Input cannot be written: handleExec has no PTY to write to, or the process is gone.  The call
\* ends with an error and nothing is cleaned up.
WriteFails(c) ==
    /\ stage[c] = "open" /\ ~ended[c]
    /\ encKeys[shellID[c]] = c
    /\ \/ ptmx[shellID[c]] = NoShell /\ c \in Execs
       \/ ptmx[shellID[c]] # NoShell /\ pty[ptmx[shellID[c]]].state # "running"
    /\ stage' = [stage EXCEPT ![c] = "failed"]
    /\ UNCHANGED <<ptmx, encKeys, tokens, shellID, from, pty, authID, crowded, ended>>

\* The final message: cleanupShell, perhaps before the first message has started the process.
cleanupShell(c) ==
    /\ stage[c] # "idle" /\ shellID[c] # NoShell /\ ~ended[c]
    /\ pty' = [p \in Ptys |->
                IF p = ptmx[shellID[c]] THEN [pty[p] EXCEPT !.state = "closed"] ELSE pty[p]]
    /\ ptmx' = [ptmx EXCEPT ![shellID[c]] = NoShell]
    /\ encKeys' = [encKeys EXCEPT ![shellID[c]] = NoShell]
    /\ tokens' = [tokens EXCEPT ![shellID[c]] = NoShell]
    /\ ended' = [ended EXCEPT ![c] = TRUE]
    /\ UNCHANGED <<shellID, from, authID, crowded, stage>>

\* The process exits.
ProcessExits(p) ==
    /\ pty[p].state = "running"
    /\ pty' = [pty EXCEPT ![p].state = "exited"]
    /\ UNCHANGED <<ptmx, encKeys, tokens, shellID, stage, from, authID, crowded, ended>>

\* The reader's read fails: it deletes what is stored under the id the PTY was started with, and
\* closes the PTY if it was still stored there.
ReaderEnds(p) ==
    /\ pty[p].reading
    /\ pty[p].state \in {"exited", "closed"}
    /\ LET i == pty[p].id
       IN  /\ pty' = [pty EXCEPT ![p].reading = FALSE,
                                 ![p].state = IF ptmx[i] = p THEN "closed" ELSE @]
           /\ ptmx' = [ptmx EXCEPT ![i] = NoShell]
           /\ encKeys' = [encKeys EXCEPT ![i] = NoShell]
    /\ UNCHANGED <<tokens, shellID, stage, from, authID, crowded, ended>>

-----------------------------------------------------------------------------
CallStep(c) ==
    \/ FirstMessage(c) \/ setupEncryption(c) \/ setupEncryptionFails(c) \/ sendMigrationToken(c)
    \/ StartShell(c) \/ StartShellFails(c) \/ Migrate(c) \/ MigrateRefused(c)
    \/ InputWithoutPty(c) \/ DecryptFails(c) \/ WriteFails(c) \/ cleanupShell(c)

ShellNext ==
    \/ \E c \in Calls : CallStep(c)
    \/ \E p \in Ptys : ProcessExits(p) \/ ReaderEnds(p)

-----------------------------------------------------------------------------
(* Properties. *)

\* The call a shell's output is sent to belongs to the user who started the shell, whatever
\* migrations were asked for.
OutputStaysWithUser ==
    \A p \in Ptys : pty[p].state # "unused" => UserOf(pty[p].starter) = UserOf(pty[p].inv)

\* A PTY is stored under one id at most: no two calls type into the same shell, and closing one
\* cannot pull a PTY from under the other.
StoredUnderOneId ==
    \A i, j \in Ids : ptmx[i] # NoShell /\ ptmx[i] = ptmx[j] => i = j

\* What is stored has not been closed: a handler that finds a PTY finds an open one.
StoredIsOpen == \A i \in Ids : ptmx[i] # NoShell => pty[ptmx[i]].state # "closed"

\* A running shell that no id leads to, which nobody can close, met another one under its id.
\* Either the other one was stored over it: two first messages had the id, which is free until the
\* first one's process is started, or input came before that.  Or it was stored before the reader
\* of an earlier shell of the id had ended, which then deletes whatever it finds there.  A shell
\* that was alone under its id is never lost.
LostOnlyInACrowd ==
    \A p \in Ptys \ crowded : pty[p].state = "running" => \E i \in Ids : ptmx[i] = p

\* No shell that is alone under its id gets out of reach: it is stored under one id, what is stored
\* can be used, and a running shell stays stored, whatever order start, migration, the final
\* message and the output reader's cleanup take (handleShell, cleanupShell, startOutputReader).
ShellsWithinReach == ShellTypeOK /\ StoredUnderOneId /\ StoredIsOpen /\ LostOnlyInACrowd
=============================================================================
