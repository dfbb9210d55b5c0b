--------------------------- MODULE Authenticator ---------------------------
(***************************************************************************)
(* The keys that may log in to a device (auth.go).  An Authenticator keeps *)
(* the principals in memory; principals.json holds a copy that the next    *)
(* start of the daemon reads.  The cloud owns the truth: the daemon lists  *)
(* the keys after it has connected and then follows the events key.add and *)
(* key.remove.  Every run of runDeviceSession has an Authenticator of its  *)
(* own; the file is shared.                                                *)
(*                                                                         *)
(* Roles are left out: no event changes the role of a known principal.  A  *)
(* principal is the set of its keys, since a key that is listed twice is   *)
(* accepted and removed like one that is listed once; no principal has an  *)
(* empty list, so {} stands for no entry.                                  *)
(***************************************************************************)
EXTENDS Naturals, Sequences

CONSTANTS
  Cycles,     \* runs of runDeviceSession, each with its Authenticator
  AuthIds,
  Keys,
  MaxEvents,  \* bound: events on their way to one session
  NilPointer

ASSUME AuthAssumption == NilPointer \notin Keys /\ MaxEvents \in Nat \ {0}

VARIABLES
  granted,            \* the cloud's list of keys
  principalByAuthID,  \* per authenticator: its principals in memory
  principalsFile,     \* principals.json
  fileExists,         \* principals.json is there and can be read
  events,             \* per authenticator: events published, not yet handled
  subscribed,         \* per authenticator: topics its session is subscribed to, after
                      \* "list", which says that it has listed the keys
  missed,             \* per authenticator: removals it will never carry out
  diverged            \* per authenticator: the file was not written with it

authVars == <<granted, principalByAuthID, principalsFile, fileExists, events,
              subscribed, missed, diverged>>

Topics == {"list", "add", "remove"}
Absent == {}
NilEntry == {NilPointer}    \* an entry whose principal is a nil pointer
Event == [topic : Topics, keys : [AuthIds -> SUBSET Keys]]
NoPrincipals == [a \in AuthIds |-> Absent]

AuthTypeOK ==
  /\ granted \in [AuthIds -> SUBSET Keys]
  /\ principalByAuthID \in [Cycles -> [AuthIds -> (SUBSET Keys) \cup {NilEntry}]]
  /\ principalsFile \in [AuthIds -> SUBSET Keys]
  /\ fileExists \in BOOLEAN
  /\ fileExists \/ principalsFile = NoPrincipals
  /\ events \in [Cycles -> Seq(Event)]
  /\ \A c \in Cycles : Len(events[c]) <= MaxEvents
  /\ subscribed \in [Cycles -> SUBSET Topics]
  /\ missed \in [Cycles -> SUBSET (AuthIds \X Keys)]
  /\ diverged \in [Cycles -> BOOLEAN]

AuthInit ==
  /\ granted \in [AuthIds -> SUBSET Keys]
  /\ principalByAuthID = [c \in Cycles |-> NoPrincipals]
  /\ principalsFile = NoPrincipals
  /\ fileExists = FALSE
  /\ events = [c \in Cycles |-> <<>>]
  /\ subscribed = [c \in Cycles |-> {}]
  /\ missed = [c \in Cycles |-> {}]
  /\ diverged = [c \in Cycles |-> FALSE]

-----------------------------------------------------------------------------
\* The keys for which Authenticate succeeds.
Authenticate(c, a) == principalByAuthID[c][a] \cap Keys

\* NewAuthenticator with what ReadPrincipalsFromFile returns.
NewAuthenticator(c) ==
  /\ principalByAuthID' = [principalByAuthID EXCEPT ![c] = principalsFile]
  /\ missed' = [missed EXCEPT ![c] = {}]
  /\ diverged' = [diverged EXCEPT ![c] = FALSE]

\* The authenticators `gone` are no longer reachable.
Discard(gone) ==
  /\ principalByAuthID' = [c \in Cycles |->
                             IF c \in gone THEN NoPrincipals ELSE principalByAuthID[c]]
  /\ events' = [c \in Cycles |-> IF c \in gone THEN <<>> ELSE events[c]]
  /\ subscribed' = [c \in Cycles |-> IF c \in gone THEN {} ELSE subscribed[c]]
  /\ missed' = [c \in Cycles |-> IF c \in gone THEN {} ELSE missed[c]]
  /\ diverged' = [c \in Cycles |-> c \notin gone /\ diverged[c]]

\* The session of c ends, and with it its subscriptions and pending events.
Unsubscribe(c) ==
  /\ events' = [events EXCEPT ![c] = <<>>]
  /\ subscribed' = [subscribed EXCEPT ![c] = {}]
  /\ missed' = [missed EXCEPT ![c] = {}]

-----------------------------------------------------------------------------
(* The cloud (external): it publishes each change to those who listen.     *)

Publish(topic, keys) ==
  /\ \A c \in Cycles : topic \in subscribed[c] => Len(events[c]) < MaxEvents
  /\ events' = [c \in Cycles |->
                  IF topic \in subscribed[c]
                    THEN Append(events[c], [topic |-> topic, keys |-> keys])
                    ELSE events[c]]

Grant(a, k) ==
  /\ k \notin granted[a]
  /\ granted' = [granted EXCEPT ![a] = @ \cup {k}]
  /\ Publish("add", [b \in AuthIds |-> IF b = a THEN {k} ELSE {}])
  /\ UNCHANGED <<principalByAuthID, principalsFile, fileExists, subscribed, missed, diverged>>

Pairs(keys) == {p \in AuthIds \X Keys : p[2] \in keys[p[1]]}

Revoke(keys) ==
  /\ \E a \in AuthIds : keys[a] # {}
  /\ \A a \in AuthIds : keys[a] \subseteq granted[a]
  /\ granted' = [a \in AuthIds |-> granted[a] \ keys[a]]
  /\ Publish("remove", keys)
  /\ missed' = [c \in Cycles |-> IF subscribed[c] \cap {"list", "remove"} = {"list"}
                                   THEN missed[c] \cup Pairs(keys)
                                   ELSE missed[c]]
  /\ UNCHANGED <<principalByAuthID, principalsFile, fileExists, subscribed, diverged>>

-----------------------------------------------------------------------------
(* What the daemon does.  A write of the file may fail, which is logged; a *)
(* write by one authenticator sets the others apart from the file.         *)

\* `whole`: memory gets the same list, so older differences end.
WriteFile(c, principals, whole) ==
  \/ /\ principalsFile' = principals
     /\ fileExists' = TRUE
     /\ diverged' = [d \in Cycles |-> IF d = c THEN diverged[c] /\ ~whole
                                             ELSE principalByAuthID[d] # NoPrincipals]
  \/ /\ diverged' = [diverged EXCEPT ![c] = TRUE]
     /\ UNCHANGED <<principalsFile, fileExists>>

\* The list of ListKeys is written to the file and handed to SetPrincipals.  It
\* was fetched before: what is revoked from then on has to come as an event.
SetPrincipals(c) ==
  /\ principalByAuthID' = [principalByAuthID EXCEPT ![c] = granted]
  /\ missed' = [missed EXCEPT ![c] = {}]
  /\ WriteFile(c, granted, TRUE)
  /\ subscribed' = [subscribed EXCEPT ![c] = {"list"}]
  /\ UNCHANGED <<granted, events>>

\* SubscribeEvents: the second subscription is made only after the first.
SubscribeEvents(c) ==
  /\ \E topics \in {{}, {"add"}, {"add", "remove"}} :
       subscribed' = [subscribed EXCEPT ![c] = @ \cup topics]
  /\ UNCHANGED <<granted, principalByAuthID, principalsFile, fileExists, events,
                 missed, diverged>>

IsNext(c, topic) == events[c] # <<>> /\ Head(events[c]).topic = topic
Handled(c) == events' = [events EXCEPT ![c] = Tail(@)]

\* Mutant: a key for a known principal is not written to the file.
handleAddKeyMemoryOnly(c) ==
  /\ IsNext(c, "add")
  /\ Handled(c)
  /\ \E a \in AuthIds :
       LET keys == Head(events[c]).keys[a] IN
       /\ keys # {}
       /\ principalByAuthID' =
            [principalByAuthID EXCEPT ![c][a] = IF @ \in {Absent, NilEntry} THEN NilEntry
                                                                            ELSE @ \cup keys]
  /\ UNCHANGED <<granted, principalsFile, fileExists, diverged, subscribed, missed>>

\* An unknown authid gets an entry in the file but a nil pointer in memory, and
\* so the next key for it makes the handler panic before it changes anything.
handleAddKey(c) ==
  /\ IsNext(c, "add")
  /\ Handled(c)
  /\ \E a \in AuthIds :
       LET keys == Head(events[c]).keys[a]
           entry == principalByAuthID[c][a] IN
       /\ keys # {}
       /\ IF entry = NilEntry
            THEN UNCHANGED <<principalByAuthID, principalsFile, fileExists, diverged>>
            ELSE /\ principalByAuthID' =
                      [principalByAuthID EXCEPT
                         ![c][a] = IF entry = Absent THEN NilEntry ELSE entry \cup keys]
                 /\ IF fileExists
                      THEN WriteFile(c, [principalsFile EXCEPT ![a] = @ \cup keys], FALSE)
                      ELSE /\ diverged' = [diverged EXCEPT ![c] = TRUE]
                           /\ UNCHANGED <<principalsFile, fileExists>>
  /\ UNCHANGED <<granted, subscribed, missed>>

Left(c, a, keys) == Authenticate(c, a) \ keys[a]

\* Mutant: the last key of a principal is skipped with `continue` in memory too.
RemoveFromMemoryNotLast(c, keys, done) ==
  principalByAuthID' = [principalByAuthID EXCEPT
    ![c] = [a \in AuthIds |-> IF a \in done /\ Left(c, a, keys) # {}
                                THEN Left(c, a, keys) ELSE @[a]]]

\* The loop of handleRemoveKey over the authids of the event.
RemoveFromMemory(c, keys, done) ==
  principalByAuthID' = [principalByAuthID EXCEPT
    ![c] = [a \in AuthIds |-> IF a \in done THEN Left(c, a, keys) ELSE @[a]]]

\* Without a readable file nothing is removed.  A principal that loses its last
\* key is deleted from memory and left in the file.  A nil entry makes the
\* handler panic: the authids it came to earlier have been dealt with.
handleRemoveKey(c) ==
  /\ IsNext(c, "remove")
  /\ Handled(c)
  /\ LET keys == Head(events[c]).keys
         named == {a \in AuthIds : keys[a] # {}}
         known == {a \in named : principalByAuthID[c][a] \notin {Absent, NilEntry}}
         nils == {a \in named : principalByAuthID[c][a] = NilEntry} IN
     \/ /\ ~fileExists
        /\ missed' = [missed EXCEPT ![c] = @ \cup Pairs(keys)]
        /\ UNCHANGED <<principalByAuthID, principalsFile, fileExists, diverged>>
     \/ /\ fileExists /\ nils # {}
        /\ \E done \in SUBSET known :
             /\ RemoveFromMemory(c, keys, done)
             /\ diverged' = [diverged EXCEPT ![c] = @ \/ done # {}]
             /\ missed' = [missed EXCEPT
                  ![c] = @ \cup {p \in Pairs(keys) : p[1] \notin done}]
        /\ UNCHANGED <<principalsFile, fileExists>>
     \/ /\ fileExists /\ nils = {}
        /\ RemoveFromMemory(c, keys, known)
        /\ WriteFile(c, [a \in AuthIds |->
             IF a \in known /\ Left(c, a, keys) # {} /\ principalsFile[a] # Absent
               THEN Left(c, a, keys) ELSE principalsFile[a]], FALSE)
        /\ UNCHANGED missed
  /\ UNCHANGED <<granted, subscribed>>

-----------------------------------------------------------------------------
(* A revoked key is refused: what a connected device accepts is granted by *)
(* the cloud, unless the removal is on its way, was published before the   *)
(* device listened (auth.go:197, between ListKeys and the subscription) or *)
(* could not be carried out because principals.json was unreadable.        *)
RevokedIsRefused ==
  \A c \in Cycles : "remove" \in subscribed[c] =>
    \A a \in AuthIds : \A k \in Authenticate(c, a) :
      \/ k \in granted[a]
      \/ <<a, k>> \in missed[c]
      \/ \E i \in DOMAIN events[c] :
           /\ events[c][i].topic = "remove"
           /\ k \in events[c][i].keys[a]

(* The two copies agree on every principal that memory knows, unless a     *)
(* write failed or another cycle wrote the file: a restart while the cloud *)
(* cannot be reached neither locks out a user of such a principal nor lets *)
(* in a key that was taken from it (auth.go:110-133 and 174-194).          *)
CopiesAgree ==
  \A c \in Cycles, a \in AuthIds :
    ~diverged[c] /\ principalByAuthID[c][a] \notin {Absent, NilEntry}
      => principalsFile[a] = principalByAuthID[c][a]
=============================================================================
