------------------------- MODULE DeviceDaemonProofs -------------------------
(***************************************************************************)
(* Proofs about the daemon of a device and its authenticators, for any     *)
(* number of cycles, users and keys, of events on their way and of changes *)
(* by users.                                                               *)
(***************************************************************************)
EXTENDS DeviceDaemon, TLAPS

\* A key that the cloud has taken back is on its way out, or its removal was missed: the event
\* comes after the i-th one of the queue.
Accounted(c, a, k, i) ==
  \/ k \in granted[a]
  \/ <<a, k>> \in missed[c]
  \/ \E j \in DOMAIN events[c] :
       j > i /\ events[c][j].topic = "remove" /\ k \in events[c][j].keys[a]

\* A device that has listed the keys accounts for those it accepts, and for those that an
\* event in its queue is about to add.
KeysAccounted(c) ==
  \A a \in AuthIds :
    /\ \A k \in Authenticate(c, a) : Accounted(c, a, k, 0)
    /\ \A i \in DOMAIN events[c] : events[c][i].topic = "add" =>
         \A k \in events[c][i].keys[a] : Accounted(c, a, k, i)

KeysInd == \A c \in Cycles : subscribed[c] # {} => KeysAccounted(c)

\* Events come to those who have listed the keys.
EventsInd ==
  \A c \in Cycles :
    /\ subscribed[c] = {} => events[c] = <<>>
    /\ subscribed[c] # {} => "list" \in subscribed[c]

AuthInd == AuthTypeOK /\ EventsInd /\ KeysInd /\ CopiesAgree

-----------------------------------------------------------------------------
(* The authenticator's operations.                                         *)

\* The first event of a queue is taken.
LEMMA TailOfQueue ==
  ASSUME NEW q \in Seq(Event), q # <<>>
  PROVE  /\ Tail(q) \in Seq(Event) /\ Len(Tail(q)) = Len(q) - 1
         /\ Head(q) = q[1] /\ Head(q) \in Event
         /\ Len(q) \in Nat \ {0} /\ DOMAIN q = 1 .. Len(q) /\ DOMAIN Tail(q) = 1 .. Len(q) - 1
         /\ \A j \in DOMAIN Tail(q) : Tail(q)[j] = q[j + 1]
OBVIOUS

\* A device starts without events, and without principals.
LEMMA AuthInitial == AuthInit => AuthInd
<1> SUFFICES ASSUME AuthInit PROVE AuthInd
  OBVIOUS
<1>1. events \in [Cycles -> Seq(Event)] /\ \A c \in Cycles : Len(events[c]) = 0
  BY DEF AuthInit
<1>2. NoPrincipals \in [AuthIds -> SUBSET Keys]
  BY DEF NoPrincipals, Absent
<1>3. principalByAuthID \in [Cycles -> [AuthIds -> (SUBSET Keys) \cup {NilEntry}]]
  BY <1>2 DEF AuthInit
<1>4. AuthTypeOK
  <2>1. \A c \in Cycles : Len(events[c]) <= MaxEvents
    <3>1. 0 <= MaxEvents
      BY AuthAssumption
    <3> QED
      BY <1>1, <3>1
  <2>2. /\ subscribed \in [Cycles -> SUBSET Topics]
        /\ missed \in [Cycles -> SUBSET (AuthIds \X Keys)]
        /\ diverged \in [Cycles -> BOOLEAN]
    BY DEF AuthInit
  <2> QED
    BY <1>1, <1>2, <1>3, <2>1, <2>2 DEF AuthInit, AuthTypeOK
<1>5. EventsInd /\ KeysInd
  BY DEF AuthInit, EventsInd, KeysInd
<1>6. CopiesAgree
  BY DEF AuthInit, CopiesAgree, NoPrincipals
<1> QED
  BY <1>4, <1>5, <1>6 DEF AuthInd

\* A step that leaves the authenticators alone.
LEMMA AuthQuiet ==
  ASSUME AuthInd, UNCHANGED authVars
  PROVE  AuthInd'
<1> USE DEF authVars
<1>1. AuthTypeOK'
  BY DEF AuthInd, AuthTypeOK
<1>2. EventsInd'
  BY DEF AuthInd, EventsInd
<1>3. KeysInd'
  BY DEF AuthInd, KeysInd, KeysAccounted, Accounted, Authenticate
<1>4. CopiesAgree'
  BY DEF AuthInd, CopiesAgree
<1> QED
  BY <1>1, <1>2, <1>3, <1>4 DEF AuthInd

\* Authenticators are thrown away, or the session of one ends: nothing is left to account for.
LEMMA EndStep ==
  ASSUME AuthInd, NEW gone \in SUBSET Cycles,
         events' = [c \in Cycles |-> IF c \in gone THEN <<>> ELSE events[c]],
         subscribed' = [c \in Cycles |-> IF c \in gone THEN {} ELSE subscribed[c]],
         missed' = [c \in Cycles |-> IF c \in gone THEN {} ELSE missed[c]],
         \/ UNCHANGED <<principalByAuthID, diverged>>
         \/ /\ principalByAuthID' = [c \in Cycles |->
                 IF c \in gone THEN NoPrincipals ELSE principalByAuthID[c]]
            /\ diverged' = [c \in Cycles |-> c \notin gone /\ diverged[c]],
         UNCHANGED <<granted, principalsFile, fileExists>>
  PROVE  AuthInd'
<1>1. /\ events \in [Cycles -> Seq(Event)] /\ \A c \in Cycles : Len(events[c]) <= MaxEvents
      /\ AuthTypeOK /\ MaxEvents \in Nat
  BY AuthAssumption DEF AuthInd, AuthTypeOK
<1>2. /\ events' \in [Cycles -> Seq(Event)]
      /\ \A c \in Cycles : Len(events'[c]) <= MaxEvents
  <2>1. \A c \in Cycles : events'[c] \in Seq(Event) /\ Len(events'[c]) <= MaxEvents
    BY <1>1, <<>> \in Seq(Event), Len(<<>>) = 0
  <2> QED
    BY <2>1
<1>3. NoPrincipals \in [AuthIds -> (SUBSET Keys) \cup {NilEntry}]
  BY DEF NoPrincipals, Absent
<1>4. principalByAuthID' \in [Cycles -> [AuthIds -> (SUBSET Keys) \cup {NilEntry}]]
  BY <1>1, <1>3 DEF AuthTypeOK
<1>5. diverged' \in [Cycles -> BOOLEAN]
  BY <1>1 DEF AuthTypeOK
<1>6. AuthTypeOK'
  BY <1>1, <1>2, <1>4, <1>5 DEF AuthTypeOK
<1>7. EventsInd'
  BY DEF AuthInd, EventsInd
<1>8. KeysInd'
  <2> SUFFICES ASSUME NEW c \in Cycles, subscribed'[c] # {}
               PROVE  KeysAccounted(c)'
    BY DEF KeysInd
  <2>1. /\ c \notin gone /\ subscribed[c] # {}
        /\ events'[c] = events[c] /\ missed'[c] = missed[c]
        /\ principalByAuthID'[c] = principalByAuthID[c]
    OBVIOUS
  <2>2. KeysAccounted(c)
    BY <2>1 DEF AuthInd, KeysInd
  <2> QED
    BY <2>1, <2>2 DEF KeysAccounted, Accounted, Authenticate
<1>9. CopiesAgree'
  BY DEF AuthInd, CopiesAgree, NoPrincipals, Absent
<1> QED
  BY <1>6, <1>7, <1>8, <1>9 DEF AuthInd

\* The authenticators of cycles that nobody refers to are thrown away.
LEMMA DiscardStep ==
  ASSUME AuthInd, NEW gone \in SUBSET Cycles, Discard(gone),
         UNCHANGED <<granted, principalsFile, fileExists>>
  PROVE  AuthInd'
BY EndStep DEF Discard

\* A session ends, and with it its subscriptions and pending events.
LEMMA UnsubscribeStep ==
  ASSUME AuthInd, NEW c \in Cycles, Unsubscribe(c),
         UNCHANGED <<granted, principalByAuthID, principalsFile, fileExists, diverged>>
  PROVE  AuthInd'
<1>1. /\ events' = [d \in Cycles |-> IF d \in {c} THEN <<>> ELSE events[d]]
      /\ subscribed' = [d \in Cycles |-> IF d \in {c} THEN {} ELSE subscribed[d]]
      /\ missed' = [d \in Cycles |-> IF d \in {c} THEN {} ELSE missed[d]]
  BY DEF Unsubscribe, AuthInd, AuthTypeOK
<1>2. {c} \in SUBSET Cycles
  OBVIOUS
<1> QED
  BY <1>1, <1>2, EndStep

\* A new authenticator has what the file has.
LEMMA NewAuthenticatorStep ==
  ASSUME AuthInd, NEW c \in Cycles, NewAuthenticator(c), subscribed[c] = {},
         UNCHANGED <<granted, principalsFile, fileExists, events, subscribed>>
  PROVE  AuthInd'
<1>1. AuthTypeOK'
  <2>1. principalsFile \in [AuthIds -> (SUBSET Keys) \cup {NilEntry}]
    BY DEF AuthInd, AuthTypeOK
  <2> QED
    BY <2>1 DEF NewAuthenticator, AuthInd, AuthTypeOK
<1>2. EventsInd'
  BY DEF AuthInd, EventsInd
<1>3. KeysInd'
  <2> SUFFICES ASSUME NEW d \in Cycles, subscribed[d] # {}
               PROVE  KeysAccounted(d)'
    BY DEF KeysInd
  <2>1. /\ KeysAccounted(d) /\ missed'[d] = missed[d]
        /\ principalByAuthID'[d] = principalByAuthID[d]
    BY DEF AuthInd, KeysInd, AuthTypeOK, NewAuthenticator
  <2> QED
    BY <2>1 DEF KeysAccounted, Accounted, Authenticate
<1>4. CopiesAgree'
  BY DEF NewAuthenticator, AuthInd, AuthTypeOK, CopiesAgree
<1> QED
  BY <1>1, <1>2, <1>3, <1>4 DEF AuthInd

\* A write of principals.json, or its failure, with what memory gets: the two agree.
LEMMA WriteKeepsCopies ==
  ASSUME AuthInd, NEW c \in Cycles, NEW mem \in [AuthIds -> (SUBSET Keys) \cup {NilEntry}],
         NEW file \in [AuthIds -> SUBSET Keys], NEW whole \in BOOLEAN,
         principalByAuthID' = [principalByAuthID EXCEPT ![c] = mem],
         WriteFile(c, file, whole),
         \A a \in AuthIds : (diverged[c] => whole) /\ mem[a] \notin {Absent, NilEntry}
                            => file[a] = mem[a]
  PROVE  /\ CopiesAgree'
         /\ principalByAuthID' \in [Cycles -> [AuthIds -> (SUBSET Keys) \cup {NilEntry}]]
         /\ principalsFile' \in [AuthIds -> SUBSET Keys] /\ fileExists' \in BOOLEAN
         /\ fileExists' \/ principalsFile' = NoPrincipals
         /\ diverged' \in [Cycles -> BOOLEAN]
<1>0. AuthTypeOK /\ CopiesAgree
  BY DEF AuthInd
<1>1. /\ principalByAuthID' \in [Cycles -> [AuthIds -> (SUBSET Keys) \cup {NilEntry}]]
      /\ principalByAuthID'[c] = mem
      /\ \A d \in Cycles : d # c => principalByAuthID'[d] = principalByAuthID[d]
  BY <1>0 DEF AuthTypeOK
<1>2. CASE /\ principalsFile' = file /\ fileExists' = TRUE
           /\ diverged' = [d \in Cycles |-> IF d = c THEN diverged[c] /\ ~whole
                                             ELSE principalByAuthID[d] # NoPrincipals]
  <2>1. diverged' \in [Cycles -> BOOLEAN]
    BY <1>0, <1>2 DEF AuthTypeOK
  <2>2. ASSUME NEW d \in Cycles, NEW a \in AuthIds, ~diverged'[d],
               principalByAuthID'[d][a] \notin {Absent, NilEntry}
        PROVE  principalsFile'[a] = principalByAuthID'[d][a]
    <3>1. CASE d = c
      BY <1>0, <1>1, <1>2, <2>2, <3>1 DEF AuthTypeOK
    <3>2. CASE d # c
      <4>1. principalByAuthID[d] = NoPrincipals
        BY <1>2, <2>2, <3>2
      <4> QED
        BY <1>1, <2>2, <3>2, <4>1 DEF NoPrincipals
    <3> QED
      BY <3>1, <3>2
  <2>3. CopiesAgree'
    BY <2>2 DEF CopiesAgree
  <2> QED
    BY <1>1, <1>2, <2>1, <2>3
<1>3. CASE /\ diverged' = [diverged EXCEPT ![c] = TRUE]
           /\ UNCHANGED <<principalsFile, fileExists>>
  <2>1. diverged' \in [Cycles -> BOOLEAN] /\ diverged'[c]
    BY <1>0, <1>3 DEF AuthTypeOK
  <2>2. \A d \in Cycles : d # c => diverged'[d] = diverged[d]
    BY <1>0, <1>3 DEF AuthTypeOK
  <2>3. CopiesAgree'
    BY <1>0, <1>1, <1>3, <2>1, <2>2 DEF CopiesAgree
  <2> QED
    BY <1>0, <1>1, <1>3, <2>1, <2>3 DEF AuthTypeOK
<1> QED
  BY <1>2, <1>3 DEF WriteFile

\* The list of keys replaces everything: what memory accepts is what the cloud grants.
LEMMA SetPrincipalsStep ==
  ASSUME AuthInd, NEW c \in Cycles, SetPrincipals(c), subscribed[c] = {}
  PROVE  AuthInd'
<1>0. AuthTypeOK /\ granted \in [AuthIds -> SUBSET Keys]
      /\ granted \in [AuthIds -> (SUBSET Keys) \cup {NilEntry}]
  BY DEF AuthInd, AuthTypeOK
<1>1. /\ CopiesAgree'
      /\ principalByAuthID' \in [Cycles -> [AuthIds -> (SUBSET Keys) \cup {NilEntry}]]
      /\ principalsFile' \in [AuthIds -> SUBSET Keys] /\ fileExists' \in BOOLEAN
      /\ fileExists' \/ principalsFile' = NoPrincipals
      /\ diverged' \in [Cycles -> BOOLEAN]
  BY <1>0, WriteKeepsCopies DEF SetPrincipals
<1>2. AuthTypeOK'
  BY <1>0, <1>1 DEF SetPrincipals, AuthTypeOK, Topics
<1>3. EventsInd'
  BY <1>0 DEF SetPrincipals, AuthInd, AuthTypeOK, EventsInd
<1>4. KeysInd'
  <2> SUFFICES ASSUME NEW d \in Cycles, subscribed'[d] # {}
               PROVE  KeysAccounted(d)'
    BY DEF KeysInd
  <2>1. CASE d = c
    <3>1. principalByAuthID'[d] = granted /\ granted' = granted /\ events'[d] = <<>>
      BY <1>0, <2>1 DEF SetPrincipals, AuthTypeOK, AuthInd, EventsInd
    <3>2. \A i : i \notin DOMAIN events'[d]
      BY <3>1
    <3> QED
      BY <3>1, <3>2 DEF KeysAccounted, Accounted, Authenticate
  <2>2. CASE d # c
    <3>1. /\ subscribed[d] # {} /\ KeysAccounted(d) /\ missed'[d] = missed[d]
          /\ principalByAuthID'[d] = principalByAuthID[d]
          /\ granted' = granted /\ events' = events
      BY <1>0, <2>2 DEF SetPrincipals, AuthTypeOK, AuthInd, KeysInd
    <3> QED
      BY <3>1 DEF KeysAccounted, Accounted, Authenticate
  <2> QED
    BY <2>1, <2>2
<1> QED
  BY <1>1, <1>2, <1>3, <1>4 DEF AuthInd

\* The subscriptions follow the list.
LEMMA SubscribeStep ==
  ASSUME AuthInd, NEW c \in Cycles, SubscribeEvents(c), "list" \in subscribed[c]
  PROVE  AuthInd'
<1>1. PICK topics \in {{}, {"add"}, {"add", "remove"}} :
        subscribed' = [subscribed EXCEPT ![c] = @ \cup topics]
  BY DEF SubscribeEvents
<1>2. \A d \in Cycles : subscribed[d] \subseteq subscribed'[d]
                        /\ (subscribed[d] = {} => subscribed'[d] = {})
  BY <1>1 DEF AuthInd, AuthTypeOK
<1>3. AuthTypeOK'
  <2>1. subscribed' \in [Cycles -> SUBSET Topics]
    BY <1>1 DEF AuthInd, AuthTypeOK, Topics
  <2> QED
    BY <2>1 DEF AuthInd, AuthTypeOK, SubscribeEvents
<1>4. EventsInd'
  BY <1>2 DEF AuthInd, EventsInd, SubscribeEvents
<1>5. KeysInd'
  BY <1>2 DEF AuthInd, KeysInd, KeysAccounted, Accounted, Authenticate, SubscribeEvents
<1>6. CopiesAgree'
  BY DEF AuthInd, CopiesAgree, SubscribeEvents
<1> QED
  BY <1>3, <1>4, <1>5, <1>6 DEF AuthInd

\* An event goes to the queues of those who have subscribed to its topic.
LEMMA PublishEffect ==
  ASSUME AuthInd, NEW topic \in Topics, NEW keys \in [AuthIds -> SUBSET Keys],
         Publish(topic, keys)
  PROVE  /\ events' \in [Cycles -> Seq(Event)]
         /\ \A c \in Cycles :
              /\ Len(events'[c]) <= MaxEvents
              /\ Len(events[c]) \in Nat /\ DOMAIN events[c] = 1 .. Len(events[c])
              /\ \A j \in DOMAIN events[c] : j \in DOMAIN events'[c] /\ events'[c][j] = events[c][j]
              /\ topic \notin subscribed[c] => events'[c] = events[c]
              /\ topic \in subscribed[c] =>
                   /\ DOMAIN events'[c] = 1 .. Len(events[c]) + 1
                   /\ events'[c][Len(events[c]) + 1] = [topic |-> topic, keys |-> keys]
<1> DEFINE e == [topic |-> topic, keys |-> keys]
<1>0. events \in [Cycles -> Seq(Event)] /\ \A c \in Cycles : Len(events[c]) <= MaxEvents
  BY DEF AuthInd, AuthTypeOK
<1>1. e \in Event
  BY DEF Event
<1>2. \A c \in Cycles :
        events'[c] = IF topic \in subscribed[c] THEN Append(events[c], e) ELSE events[c]
  BY DEF Publish
<1> HIDE DEF e
<1>3. ASSUME NEW c \in Cycles
      PROVE  /\ events'[c] \in Seq(Event)
             /\ Len(events'[c]) <= MaxEvents
             /\ Len(events[c]) \in Nat /\ DOMAIN events[c] = 1 .. Len(events[c])
             /\ \A j \in DOMAIN events[c] : j \in DOMAIN events'[c] /\ events'[c][j] = events[c][j]
             /\ topic \notin subscribed[c] => events'[c] = events[c]
             /\ topic \in subscribed[c] =>
                  /\ DOMAIN events'[c] = 1 .. Len(events[c]) + 1
                  /\ events'[c][Len(events[c]) + 1] = e
  <2>1. CASE topic \in subscribed[c]
    <3>1. events'[c] = Append(events[c], e) /\ events[c] \in Seq(Event)
      BY <1>0, <1>2, <2>1
    <3>2. Len(events[c]) < MaxEvents /\ MaxEvents \in Nat
      BY <2>1, AuthAssumption DEF Publish
    <3> QED
      BY <1>1, <2>1, <3>1, <3>2
  <2>2. CASE topic \notin subscribed[c]
    BY <1>0, <1>2, <2>2
  <2> QED
    BY <2>1, <2>2
<1>4. events' \in [Cycles -> Seq(Event)]
  BY <1>3 DEF Publish
<1> QED
  BY <1>3, <1>4 DEF e

\* What is accounted for stays so when events are added, unless the key is taken back.
LEMMA AccountStays ==
  ASSUME NEW c, NEW a, NEW k, NEW i, Accounted(c, a, k, i),
         \A j \in DOMAIN events[c] : j \in DOMAIN events'[c] /\ events'[c][j] = events[c][j],
         missed[c] \subseteq missed'[c],
         k \in granted[a] =>
           \/ k \in granted'[a]
           \/ <<a, k>> \in missed'[c]
           \/ \E j \in DOMAIN events'[c] :
                j > i /\ events'[c][j].topic = "remove" /\ k \in events'[c][j].keys[a]
  PROVE  Accounted(c, a, k, i)'
BY DEF Accounted

\* The cloud grants a key.
LEMMA GrantStep ==
  ASSUME AuthInd, NEW a \in AuthIds, NEW k \in Keys, Grant(a, k)
  PROVE  AuthInd'
<1> DEFINE keys == [b \in AuthIds |-> IF b = a THEN {k} ELSE {}]
<1>0. AuthTypeOK /\ keys \in [AuthIds -> SUBSET Keys] /\ Publish("add", keys) /\ "add" \in Topics
  BY DEF AuthInd, Grant, Topics
<1>1. /\ granted' \in [AuthIds -> SUBSET Keys]
      /\ \A b \in AuthIds : granted[b] \subseteq granted'[b] /\ keys[b] \subseteq granted'[b]
  BY <1>0 DEF Grant, AuthTypeOK
<1> HIDE DEF keys
<1>2. /\ events' \in [Cycles -> Seq(Event)]
      /\ \A c \in Cycles :
           /\ Len(events'[c]) <= MaxEvents
           /\ Len(events[c]) \in Nat /\ DOMAIN events[c] = 1 .. Len(events[c])
           /\ \A j \in DOMAIN events[c] : j \in DOMAIN events'[c] /\ events'[c][j] = events[c][j]
           /\ "add" \notin subscribed[c] => events'[c] = events[c]
           /\ "add" \in subscribed[c] =>
                /\ DOMAIN events'[c] = 1 .. Len(events[c]) + 1
                /\ events'[c][Len(events[c]) + 1] = [topic |-> "add", keys |-> keys]
  BY <1>0, PublishEffect
<1>3. AuthTypeOK'
  BY <1>0, <1>1, <1>2 DEF Grant, AuthTypeOK
<1>4. EventsInd'
  BY <1>2 DEF Grant, AuthInd, EventsInd
<1>5. KeysInd'
  <2> SUFFICES ASSUME NEW c \in Cycles, subscribed[c] # {}, NEW b \in AuthIds
               PROVE  /\ \A l \in Authenticate(c, b)' : Accounted(c, b, l, 0)'
                      /\ \A i \in DOMAIN events'[c] : events'[c][i].topic = "add" =>
                           \A l \in events'[c][i].keys[b] : Accounted(c, b, l, i)'
    BY DEF KeysInd, KeysAccounted, Grant
  <2>1. KeysAccounted(c)
    BY DEF AuthInd, KeysInd
  <2>2. \A l, i : Accounted(c, b, l, i) => Accounted(c, b, l, i)'
    BY <1>1, <1>2, AccountStays DEF Grant
  <2>3. Authenticate(c, b)' = Authenticate(c, b)
    BY DEF Authenticate, Grant
  <2>4. ASSUME NEW i \in DOMAIN events'[c], events'[c][i].topic = "add",
               NEW l \in events'[c][i].keys[b]
        PROVE  Accounted(c, b, l, i)'
    <3>1. CASE i \in DOMAIN events[c]
      BY <1>2, <2>1, <2>2, <2>4, <3>1 DEF KeysAccounted
    <3>2. CASE i \notin DOMAIN events[c]
      <4>1. events'[c][i] = [topic |-> "add", keys |-> keys]
        BY <1>2, <2>4, <3>2
      <4>2. l \in granted'[b]
        BY <1>1, <2>4, <4>1
      <4> QED
        BY <4>2 DEF Accounted
    <3> QED
      BY <3>1, <3>2
  <2> QED
    BY <2>1, <2>2, <2>3, <2>4 DEF KeysAccounted
<1>6. CopiesAgree'
  BY DEF AuthInd, CopiesAgree, Grant
<1> QED
  BY <1>3, <1>4, <1>5, <1>6 DEF AuthInd

\* The cloud takes keys back: those who listen get the event, the others miss it.
LEMMA RevokeStep ==
  ASSUME AuthInd, NEW keys \in [AuthIds -> SUBSET Keys], Revoke(keys)
  PROVE  AuthInd'
<1>0. AuthTypeOK /\ Publish("remove", keys) /\ "remove" \in Topics
  BY DEF AuthInd, Revoke, Topics
<1>1. /\ granted' \in [AuthIds -> SUBSET Keys]
      /\ \A b \in AuthIds : granted'[b] = granted[b] \ keys[b]
  BY <1>0 DEF Revoke, AuthTypeOK
<1>2. /\ events' \in [Cycles -> Seq(Event)]
      /\ \A c \in Cycles :
           /\ Len(events'[c]) <= MaxEvents
           /\ Len(events[c]) \in Nat /\ DOMAIN events[c] = 1 .. Len(events[c])
           /\ \A j \in DOMAIN events[c] : j \in DOMAIN events'[c] /\ events'[c][j] = events[c][j]
           /\ "remove" \notin subscribed[c] => events'[c] = events[c]
           /\ "remove" \in subscribed[c] =>
                /\ DOMAIN events'[c] = 1 .. Len(events[c]) + 1
                /\ events'[c][Len(events[c]) + 1] = [topic |-> "remove", keys |-> keys]
  BY <1>0, PublishEffect
<1>3. /\ missed' \in [Cycles -> SUBSET (AuthIds \X Keys)]
      /\ \A c \in Cycles : missed[c] \subseteq missed'[c]
      /\ \A c \in Cycles : subscribed[c] \cap {"list", "remove"} = {"list"}
           => Pairs(keys) \subseteq missed'[c]
  BY <1>0 DEF Revoke, AuthTypeOK, Pairs
<1>4. AuthTypeOK'
  BY <1>0, <1>1, <1>2, <1>3 DEF Revoke, AuthTypeOK
<1>5. EventsInd'
  BY <1>2 DEF Revoke, AuthInd, EventsInd
<1>6. KeysInd'
  <2> SUFFICES ASSUME NEW c \in Cycles, subscribed[c] # {}, NEW b \in AuthIds
               PROVE  /\ \A l \in Authenticate(c, b)' : Accounted(c, b, l, 0)'
                      /\ \A i \in DOMAIN events'[c] : events'[c][i].topic = "add" =>
                           \A l \in events'[c][i].keys[b] : Accounted(c, b, l, i)'
    BY DEF KeysInd, KeysAccounted, Revoke
  <2>1. KeysAccounted(c) /\ "list" \in subscribed[c]
    BY DEF AuthInd, KeysInd, EventsInd
  <2>2. ASSUME NEW l, NEW i \in 0 .. Len(events[c]), Accounted(c, b, l, i)
        PROVE  Accounted(c, b, l, i)'
    <3>1. ASSUME l \in granted[b], l \notin granted'[b]
          PROVE  \/ <<b, l>> \in missed'[c]
                 \/ \E j \in DOMAIN events'[c] :
                      j > i /\ events'[c][j].topic = "remove" /\ l \in events'[c][j].keys[b]
      <4>1. l \in keys[b] /\ l \in Keys
        BY <1>1, <3>1
      <4>2. CASE "remove" \in subscribed[c]
        <5>1. Len(events[c]) + 1 \in DOMAIN events'[c] /\ Len(events[c]) + 1 > i
          BY <1>2, <4>2
        <5>2. events'[c][Len(events[c]) + 1] = [topic |-> "remove", keys |-> keys]
          BY <1>2, <4>2
        <5> QED
          BY <4>1, <5>1, <5>2
      <4>3. CASE "remove" \notin subscribed[c]
        <5>1. subscribed[c] \cap {"list", "remove"} = {"list"}
          BY <2>1, <4>3
        <5>2. <<b, l>> \in Pairs(keys)
          BY <4>1 DEF Pairs
        <5> QED
          BY <1>3, <5>1, <5>2
      <4> QED
        BY <4>2, <4>3
    <3> QED
      BY <1>2, <1>3, <2>2, <3>1, AccountStays
  <2>3. Authenticate(c, b)' = Authenticate(c, b)
    BY DEF Authenticate, Revoke
  <2>4. ASSUME NEW i \in DOMAIN events'[c], events'[c][i].topic = "add",
               NEW l \in events'[c][i].keys[b]
        PROVE  Accounted(c, b, l, i)'
    <3>1. i \in DOMAIN events[c] /\ events'[c][i] = events[c][i]
      <4>1. CASE "remove" \notin subscribed[c]
        BY <1>2, <2>4, <4>1
      <4>2. CASE "remove" \in subscribed[c]
        <5>1. i \in 1 .. Len(events[c]) + 1 /\ Len(events[c]) \in Nat
          BY <1>2, <4>2
        <5>2. i # Len(events[c]) + 1
          BY <1>2, <2>4, <4>2
        <5> QED
          BY <1>2, <5>1, <5>2
      <4> QED
        BY <4>1, <4>2
    <3>2. i \in 0 .. Len(events[c])
      BY <1>2, <3>1
    <3>3. Accounted(c, b, l, i)
      BY <2>1, <2>4, <3>1 DEF KeysAccounted
    <3> QED
      BY <2>2, <3>2, <3>3
  <2>5. 0 \in 0 .. Len(events[c])
    BY <1>2
  <2> QED
    BY <2>1, <2>2, <2>3, <2>4, <2>5 DEF KeysAccounted
<1>7. CopiesAgree'
  BY DEF AuthInd, CopiesAgree, Revoke
<1> QED
  BY <1>4, <1>5, <1>6, <1>7 DEF AuthInd

\* A handler has taken its event: the others move up, and what they account for they still do.
LEMMA HandledEffect ==
  ASSUME AuthInd, NEW c \in Cycles, NEW topic, IsNext(c, topic), Handled(c)
  PROVE  LET e == Head(events[c]) IN
         /\ events' \in [Cycles -> Seq(Event)]
         /\ e \in Event /\ e.topic = topic
         /\ \A d \in Cycles : Len(events'[d]) <= MaxEvents /\ (d # c => events'[d] = events[d])
         /\ subscribed[c] # {}
         /\ events[c][1] = e /\ 1 \in DOMAIN events[c]
         /\ \A i \in DOMAIN events'[c] :
              /\ i \in Nat /\ i + 1 \in DOMAIN events[c] /\ events'[c][i] = events[c][i + 1]
         /\ \A j \in DOMAIN events[c] :
              j # 1 => j - 1 \in DOMAIN events'[c] /\ events'[c][j - 1] = events[c][j]
<1> DEFINE e == Head(events[c])
<1>0. /\ events \in [Cycles -> Seq(Event)] /\ events[c] # <<>>
      /\ \A d \in Cycles : Len(events[d]) <= MaxEvents
      /\ MaxEvents \in Nat
  BY AuthAssumption DEF AuthInd, AuthTypeOK, IsNext
<1>1. events'[c] = Tail(events[c]) /\ \A d \in Cycles : d # c => events'[d] = events[d]
  BY <1>0 DEF Handled
<1>2. /\ Tail(events[c]) \in Seq(Event) /\ Len(Tail(events[c])) = Len(events[c]) - 1
      /\ e = events[c][1] /\ e \in Event
      /\ Len(events[c]) \in Nat \ {0} /\ DOMAIN events[c] = 1 .. Len(events[c])
      /\ DOMAIN Tail(events[c]) = 1 .. Len(events[c]) - 1
      /\ \A j \in DOMAIN Tail(events[c]) : Tail(events[c])[j] = events[c][j + 1]
  BY <1>0, TailOfQueue
<1>3. e.topic = topic
  BY DEF IsNext
<1> HIDE DEF e
<1>4. \A i \in DOMAIN events'[c] :
        /\ i \in Nat /\ i + 1 \in DOMAIN events[c] /\ events'[c][i] = events[c][i + 1]
  BY <1>1, <1>2
<1>5. \A j \in DOMAIN events[c] :
        j # 1 => j - 1 \in DOMAIN events'[c] /\ events'[c][j - 1] = events[c][j]
  BY <1>1, <1>2
<1>6. events' \in [Cycles -> Seq(Event)]
  BY <1>0, <1>1, <1>2 DEF Handled
<1>7. Len(events[c]) <= MaxEvents /\ Len(events'[c]) <= MaxEvents
  BY <1>0, <1>1, <1>2
<1>8. \A d \in Cycles : Len(events'[d]) <= MaxEvents
  BY <1>0, <1>1, <1>7
<1>9. subscribed[c] # {}
  BY <1>0 DEF AuthInd, EventsInd
<1>10. 1 \in DOMAIN events[c]
  BY <1>2
<1> QED
  BY <1>1, <1>2, <1>3, <1>4, <1>5, <1>6, <1>8, <1>9, <1>10 DEF e

\* An account moves up with its events; only the event that was taken can be missing from it.
LEMMA AccountMoves ==
  ASSUME AuthInd, NEW c \in Cycles, NEW topic, IsNext(c, topic), Handled(c),
         UNCHANGED granted, missed[c] \subseteq missed'[c],
         NEW a, NEW k, NEW i \in Nat, NEW m \in Nat, m = IF i = 0 THEN 0 ELSE i - 1,
         Accounted(c, a, k, i)
  PROVE  \/ Accounted(c, a, k, m)'
         \/ i = 0 /\ topic = "remove" /\ k \in Head(events[c]).keys[a]
<1>1. /\ events[c][1] = Head(events[c]) /\ Head(events[c]).topic = topic
      /\ \A j \in DOMAIN events[c] :
           j # 1 => j - 1 \in DOMAIN events'[c] /\ events'[c][j - 1] = events[c][j]
      /\ \A j \in DOMAIN events[c] : j \in Nat \ {0}
  <2>1. events[c] \in Seq(Event)
    BY DEF AuthInd, AuthTypeOK
  <2>2. \A j \in DOMAIN events[c] : j \in Nat \ {0}
    BY <2>1
  <2> QED
    BY <2>2, HandledEffect
<1>2. CASE k \in granted[a] \/ <<a, k>> \in missed[c]
  BY <1>2 DEF Accounted
<1>3. ASSUME NEW j \in DOMAIN events[c], j > i,
             events[c][j].topic = "remove", k \in events[c][j].keys[a]
      PROVE  \/ Accounted(c, a, k, m)'
             \/ i = 0 /\ topic = "remove" /\ k \in Head(events[c]).keys[a]
  <2>1. CASE j = 1
    BY <1>1, <1>3, <2>1
  <2>2. CASE j # 1
    <3>1. j \in Nat \ {0} /\ j - 1 > m
      BY <1>1, <1>3, <2>2
    <3>2. /\ j - 1 \in DOMAIN events'[c] /\ events'[c][j - 1].topic = "remove"
          /\ k \in events'[c][j - 1].keys[a]
      BY <1>1, <1>3, <2>2
    <3> QED
      BY <3>1, <3>2 DEF Accounted
  <2> QED
    BY <2>1, <2>2
<1> QED
  BY <1>2, <1>3 DEF Accounted

\* What a handler leaves of the events and of the other authenticators.
LEMMA HandledKeys ==
  ASSUME AuthInd, NEW c \in Cycles, NEW topic, IsNext(c, topic), Handled(c),
         UNCHANGED <<granted, subscribed>>,
         \A d \in Cycles : missed[d] \subseteq missed'[d],
         \A d \in Cycles : d # c => principalByAuthID'[d] = principalByAuthID[d],
         \A a \in AuthIds : \A k \in Authenticate(c, a)' : Accounted(c, a, k, 0)'
  PROVE  EventsInd' /\ KeysInd'
<1>1. /\ \A d \in Cycles : d # c => events'[d] = events[d]
      /\ subscribed[c] # {}
      /\ \A i \in DOMAIN events'[c] :
           /\ i \in Nat /\ i + 1 \in DOMAIN events[c] /\ events'[c][i] = events[c][i + 1]
  BY HandledEffect
<1>2. EventsInd'
  BY <1>1 DEF AuthInd, EventsInd
<1>3. ASSUME NEW d \in Cycles, subscribed[d] # {}
      PROVE  KeysAccounted(d)'
  <2>0. KeysAccounted(d)
    BY <1>3 DEF AuthInd, KeysInd
  <2>1. CASE d = c
    <3>1. ASSUME NEW a \in AuthIds, NEW i \in DOMAIN events'[c], events'[c][i].topic = "add",
                 NEW k \in events'[c][i].keys[a]
          PROVE  Accounted(c, a, k, i)'
      <4>1. /\ i + 1 \in Nat /\ i + 1 # 0 /\ i \in Nat /\ i = (i + 1) - 1
            /\ i + 1 \in DOMAIN events[c] /\ events'[c][i] = events[c][i + 1]
        BY <1>1
      <4>2. Accounted(c, a, k, i + 1)
        BY <2>0, <2>1, <3>1, <4>1 DEF KeysAccounted
      <4> QED
        BY <4>1, <4>2, AccountMoves
    <3> QED
      BY <2>1, <3>1 DEF KeysAccounted
  <2>2. CASE d # c
    BY <1>1, <2>0, <2>2 DEF KeysAccounted, Accounted, Authenticate
  <2> QED
    BY <2>1, <2>2
<1> QED
  BY <1>2, <1>3 DEF KeysInd

\* key.add: a key that was taken back since it was granted has its removal behind it.
LEMMA AddKeyStep ==
  ASSUME AuthInd, NEW c \in Cycles, handleAddKey(c)
  PROVE  AuthInd'
<1>0. AuthTypeOK /\ IsNext(c, "add") /\ Handled(c) /\ UNCHANGED <<granted, subscribed, missed>>
  BY DEF AuthInd, handleAddKey
<1> DEFINE e == Head(events[c])
<1>1. /\ events' \in [Cycles -> Seq(Event)]
      /\ e \in Event /\ e.topic = "add" /\ subscribed[c] # {}
      /\ \A d \in Cycles : Len(events'[d]) <= MaxEvents
      /\ events[c][1] = e /\ 1 \in DOMAIN events[c]
  BY <1>0, HandledEffect
<1>2. e.keys \in [AuthIds -> SUBSET Keys]
  BY <1>1 DEF Event
<1>3. PICK a \in AuthIds :
        /\ e.keys[a] # {}
        /\ IF principalByAuthID[c][a] = NilEntry
             THEN UNCHANGED <<principalByAuthID, principalsFile, fileExists, diverged>>
             ELSE /\ principalByAuthID' =
                       [principalByAuthID EXCEPT
                          ![c][a] = IF principalByAuthID[c][a] = Absent
                                      THEN NilEntry ELSE principalByAuthID[c][a] \cup e.keys[a]]
                  /\ IF fileExists
                       THEN WriteFile(c, [principalsFile EXCEPT ![a] = @ \cup e.keys[a]], FALSE)
                       ELSE /\ diverged' = [diverged EXCEPT ![c] = TRUE]
                            /\ UNCHANGED <<principalsFile, fileExists>>
  BY DEF handleAddKey
<1> HIDE DEF e
<1> DEFINE mem == [principalByAuthID[c] EXCEPT
                     ![a] = IF principalByAuthID[c][a] = Absent
                              THEN NilEntry ELSE principalByAuthID[c][a] \cup e.keys[a]]
           file == [principalsFile EXCEPT ![a] = @ \cup e.keys[a]]
<1>4. principalByAuthID[c] \in [AuthIds -> (SUBSET Keys) \cup {NilEntry}]
  BY <1>0 DEF AuthTypeOK
<1>5. CASE principalByAuthID[c][a] = NilEntry
  <2>1. UNCHANGED <<principalByAuthID, principalsFile, fileExists, diverged>>
    BY <1>3, <1>5
  <2>2. AuthTypeOK'
    BY <1>0, <1>1, <2>1 DEF AuthTypeOK
  <2>3. CopiesAgree'
    BY <2>1 DEF AuthInd, CopiesAgree
  <2>4. ASSUME NEW b \in AuthIds, NEW k \in Authenticate(c, b)'
        PROVE  Accounted(c, b, k, 0)'
    <3>1. Accounted(c, b, k, 0)
      BY <1>1, <2>1 DEF AuthInd, KeysInd, KeysAccounted, Authenticate
    <3> QED
      BY <1>0, <3>1, AccountMoves
  <2>5. EventsInd' /\ KeysInd'
    BY <1>0, <2>1, <2>4, HandledKeys
  <2> QED
    BY <2>2, <2>3, <2>5 DEF AuthInd
<1>6. CASE principalByAuthID[c][a] # NilEntry
  <2>1. principalByAuthID[c][a] \in SUBSET Keys
    BY <1>4, <1>6
  <2>2. /\ mem \in [AuthIds -> (SUBSET Keys) \cup {NilEntry}]
        /\ mem[a] = IF principalByAuthID[c][a] = Absent
                      THEN NilEntry ELSE principalByAuthID[c][a] \cup e.keys[a]
        /\ \A b \in AuthIds : b # a => mem[b] = principalByAuthID[c][b]
    BY <1>2, <1>4, <2>1
  <2>3. principalByAuthID' = [principalByAuthID EXCEPT ![c] = mem]
    BY <1>0, <1>3, <1>6 DEF AuthTypeOK
  <2>4. file \in [AuthIds -> SUBSET Keys] /\ file[a] = principalsFile[a] \cup e.keys[a]
        /\ \A b \in AuthIds : b # a => file[b] = principalsFile[b]
    BY <1>0, <1>2 DEF AuthTypeOK
  <2> HIDE DEF mem, file
  <2>5. /\ CopiesAgree'
        /\ principalByAuthID' \in [Cycles -> [AuthIds -> (SUBSET Keys) \cup {NilEntry}]]
        /\ principalsFile' \in [AuthIds -> SUBSET Keys] /\ fileExists' \in BOOLEAN
        /\ fileExists' \/ principalsFile' = NoPrincipals
        /\ diverged' \in [Cycles -> BOOLEAN]
    <3>1. WriteFile(c, file, FALSE)
      BY <1>3, <1>6 DEF WriteFile, file
    <3>2. \A b \in AuthIds : (diverged[c] => FALSE) /\ mem[b] \notin {Absent, NilEntry}
                             => file[b] = mem[b]
      <4> SUFFICES ASSUME NEW b \in AuthIds, ~diverged[c], mem[b] \notin {Absent, NilEntry}
                   PROVE  file[b] = mem[b]
        OBVIOUS
      <4>1. principalByAuthID[c][b] \notin {Absent, NilEntry}
        BY <1>6, <2>2
      <4>2. principalsFile[b] = principalByAuthID[c][b]
        BY <4>1 DEF AuthInd, CopiesAgree
      <4> QED
        BY <2>2, <2>4, <4>1, <4>2
    <3> QED
      BY <2>2, <2>3, <2>4, <3>1, <3>2, WriteKeepsCopies
  <2>6. AuthTypeOK'
    BY <1>0, <1>1, <2>5 DEF AuthTypeOK
  <2>7. /\ \A d \in Cycles : d # c => principalByAuthID'[d] = principalByAuthID[d]
        /\ principalByAuthID'[c] = mem
    BY <1>0, <2>3 DEF AuthTypeOK
  <2>8. ASSUME NEW b \in AuthIds, NEW k \in Authenticate(c, b)'
        PROVE  Accounted(c, b, k, 0)'
    <3>1. k \in Authenticate(c, b) \/ k \in e.keys[b]
      <4>1. k \in mem[b] /\ k \in Keys
        BY <2>7 DEF Authenticate
      <4> QED
        BY <2>2, <4>1, AuthAssumption DEF Authenticate, NilEntry
    <3>2. CASE k \in Authenticate(c, b)
      <4>1. Accounted(c, b, k, 0)
        BY <1>1, <3>2 DEF AuthInd, KeysInd, KeysAccounted
      <4> QED
        BY <1>0, <4>1, AccountMoves
    <3>3. CASE k \in e.keys[b]
      <4>1. Accounted(c, b, k, 1)
        BY <1>1, <3>3 DEF AuthInd, KeysInd, KeysAccounted
      <4>2. 0 = 1 - 1 /\ 1 # 0
        OBVIOUS
      <4> QED
        BY <1>0, <4>1, <4>2, AccountMoves
    <3> QED
      BY <3>1, <3>2, <3>3
  <2>9. EventsInd' /\ KeysInd'
    BY <1>0, <2>7, <2>8, HandledKeys
  <2> QED
    BY <2>5, <2>6, <2>9 DEF AuthInd
<1> QED
  BY <1>5, <1>6

\* The loop over the authids of key.remove takes their keys from those it comes to.
LEMMA RemoveEffect ==
  ASSUME AuthTypeOK, NEW c \in Cycles, NEW keys \in [AuthIds -> SUBSET Keys],
         NEW done \in SUBSET AuthIds, RemoveFromMemory(c, keys, done)
  PROVE  LET mem == [a \in AuthIds |-> IF a \in done THEN Left(c, a, keys)
                                                     ELSE principalByAuthID[c][a]] IN
         /\ principalByAuthID' = [principalByAuthID EXCEPT ![c] = mem]
         /\ mem \in [AuthIds -> (SUBSET Keys) \cup {NilEntry}]
         /\ principalByAuthID' \in [Cycles -> [AuthIds -> (SUBSET Keys) \cup {NilEntry}]]
         /\ principalByAuthID'[c] = mem
         /\ \A d \in Cycles : d # c => principalByAuthID'[d] = principalByAuthID[d]
         /\ \A a \in AuthIds : /\ Authenticate(c, a)' \subseteq Authenticate(c, a)
                               /\ a \in done => Authenticate(c, a)' \cap keys[a] = {}
<1> DEFINE mem == [a \in AuthIds |-> IF a \in done THEN Left(c, a, keys)
                                                   ELSE principalByAuthID[c][a]]
<1>0. principalByAuthID \in [Cycles -> [AuthIds -> (SUBSET Keys) \cup {NilEntry}]]
  BY DEF AuthTypeOK
<1>1. principalByAuthID' = [principalByAuthID EXCEPT ![c] = mem]
  BY <1>0 DEF RemoveFromMemory
<1>2. \A a \in AuthIds : Left(c, a, keys) \in SUBSET Keys
  BY DEF Left, Authenticate
<1>3. mem \in [AuthIds -> (SUBSET Keys) \cup {NilEntry}]
  BY <1>0, <1>2
<1>4. \A a \in AuthIds : mem[a] = IF a \in done THEN Left(c, a, keys)
                                                ELSE principalByAuthID[c][a]
  OBVIOUS
<1> HIDE DEF mem
<1>5. /\ principalByAuthID' \in [Cycles -> [AuthIds -> (SUBSET Keys) \cup {NilEntry}]]
      /\ principalByAuthID'[c] = mem
      /\ \A d \in Cycles : d # c => principalByAuthID'[d] = principalByAuthID[d]
  BY <1>0, <1>1, <1>3
<1>6. \A a \in AuthIds : /\ Authenticate(c, a)' \subseteq Authenticate(c, a)
                         /\ a \in done => Authenticate(c, a)' \cap keys[a] = {}
  BY <1>4, <1>5 DEF Authenticate, Left
<1> QED
  BY <1>1, <1>3, <1>5, <1>6 DEF mem

\* key.remove: what is not taken from memory is recorded as missed.
LEMMA RemoveKeyStep ==
  ASSUME AuthInd, NEW c \in Cycles, handleRemoveKey(c)
  PROVE  AuthInd'
<1>0. AuthTypeOK /\ IsNext(c, "remove") /\ Handled(c) /\ UNCHANGED <<granted, subscribed>>
  BY DEF AuthInd, handleRemoveKey
<1> DEFINE keys == Head(events[c]).keys
           named == {a \in AuthIds : keys[a] # {}}
           known == {a \in named : principalByAuthID[c][a] \notin {Absent, NilEntry}}
           nils == {a \in named : principalByAuthID[c][a] = NilEntry}
<1>1. /\ events' \in [Cycles -> Seq(Event)]
      /\ Head(events[c]) \in Event /\ subscribed[c] # {}
      /\ \A d \in Cycles : Len(events'[d]) <= MaxEvents
  BY <1>0, HandledEffect
<1>2. keys \in [AuthIds -> SUBSET Keys] /\ Pairs(keys) \subseteq AuthIds \X Keys
  BY <1>1 DEF Event, Pairs
<1>3. \/ /\ ~fileExists
         /\ missed' = [missed EXCEPT ![c] = @ \cup Pairs(keys)]
         /\ UNCHANGED <<principalByAuthID, principalsFile, fileExists, diverged>>
      \/ /\ fileExists /\ nils # {}
         /\ \E done \in SUBSET known :
              /\ RemoveFromMemory(c, keys, done)
              /\ diverged' = [diverged EXCEPT ![c] = @ \/ done # {}]
              /\ missed' = [missed EXCEPT
                   ![c] = @ \cup {p \in Pairs(keys) : p[1] \notin done}]
         /\ UNCHANGED <<principalsFile, fileExists>>
      \/ /\ fileExists /\ nils = {}
         /\ RemoveFromMemory(c, keys, known)
         /\ WriteFile(c, [a \in AuthIds |->
              IF a \in known /\ Left(c, a, keys) # {} /\ principalsFile[a] # Absent
                THEN Left(c, a, keys) ELSE principalsFile[a]], FALSE)
         /\ UNCHANGED missed
  BY DEF handleRemoveKey
<1>4. missed \in [Cycles -> SUBSET (AuthIds \X Keys)] /\ diverged \in [Cycles -> BOOLEAN]
  BY <1>0 DEF AuthTypeOK
<1> HIDE DEF keys
\* What is accounted for before still is, except a key that the event names.
<1>5. ASSUME missed[c] \subseteq missed'[c], NEW b \in AuthIds, NEW k \in Authenticate(c, b)
      PROVE  Accounted(c, b, k, 0)' \/ k \in keys[b]
  <2>1. Accounted(c, b, k, 0)
    BY <1>1 DEF AuthInd, KeysInd, KeysAccounted
  <2> QED
    BY <1>0, <1>5, <2>1, AccountMoves DEF keys
<1>6. CASE /\ ~fileExists
           /\ missed' = [missed EXCEPT ![c] = @ \cup Pairs(keys)]
           /\ UNCHANGED <<principalByAuthID, principalsFile, fileExists, diverged>>
  <2>1. /\ missed' \in [Cycles -> SUBSET (AuthIds \X Keys)]
        /\ \A d \in Cycles : missed[d] \subseteq missed'[d]
        /\ Pairs(keys) \subseteq missed'[c]
    BY <1>2, <1>4, <1>6
  <2>2. AuthTypeOK'
    BY <1>0, <1>1, <1>6, <2>1 DEF AuthTypeOK
  <2>3. CopiesAgree'
    BY <1>6 DEF AuthInd, CopiesAgree
  <2>4. ASSUME NEW b \in AuthIds, NEW k \in Authenticate(c, b)'
        PROVE  Accounted(c, b, k, 0)'
    <3>1. k \in Authenticate(c, b) /\ k \in Keys
      BY <1>6 DEF Authenticate
    <3>2. k \in keys[b] => <<b, k>> \in missed'[c]
      BY <2>1, <3>1 DEF Pairs
    <3> QED
      BY <1>5, <2>1, <3>1, <3>2 DEF Accounted
  <2>5. EventsInd' /\ KeysInd'
    BY <1>0, <1>6, <2>1, <2>4, HandledKeys
  <2> QED
    BY <2>2, <2>3, <2>5 DEF AuthInd
<1>7. ASSUME fileExists, NEW done \in SUBSET known,
             RemoveFromMemory(c, keys, done),
             diverged' = [diverged EXCEPT ![c] = @ \/ done # {}],
             missed' = [missed EXCEPT ![c] = @ \cup {p \in Pairs(keys) : p[1] \notin done}],
             UNCHANGED <<principalsFile, fileExists>>
      PROVE  AuthInd'
  <2>0. done \in SUBSET AuthIds
    OBVIOUS
  <2> HIDE DEF known
  <2>1. /\ missed' \in [Cycles -> SUBSET (AuthIds \X Keys)]
        /\ \A d \in Cycles : missed[d] \subseteq missed'[d]
        /\ \A p \in Pairs(keys) : p[1] \notin done => p \in missed'[c]
    BY <1>2, <1>4, <1>7
  <2>2. /\ principalByAuthID' \in [Cycles -> [AuthIds -> (SUBSET Keys) \cup {NilEntry}]]
        /\ principalByAuthID'[c] = [a \in AuthIds |-> IF a \in done THEN Left(c, a, keys)
                                                            ELSE principalByAuthID[c][a]]
        /\ \A d \in Cycles : d # c => principalByAuthID'[d] = principalByAuthID[d]
        /\ \A a \in AuthIds : /\ Authenticate(c, a)' \subseteq Authenticate(c, a)
                              /\ a \in done => Authenticate(c, a)' \cap keys[a] = {}
    BY <1>0, <1>2, <1>7, <2>0, RemoveEffect
  <2>3. /\ diverged' \in [Cycles -> BOOLEAN]
        /\ \A d \in Cycles : ~diverged'[d] => ~diverged[d] /\ (d = c => done = {})
    BY <1>4, <1>7
  <2>4. AuthTypeOK'
    BY <1>0, <1>1, <1>7, <2>1, <2>2, <2>3 DEF AuthTypeOK
  <2>5. CopiesAgree'
    <3> SUFFICES ASSUME NEW d \in Cycles, NEW b \in AuthIds, ~diverged'[d],
                        principalByAuthID'[d][b] \notin {Absent, NilEntry}
                 PROVE  principalsFile'[b] = principalByAuthID'[d][b]
      BY DEF CopiesAgree
    <3>1. principalByAuthID'[d][b] = principalByAuthID[d][b] /\ ~diverged[d]
      BY <2>2, <2>3
    <3> QED
      BY <1>7, <3>1 DEF AuthInd, CopiesAgree
  <2>6. ASSUME NEW b \in AuthIds, NEW k \in Authenticate(c, b)'
        PROVE  Accounted(c, b, k, 0)'
    <3>1. k \in Authenticate(c, b) /\ k \in Keys
      BY <2>2 DEF Authenticate
    <3>2. ASSUME k \in keys[b]
          PROVE  <<b, k>> \in missed'[c]
      <4>1. b \notin done
        BY <2>2, <2>6, <3>2
      <4>2. <<b, k>> \in Pairs(keys)
        BY <3>1, <3>2 DEF Pairs
      <4> QED
        BY <2>1, <4>1, <4>2
    <3> QED
      BY <1>5, <2>1, <3>1, <3>2 DEF Accounted
  <2>7. EventsInd' /\ KeysInd'
    BY <1>0, <2>1, <2>2, <2>6, HandledKeys
  <2> QED
    BY <2>4, <2>5, <2>7 DEF AuthInd
<1>8. CASE /\ fileExists /\ nils = {}
           /\ RemoveFromMemory(c, keys, known)
           /\ WriteFile(c, [a \in AuthIds |->
                IF a \in known /\ Left(c, a, keys) # {} /\ principalsFile[a] # Absent
                  THEN Left(c, a, keys) ELSE principalsFile[a]], FALSE)
           /\ UNCHANGED missed
  <2> DEFINE mem == [a \in AuthIds |-> IF a \in known THEN Left(c, a, keys)
                                                      ELSE principalByAuthID[c][a]]
             file == [a \in AuthIds |->
                IF a \in known /\ Left(c, a, keys) # {} /\ principalsFile[a] # Absent
                  THEN Left(c, a, keys) ELSE principalsFile[a]]
  <2>0. /\ known \in SUBSET AuthIds
        /\ \A a \in known : principalByAuthID[c][a] \notin {Absent, NilEntry}
        /\ \A a \in AuthIds : a \notin known /\ keys[a] # {} => principalByAuthID[c][a] = Absent
    BY <1>8
  <2> HIDE DEF known
  <2>1. /\ principalByAuthID' = [principalByAuthID EXCEPT ![c] = mem]
        /\ mem \in [AuthIds -> (SUBSET Keys) \cup {NilEntry}]
        /\ \A d \in Cycles : d # c => principalByAuthID'[d] = principalByAuthID[d]
        /\ \A a \in AuthIds : /\ Authenticate(c, a)' \subseteq Authenticate(c, a)
                              /\ a \in known => Authenticate(c, a)' \cap keys[a] = {}
    <3>1. RemoveFromMemory(c, keys, known)
      BY <1>8
    <3>2. principalByAuthID' = [principalByAuthID EXCEPT ![c] = mem]
      BY <1>0, <3>1 DEF RemoveFromMemory, AuthTypeOK
    <3>3. mem \in [AuthIds -> (SUBSET Keys) \cup {NilEntry}]
      <4>1. \A a \in AuthIds : Left(c, a, keys) \in SUBSET Keys
        BY DEF Left, Authenticate
      <4> QED
        BY <1>0, <4>1 DEF AuthTypeOK
    <3>4. /\ \A d \in Cycles : d # c => principalByAuthID'[d] = principalByAuthID[d]
          /\ \A a \in AuthIds : /\ Authenticate(c, a)' \subseteq Authenticate(c, a)
                                /\ a \in known => Authenticate(c, a)' \cap keys[a] = {}
      BY <1>0, <1>2, <2>0, <3>1, RemoveEffect
    <3> QED
      BY <3>2, <3>3, <3>4
  <2>2. file \in [AuthIds -> SUBSET Keys]
    <3>1. \A a \in AuthIds : Left(c, a, keys) \in SUBSET Keys /\ principalsFile[a] \in SUBSET Keys
      BY <1>0 DEF Left, Authenticate, AuthTypeOK
    <3> QED
      BY <3>1
  <2>3. \A b \in AuthIds : (diverged[c] => FALSE) /\ mem[b] \notin {Absent, NilEntry}
                           => file[b] = mem[b]
    <3> SUFFICES ASSUME NEW b \in AuthIds, ~diverged[c], mem[b] \notin {Absent, NilEntry}
                 PROVE  file[b] = mem[b]
      OBVIOUS
    <3>1. CASE b \in known
      <4>1. principalsFile[b] # Absent
        BY <2>0, <3>1 DEF AuthInd, CopiesAgree
      <4> QED
        BY <3>1, <4>1 DEF Absent
    <3>2. CASE b \notin known
      <4>1. principalsFile[b] = principalByAuthID[c][b]
        BY <3>2 DEF AuthInd, CopiesAgree
      <4> QED
        BY <3>2, <4>1
    <3> QED
      BY <3>1, <3>2
  <2>4. WriteFile(c, file, FALSE)
    BY <1>8
  <2> HIDE DEF mem, file
  <2>5. /\ CopiesAgree'
        /\ principalByAuthID' \in [Cycles -> [AuthIds -> (SUBSET Keys) \cup {NilEntry}]]
        /\ principalsFile' \in [AuthIds -> SUBSET Keys] /\ fileExists' \in BOOLEAN
        /\ fileExists' \/ principalsFile' = NoPrincipals
        /\ diverged' \in [Cycles -> BOOLEAN]
    BY <2>1, <2>2, <2>3, <2>4, WriteKeepsCopies
  <2>6. AuthTypeOK'
    BY <1>0, <1>1, <1>8, <2>5 DEF AuthTypeOK
  <2>7. ASSUME NEW b \in AuthIds, NEW k \in Authenticate(c, b)'
        PROVE  Accounted(c, b, k, 0)'
    <3>1. k \in Authenticate(c, b) /\ missed[c] \subseteq missed'[c]
      BY <1>8, <2>1
    <3>2. k \notin keys[b]
      <4>1. CASE b \in known
        BY <2>1, <2>7, <4>1
      <4>2. CASE b \notin known
        BY <2>0, <3>1, <4>2 DEF Authenticate, Absent
      <4> QED
        BY <4>1, <4>2
    <3> QED
      BY <1>5, <3>1, <3>2
  <2>8. \A d \in Cycles : missed[d] \subseteq missed'[d]
    BY <1>8
  <2>9. EventsInd' /\ KeysInd'
    BY <1>0, <2>1, <2>7, <2>8, HandledKeys
  <2> QED
    BY <2>5, <2>6, <2>9 DEF AuthInd
<1> QED
  BY <1>3, <1>6, <1>7, <1>8
-----------------------------------------------------------------------------
(* The daemon.                                                             *)

\* The part of DaemonTypeOK that is about the two goroutines.
GoroutinesOK ==
  /\ running \in BOOLEAN /\ credentials \in BOOLEAN /\ attached \in BOOLEAN
  /\ main \in {"waiting", "serving", "closing"}
  /\ cycle \in Cycles \cup {NoCycle}
  /\ (main = "waiting") <=> (cycle = NoCycle)
  /\ goroutine \in [Cycles -> Phase \cup {"ended", "top", "pause"}]
  /\ conn \in [Cycles -> {"none", "open", "closed"}]
  /\ active \in [Cycles -> BOOLEAN]
  /\ detachChan \in [Cycles -> BOOLEAN]
  /\ watching \in [Cycles -> BOOLEAN]
  /\ retryDelay \in [Cycles -> 1 .. MaxDelay]
  /\ stranded \in [Cycles -> BOOLEAN]
  /\ reachable \in BOOLEAN
  /\ changes \in 0 .. MaxChanges
  /\ \A c \in Cycles : goroutine[c] = "up" => retryDelay[c] = 1

Unlisted == {"ended", "top", "pause", "dial", "open", "publish", "register", "list"}

\* An authenticator has subscriptions only while its connection is open, and only after the
\* keys were listed; they were when the subscription to the events is next.
LinkInd ==
  \A c \in Cycles :
    /\ conn[c] # "open" => subscribed[c] = {}
    /\ goroutine[c] \in Unlisted => subscribed[c] = {}
    /\ goroutine[c] = "subscribe" /\ conn[c] = "open" => "list" \in subscribed[c]

DaemonInd == GoroutinesOK /\ LinkInd /\ AuthInd

\* The steps of an attempt.
LEMMA StepOrder ==
  /\ Phase = {"dial", "open", "publish", "register", "list", "subscribe", "watch", "webrtc", "up"}
  /\ After("open") = "publish" /\ After("register") = "list" /\ After("webrtc") = "up"
<1>1. /\ DOMAIN Steps = 1 .. 9
      /\ Steps[1] = "dial" /\ Steps[2] = "open" /\ Steps[3] = "publish"
      /\ Steps[4] = "register" /\ Steps[5] = "list" /\ Steps[6] = "subscribe"
      /\ Steps[7] = "watch" /\ Steps[8] = "webrtc" /\ Steps[9] = "up"
  BY DEF Steps
<1> HIDE DEF Steps
<1>2. \A i \in DOMAIN Steps : i \in {1, 2, 3, 4, 5, 6, 7, 8, 9}
  BY <1>1
<1>3. /\ \A i \in DOMAIN Steps : Steps[i] = "open" <=> i = 2
      /\ \A i \in DOMAIN Steps : Steps[i] = "register" <=> i = 4
      /\ \A i \in DOMAIN Steps : Steps[i] = "webrtc" <=> i = 8
      /\ 2 \in DOMAIN Steps /\ 4 \in DOMAIN Steps /\ 8 \in DOMAIN Steps
  BY <1>1, <1>2
<1>4. /\ (CHOOSE i \in DOMAIN Steps : Steps[i] = "open") = 2
      /\ (CHOOSE i \in DOMAIN Steps : Steps[i] = "register") = 4
      /\ (CHOOSE i \in DOMAIN Steps : Steps[i] = "webrtc") = 8
  BY <1>3
<1>5. After("open") = "publish" /\ After("register") = "list" /\ After("webrtc") = "up"
  BY <1>1, <1>4 DEF After
<1>6. Phase = {"dial", "open", "publish", "register", "list", "subscribe", "watch", "webrtc", "up"}
  BY <1>1, <1>2 DEF Phase
<1> QED
  BY <1>5, <1>6

\* The pause between two attempts doubles up to its limit.
LEMMA BackOffEffect ==
  ASSUME GoroutinesOK, NEW c \in Cycles, BackOff(c)
  PROVE  /\ goroutine' = [goroutine EXCEPT ![c] = "pause"]
         /\ goroutine' \in [Cycles -> Phase \cup {"ended", "top", "pause"}]
         /\ retryDelay' \in [Cycles -> 1 .. MaxDelay]
         /\ \A d \in Cycles : goroutine'[d] = "up" => retryDelay'[d] = 1
<1> USE DEF GoroutinesOK
<1>1. /\ goroutine' = [goroutine EXCEPT ![c] = "pause"]
      /\ goroutine' \in [Cycles -> Phase \cup {"ended", "top", "pause"}]
  BY DEF BackOff, Goto
<1>2. (IF 2 * retryDelay[c] < MaxDelay THEN 2 * retryDelay[c] ELSE MaxDelay) \in 1 .. MaxDelay
  BY DaemonAssumption
<1>3. retryDelay' \in [Cycles -> 1 .. MaxDelay]
  BY <1>2 DEF BackOff
<1>4. \A d \in Cycles : d # c => retryDelay'[d] = retryDelay[d]
  BY DEF BackOff
<1>5. goroutine'[c] = "pause" /\ \A d \in Cycles : d # c => goroutine'[d] = goroutine[d]
  BY <1>1
<1> QED
  BY <1>1, <1>3, <1>4, <1>5

\* Every step leaves the goroutines in a state of theirs, and a connection that is up has the
\* shortest pause before it.
LEMMA GoroutinesStep ==
  ASSUME GoroutinesOK, Next
  PROVE  GoroutinesOK'
<1> USE DEF GoroutinesOK
<1>1. ASSUME Attach PROVE GoroutinesOK'
  BY <1>1, DaemonAssumption DEF Attach, Change, writeCredentialsFile
<1>2. ASSUME Detach PROVE GoroutinesOK'
  <2>1. detachChan' \in [Cycles -> BOOLEAN]
    <3>1. \A c \in Cycles : detachChan'[c] \in BOOLEAN
      BY <1>2 DEF Detach
    <3> QED
      BY <1>2, <3>1 DEF Detach
  <2>2. changes' \in 0 .. MaxChanges
    BY <1>2, DaemonAssumption DEF Detach, Change
  <2> QED
    BY <1>2, <2>1, <2>2 DEF Detach
<1>3. ASSUME KeyChange PROVE GoroutinesOK'
  BY <1>3, DaemonAssumption DEF KeyChange, Change
<1>4. ASSUME Outage PROVE GoroutinesOK'
  BY <1>4 DEF Outage
<1>5. ASSUME NEW c \in Cycles, BeginCycle(c) PROVE GoroutinesOK'
  BY <1>5, DaemonAssumption DEF BeginCycle, EnsureCredentials
<1>6. ASSUME Detached PROVE GoroutinesOK'
  BY <1>6 DEF Detached
<1>7. ASSUME CloseActive PROVE GoroutinesOK'
  BY <1>7, DaemonAssumption DEF CloseActive
<1>8. ASSUME Exit PROVE GoroutinesOK'
  <2>1. changes' \in 0 .. MaxChanges
    BY <1>8, DaemonAssumption DEF Exit, Change
  <2>2. retryDelay' \in [Cycles -> 1 .. MaxDelay]
    BY <1>8, DaemonAssumption DEF Exit
  <2>3. \A c \in Cycles : goroutine'[c] = "ended"
    BY <1>8 DEF Exit
  <2> QED
    BY <1>8, <2>1, <2>2, <2>3 DEF Exit
<1>9. ASSUME Restart PROVE GoroutinesOK'
  BY <1>9 DEF Restart
<1>10. ASSUME NEW c \in Cycles, Top(c) PROVE GoroutinesOK'
  <2>1. CASE cancelled(c)
    <3>1. goroutine' = [goroutine EXCEPT ![c] = "ended"] /\ retryDelay' = [retryDelay EXCEPT ![c] = 1]
      BY <1>10, <2>1 DEF Top, Goto
    <3>2. retryDelay' \in [Cycles -> 1 .. MaxDelay]
      BY <3>1, DaemonAssumption
    <3>3. \A d \in Cycles : goroutine'[d] = "up" => retryDelay'[d] = 1
      BY <3>1
    <3> QED
      BY <1>10, <2>1, <3>1, <3>2, <3>3 DEF Top
  <2>2. CASE ~cancelled(c)
    BY <1>10, <2>2, StepOrder DEF Top, Goto
  <2> QED
    BY <2>1, <2>2
<1>11. ASSUME NEW c \in Cycles, Pause(c) PROVE GoroutinesOK'
  BY <1>11 DEF Pause, Goto
<1>12. ASSUME NEW c \in Cycles, DialOK(c) PROVE GoroutinesOK'
  BY <1>12, StepOrder DEF DialOK, Goto
<1>13. ASSUME NEW c \in Cycles, DialFails(c) PROVE GoroutinesOK'
  BY <1>13, BackOffEffect DEF DialFails
<1>14. ASSUME NEW c \in Cycles, DialRefused(c) PROVE GoroutinesOK'
  BY <1>14, BackOffEffect DEF DialRefused
<1>15. ASSUME NEW c \in Cycles, PublishSessions(c) PROVE GoroutinesOK'
  BY <1>15, StepOrder DEF PublishSessions, Goto
<1>16. ASSUME NEW c \in Cycles, OpenSession(c) PROVE GoroutinesOK'
  BY <1>16, StepOrder DEF OpenSession, Plain, Goto
<1>17. ASSUME NEW c \in Cycles, Register(c) PROVE GoroutinesOK'
  BY <1>17, StepOrder DEF Register, Plain, Goto
<1>18. ASSUME NEW c \in Cycles, SetUpWebRTC(c) PROVE GoroutinesOK'
  BY <1>18, StepOrder, DaemonAssumption DEF SetUpWebRTC, Plain, Goto
<1>19. ASSUME NEW c \in Cycles, ListKeys(c) PROVE GoroutinesOK'
  BY <1>19, StepOrder DEF ListKeys, Goto
<1>20. ASSUME NEW c \in Cycles, SubscribeKeys(c) PROVE GoroutinesOK'
  BY <1>20, StepOrder DEF SubscribeKeys, Goto
<1>21. ASSUME NEW c \in Cycles, SubscribeDetach(c) PROVE GoroutinesOK'
  BY <1>21, StepOrder DEF SubscribeDetach, Goto, usable
<1>22. ASSUME NEW c \in Cycles, StepFails(c) PROVE GoroutinesOK'
  BY <1>22, BackOffEffect DEF StepFails
<1>23. ASSUME NEW c \in Cycles, SessionDone(c) PROVE GoroutinesOK'
  BY <1>23 DEF SessionDone, Goto
<1>24. ASSUME NEW c \in Cycles, Drop(c) PROVE GoroutinesOK'
  BY <1>24 DEF Drop
<1>25. ASSUME NEW c \in Cycles, HandleEvent(c) PROVE GoroutinesOK'
  BY <1>25 DEF HandleEvent, daemonVars
<1> QED
  BY <1>1, <1>2, <1>3, <1>4, <1>5, <1>6, <1>7, <1>8, <1>9, <1>10, <1>11, <1>12, <1>13,
     <1>14, <1>15, <1>16, <1>17, <1>18, <1>19, <1>20, <1>21, <1>22, <1>23, <1>24, <1>25
     DEF Next, MainStep, CloudStep

\* The subscriptions of a session end with its connection and begin after the list.
LEMMA LinkStep ==
  ASSUME DaemonInd, Next
  PROVE  LinkInd'
<1>0. /\ LinkInd
      /\ subscribed \in [Cycles -> SUBSET Topics]
      /\ goroutine \in [Cycles -> Phase \cup {"ended", "top", "pause"}]
      /\ conn \in [Cycles -> {"none", "open", "closed"}]
      /\ cycle \in Cycles \cup {NoCycle} /\ (main = "waiting" <=> cycle = NoCycle)
  BY DEF DaemonInd, AuthInd, AuthTypeOK, GoroutinesOK
<1> USE DEF LinkInd, Unlisted
<1>1. ASSUME Attach PROVE LinkInd'
  BY <1>0, <1>1 DEF Attach, authVars
<1>2. ASSUME Detach PROVE LinkInd'
  BY <1>0, <1>2 DEF Detach, authVars
<1>3. ASSUME KeyChange PROVE LinkInd'
  BY <1>0, <1>3 DEF KeyChange, Grant, Revoke
<1>4. ASSUME Outage PROVE LinkInd'
  BY <1>0, <1>4 DEF Outage, authVars
<1>5. ASSUME NEW c \in Cycles, BeginCycle(c) PROVE LinkInd'
  BY <1>0, <1>5 DEF BeginCycle
<1>6. ASSUME Detached PROVE LinkInd'
  BY <1>0, <1>6 DEF Detached, authVars
<1>7. ASSUME CloseActive PROVE LinkInd'
  BY <1>0, <1>7 DEF CloseActive, Unsubscribe
<1>8. ASSUME Exit PROVE LinkInd'
  BY <1>0, <1>8 DEF Exit, Discard
<1>9. ASSUME Restart PROVE LinkInd'
  BY <1>0, <1>9 DEF Restart, authVars
<1>10. ASSUME NEW c \in Cycles, Top(c) PROVE LinkInd'
  BY <1>0, <1>10 DEF Top, Goto, Discard, authVars
<1>11. ASSUME NEW c \in Cycles, Pause(c) PROVE LinkInd'
  BY <1>0, <1>11 DEF Pause, Goto, authVars
<1>12. ASSUME NEW c \in Cycles, DialOK(c) PROVE LinkInd'
  BY <1>0, <1>12 DEF DialOK, Goto, authVars
<1>13. ASSUME NEW c \in Cycles, DialFails(c) PROVE LinkInd'
  BY <1>0, <1>13 DEF DialFails, BackOff, Goto, authVars
<1>14. ASSUME NEW c \in Cycles, DialRefused(c) PROVE LinkInd'
  BY <1>0, <1>14 DEF DialRefused, BackOff, Goto, authVars
<1>15. ASSUME NEW c \in Cycles, PublishSessions(c) PROVE LinkInd'
  BY <1>0, <1>15 DEF PublishSessions, Goto, authVars
<1>16. ASSUME NEW c \in Cycles, OpenSession(c) PROVE LinkInd'
  BY <1>0, <1>16, StepOrder DEF OpenSession, Plain, Goto, authVars
<1>17. ASSUME NEW c \in Cycles, Register(c) PROVE LinkInd'
  BY <1>0, <1>17, StepOrder DEF Register, Plain, Goto, authVars
<1>18. ASSUME NEW c \in Cycles, SetUpWebRTC(c) PROVE LinkInd'
  BY <1>0, <1>18, StepOrder DEF SetUpWebRTC, Plain, Goto, authVars
<1>19. ASSUME NEW c \in Cycles, ListKeys(c) PROVE LinkInd'
  BY <1>0, <1>19 DEF ListKeys, Goto, SetPrincipals, usable
<1>20. ASSUME NEW c \in Cycles, SubscribeKeys(c) PROVE LinkInd'
  <2>1. goroutine' = [goroutine EXCEPT ![c] = "watch"] /\ goroutine[c] = "subscribe"
        /\ conn' = conn
    BY <1>20 DEF SubscribeKeys, Goto
  <2>2. /\ conn[c] # "open" => subscribed'[c] = {}
        /\ \A d \in Cycles : d # c => subscribed'[d] = subscribed[d]
    BY <1>0, <1>20 DEF SubscribeKeys, SubscribeEvents, authVars, usable
  <2> QED
    BY <1>0, <2>1, <2>2
<1>21. ASSUME NEW c \in Cycles, SubscribeDetach(c) PROVE LinkInd'
  BY <1>0, <1>21 DEF SubscribeDetach, Goto, authVars
<1>22. ASSUME NEW c \in Cycles, StepFails(c) PROVE LinkInd'
  BY <1>0, <1>22 DEF StepFails, BackOff, Goto, Unsubscribe
<1>23. ASSUME NEW c \in Cycles, SessionDone(c) PROVE LinkInd'
  BY <1>0, <1>23 DEF SessionDone, Goto, authVars
<1>24. ASSUME NEW c \in Cycles, Drop(c) PROVE LinkInd'
  BY <1>0, <1>24 DEF Drop, Unsubscribe
<1>25. ASSUME NEW c \in Cycles, HandleEvent(c) PROVE LinkInd'
  BY <1>0, <1>25 DEF HandleEvent, daemonVars, handleAddKey, handleRemoveKey
<1> QED
  BY <1>1, <1>2, <1>3, <1>4, <1>5, <1>6, <1>7, <1>8, <1>9, <1>10, <1>11, <1>12, <1>13,
     <1>14, <1>15, <1>16, <1>17, <1>18, <1>19, <1>20, <1>21, <1>22, <1>23, <1>24, <1>25
     DEF Next, MainStep, CloudStep

\* Every step keeps the account of the keys, and the two copies of the principals.
LEMMA AuthStep ==
  ASSUME DaemonInd, Next
  PROVE  AuthInd'
<1>0. /\ AuthInd /\ LinkInd
      /\ cycle \in Cycles \cup {NoCycle} /\ (main = "waiting" <=> cycle = NoCycle)
  BY DEF DaemonInd, GoroutinesOK
<1>1. ASSUME Attach PROVE AuthInd'
  BY <1>0, <1>1, AuthQuiet DEF Attach
<1>2. ASSUME Detach PROVE AuthInd'
  BY <1>0, <1>2, AuthQuiet DEF Detach
<1>3. ASSUME KeyChange PROVE AuthInd'
  BY <1>0, <1>3, GrantStep, RevokeStep DEF KeyChange
<1>4. ASSUME Outage PROVE AuthInd'
  BY <1>0, <1>4, AuthQuiet DEF Outage
<1>5. ASSUME NEW c \in Cycles, BeginCycle(c) PROVE AuthInd'
  <2>1. subscribed[c] = {}
    BY <1>0, <1>5 DEF LinkInd, Unlisted, BeginCycle
  <2> QED
    BY <1>0, <1>5, <2>1, NewAuthenticatorStep DEF BeginCycle
<1>6. ASSUME Detached PROVE AuthInd'
  BY <1>0, <1>6, AuthQuiet DEF Detached
<1>7. ASSUME CloseActive PROVE AuthInd'
  <2>1. CASE active[cycle] /\ conn[cycle] = "open"
    <3>1. cycle \in Cycles
      BY <1>0, <1>7 DEF CloseActive
    <3> QED
      BY <1>0, <1>7, <2>1, <3>1, UnsubscribeStep DEF CloseActive
  <2>2. CASE ~(active[cycle] /\ conn[cycle] = "open")
    BY <1>0, <1>7, <2>2, AuthQuiet DEF CloseActive, authVars
  <2> QED
    BY <2>1, <2>2
<1>8. ASSUME Exit PROVE AuthInd'
  <2>1. Cycles \in SUBSET Cycles
    OBVIOUS
  <2> QED
    BY <1>0, <1>8, <2>1, DiscardStep DEF Exit
<1>9. ASSUME Restart PROVE AuthInd'
  BY <1>0, <1>9, AuthQuiet DEF Restart
<1>10. ASSUME NEW c \in Cycles, Top(c) PROVE AuthInd'
  <2>1. {c} \in SUBSET Cycles
    OBVIOUS
  <2> QED
    BY <1>0, <1>10, <2>1, AuthQuiet, DiscardStep DEF Top
<1>11. ASSUME NEW c \in Cycles, Pause(c) PROVE AuthInd'
  BY <1>0, <1>11, AuthQuiet DEF Pause
<1>12. ASSUME NEW c \in Cycles, DialOK(c) PROVE AuthInd'
  BY <1>0, <1>12, AuthQuiet DEF DialOK
<1>13. ASSUME NEW c \in Cycles, DialFails(c) PROVE AuthInd'
  BY <1>0, <1>13, AuthQuiet DEF DialFails
<1>14. ASSUME NEW c \in Cycles, DialRefused(c) PROVE AuthInd'
  BY <1>0, <1>14, AuthQuiet DEF DialRefused
<1>15. ASSUME NEW c \in Cycles, PublishSessions(c) PROVE AuthInd'
  BY <1>0, <1>15, AuthQuiet DEF PublishSessions
<1>16. ASSUME NEW c \in Cycles, OpenSession(c) PROVE AuthInd'
  BY <1>0, <1>16, AuthQuiet DEF OpenSession, Plain
<1>17. ASSUME NEW c \in Cycles, Register(c) PROVE AuthInd'
  BY <1>0, <1>17, AuthQuiet DEF Register, Plain
<1>18. ASSUME NEW c \in Cycles, SetUpWebRTC(c) PROVE AuthInd'
  BY <1>0, <1>18, AuthQuiet DEF SetUpWebRTC, Plain
<1>19. ASSUME NEW c \in Cycles, ListKeys(c) PROVE AuthInd'
  <2>1. subscribed[c] = {}
    BY <1>0, <1>19 DEF LinkInd, Unlisted, ListKeys
  <2> QED
    BY <1>0, <1>19, <2>1, SetPrincipalsStep DEF ListKeys
<1>20. ASSUME NEW c \in Cycles, SubscribeKeys(c) PROVE AuthInd'
  <2>1. CASE usable(c)
    <3>1. "list" \in subscribed[c]
      BY <1>0, <1>20, <2>1 DEF LinkInd, SubscribeKeys, usable
    <3> QED
      BY <1>0, <1>20, <2>1, <3>1, SubscribeStep DEF SubscribeKeys
  <2>2. CASE ~usable(c)
    BY <1>0, <1>20, <2>2, AuthQuiet DEF SubscribeKeys
  <2> QED
    BY <2>1, <2>2
<1>21. ASSUME NEW c \in Cycles, SubscribeDetach(c) PROVE AuthInd'
  BY <1>0, <1>21, AuthQuiet DEF SubscribeDetach
<1>22. ASSUME NEW c \in Cycles, StepFails(c) PROVE AuthInd'
  BY <1>0, <1>22, UnsubscribeStep DEF StepFails
<1>23. ASSUME NEW c \in Cycles, SessionDone(c) PROVE AuthInd'
  BY <1>0, <1>23, AuthQuiet DEF SessionDone
<1>24. ASSUME NEW c \in Cycles, Drop(c) PROVE AuthInd'
  BY <1>0, <1>24, UnsubscribeStep DEF Drop
<1>25. ASSUME NEW c \in Cycles, HandleEvent(c) PROVE AuthInd'
  BY <1>0, <1>25, AddKeyStep, RemoveKeyStep DEF HandleEvent
<1> QED
  BY <1>1, <1>2, <1>3, <1>4, <1>5, <1>6, <1>7, <1>8, <1>9, <1>10, <1>11, <1>12, <1>13,
     <1>14, <1>15, <1>16, <1>17, <1>18, <1>19, <1>20, <1>21, <1>22, <1>23, <1>24, <1>25
     DEF Next, MainStep, CloudStep

-----------------------------------------------------------------------------
\* The daemon keeps its invariant: subscriptions last as long as their connection, and every
\* key that a device accepts is granted, or its removal is accounted for (main.go:390-596 and
\* auth.go:88-260).
THEOREM DaemonInvariant == Spec => []DaemonInd
<1>1. DaemonInit => DaemonInd
  <2> SUFFICES ASSUME DaemonInit PROVE DaemonInd
    OBVIOUS
  <2>1. AuthInd
    BY AuthInitial DEF DaemonInit
  <2>2. GoroutinesOK
    BY DaemonAssumption, StepOrder DEF DaemonInit, GoroutinesOK
  <2>3. LinkInd
    BY DEF DaemonInit, AuthInit, LinkInd
  <2> QED
    BY <2>1, <2>2, <2>3 DEF DaemonInd
<1>2. DaemonInd /\ [Next]_vars => DaemonInd'
  <2> SUFFICES ASSUME DaemonInd, [Next]_vars PROVE DaemonInd'
    OBVIOUS
  <2>1. CASE Next
    <3>1. GoroutinesOK'
      BY <2>1, GoroutinesStep DEF DaemonInd
    <3> QED
      BY <2>1, <3>1, LinkStep, AuthStep DEF DaemonInd
  <2>2. CASE UNCHANGED vars
    <3>1. AuthInd'
      BY <2>2, AuthQuiet DEF DaemonInd, vars
    <3>2. GoroutinesOK'
      BY <2>2 DEF DaemonInd, vars, daemonVars, GoroutinesOK
    <3>3. LinkInd'
      BY <2>2 DEF DaemonInd, vars, daemonVars, authVars, LinkInd
    <3> QED
      BY <3>1, <3>2, <3>3 DEF DaemonInd
  <2> QED
    BY <2>1, <2>2
<1> QED
  BY <1>1, <1>2, PTL DEF Spec

\* The daemon's variables have their types, the pause between two attempts stays within its
\* limit and is the shortest again whenever a connection is up (main.go:390-549).
THEOREM DaemonTypes == Spec => []DaemonTypeOK
<1>1. DaemonInd => DaemonTypeOK
  BY DEF DaemonInd, GoroutinesOK, AuthInd, DaemonTypeOK
<1> QED
  BY <1>1, DaemonInvariant, PTL

\* A key that the cloud has taken back is refused by every device that listens, unless the
\* removal is on its way to it or was recorded as missed (auth.go:136-260).
THEOREM RevokedRefused == Spec => []RevokedIsRefused
<1>1. DaemonInd => RevokedIsRefused
  <2> SUFFICES ASSUME DaemonInd, NEW c \in Cycles, "remove" \in subscribed[c],
                      NEW a \in AuthIds, NEW k \in Authenticate(c, a)
               PROVE  \/ k \in granted[a]
                      \/ <<a, k>> \in missed[c]
                      \/ \E i \in DOMAIN events[c] :
                           /\ events[c][i].topic = "remove"
                           /\ k \in events[c][i].keys[a]
    BY DEF RevokedIsRefused
  <2>1. Accounted(c, a, k, 0)
    BY DEF DaemonInd, AuthInd, KeysInd, KeysAccounted
  <2> QED
    BY <2>1 DEF Accounted
<1> QED
  BY <1>1, DaemonInvariant, PTL

\* principals.json and the principals in memory agree on every principal that memory knows,
\* unless a write failed or another cycle wrote the file (auth.go:110-133 and 174-194).
THEOREM CopiesStayEqual == Spec => []CopiesAgree
<1>1. DaemonInd => CopiesAgree
  BY DEF DaemonInd, AuthInd
<1> QED
  BY <1>1, DaemonInvariant, PTL
=============================================================================
