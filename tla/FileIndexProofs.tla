-------------------------- MODULE FileIndexProofs --------------------------
(***************************************************************************)
(* Proofs about the file index, for any number of files and categories,    *)
(* any history of the file system and any interleaving of the goroutine    *)
(* that walks the tree with the one that follows its events.               *)
(***************************************************************************)
EXTENDS FileIndex, FiniteSetTheorems, TLAPS

\* Events of the watcher.
WatchEvents == Paths \X {"write", "remove"}

\* What the two goroutines and the database hold.
StoreTypeOK ==
  /\ disk \in [Paths -> Times] /\ clock \in Times
  /\ running \in BOOLEAN /\ complete \in BOOLEAN /\ watching \in BOOLEAN /\ due \in BOOLEAN
  /\ entries \in [Paths -> Times]
  /\ queue \in Seq(WatchEvents)
  /\ looked \in Keys \cup {NoKey} /\ held \in Keys \cup {NoKey}
  /\ indexer \in {"off", "indexing", "syncing", "pruning", "done"}
  /\ walk \subseteq Paths /\ stale \subseteq Paths

\* What each goroutine holds belongs to what it does.
Phases ==
  /\ running <=> indexer # "off"
  /\ watching => running
  /\ ~watching => queue = <<>> /\ looked = NoKey
  /\ stale # {} => indexer = "pruning"
  /\ walk # {} => indexer \in {"indexing", "syncing"}
  /\ held # NoKey => indexer \in {"indexing", "syncing"}
  /\ indexer = "indexing" => ~complete
  /\ indexer = "syncing" => complete

\* The order index is exact, or it is that of an old database nobody has opened.
OrderInd == order = KeysOf(Paths) \/ (~running /\ order = {})

\* There is an event of p in the queue.
Awaited(p) == \E i \in DOMAIN queue : queue[i][1] = p

\* The event i is the last one of its file.
IsLast(i) == \A j \in DOMAIN queue : j > i => queue[j][1] # queue[i][1]

\* The index shows p as it is, to the second.
Fresh(p) == entries[p] = disk[p] \/ (disk[p] # 0 /\ isEntryUpToDate(p, disk[p]))

\* The index shows p as it is, or one of the goroutines is still to see to it.
Covered(p) ==
  \/ Awaited(p)
  \/ looked # NoKey /\ looked = <<disk[p], p>>
  \/ held # NoKey /\ held = <<disk[p], p>>
  \/ disk[p] # 0 /\ p \in walk
  \/ disk[p] = 0 /\ (indexer = "syncing" \/ p \in stale)
  \/ Fresh(p)

\* What the goroutines hold of p is the latest, or a later event will replace it.
Tracked(p) ==
  /\ Covered(p)
  /\ \A i \in DOMAIN queue :
       queue[i][1] = p /\ IsLast(i) => (queue[i][2] = "remove" <=> disk[p] = 0)
  /\ looked # NoKey /\ looked[2] = p => Awaited(p) \/ looked[1] = disk[p]
  /\ held # NoKey /\ held[2] = p => held[1] = disk[p]
  /\ p \in stale => disk[p] = 0

TreeInd == running => \A p \in Paths \ raced : Tracked(p)

IndexInd == StoreTypeOK /\ Phases /\ OrderInd /\ TreeInd

-----------------------------------------------------------------------------
(* Lemmas about the database's operations.                                 *)

\* addEntry replaces the key of the entry: an exact order index stays exact.
LEMMA AddKeepsOrder ==
  ASSUME StoreTypeOK, order = KeysOf(Paths),
         NEW p \in Paths, NEW t \in 1 .. MaxTime, addEntry(p, t)
  PROVE  /\ order' = KeysOf(Paths)'
         /\ entries' = [entries EXCEPT ![p] = t]
         /\ entries' \in [Paths -> Times]
<1>1. entries' = [entries EXCEPT ![p] = t] /\ entries' \in [Paths -> Times]
  BY IndexAssumption DEF addEntry, StoreTypeOK, Times
<1>2. t # 0
  OBVIOUS
<1>3. ASSUME NEW k \in KeysOf(Paths)'
      PROVE  k \in order'
  <2>1. PICK q \in Paths : k = <<entries'[q], q>> /\ entries'[q] # 0
    BY <1>3 DEF KeysOf
  <2>2. CASE q = p
    BY <2>1, <2>2, <1>1 DEF addEntry, StoreTypeOK
  <2>3. CASE q # p
    <3>1. entries'[q] = entries[q]
      BY <1>1, <2>3 DEF StoreTypeOK
    <3>2. k \in order /\ k # <<entries[p], p>>
      BY <2>1, <2>3, <3>1 DEF KeysOf
    <3> QED
      BY <3>2 DEF addEntry
  <2> QED
    BY <2>2, <2>3
<1>4. ASSUME NEW k \in order'
      PROVE  k \in KeysOf(Paths)'
  <2>1. CASE k = <<t, p>>
    <3>1. entries'[p] = t
      BY <1>1 DEF StoreTypeOK
    <3> QED
      BY <2>1, <3>1, <1>2 DEF KeysOf
  <2>2. CASE k \in order \ {<<entries[p], p>>}
    <3>1. PICK q \in Paths : k = <<entries[q], q>> /\ entries[q] # 0
      BY <2>2 DEF KeysOf
    <3>2. q # p
      BY <2>2, <3>1
    <3>3. entries'[q] = entries[q]
      BY <1>1, <3>2 DEF StoreTypeOK
    <3> QED
      BY <3>1, <3>3 DEF KeysOf
  <2> QED
    BY <1>4, <2>1, <2>2 DEF addEntry
<1> QED
  BY <1>1, <1>3, <1>4

\* deleteEntry takes the key of each entry it deletes: an exact order index stays exact.
LEMMA DeleteKeepsOrder ==
  ASSUME StoreTypeOK, order = KeysOf(Paths), NEW ps \in SUBSET Paths, deleteKeys(ps)
  PROVE  /\ order' = KeysOf(Paths)'
         /\ \A p \in Paths : entries'[p] = IF p \in ps THEN 0 ELSE entries[p]
         /\ entries' \in [Paths -> Times]
<1>1. /\ \A p \in Paths : entries'[p] = IF p \in ps THEN 0 ELSE entries[p]
      /\ entries' \in [Paths -> Times]
  BY IndexAssumption DEF deleteKeys, StoreTypeOK, Times
<1>2. ASSUME NEW k \in KeysOf(Paths)'
      PROVE  k \in order'
  <2>1. PICK q \in Paths : k = <<entries'[q], q>> /\ entries'[q] # 0
    BY <1>2 DEF KeysOf
  <2>2. q \notin ps /\ entries'[q] = entries[q]
    BY <1>1, <2>1
  <2>3. k \in order /\ k \notin {<<entries[p], p>> : p \in ps}
    BY <2>1, <2>2 DEF KeysOf
  <2> QED
    BY <2>3 DEF deleteKeys
<1>3. ASSUME NEW k \in order'
      PROVE  k \in KeysOf(Paths)'
  <2>1. k \in order /\ k \notin {<<entries[p], p>> : p \in ps}
    BY <1>3 DEF deleteKeys
  <2>2. PICK q \in Paths : k = <<entries[q], q>> /\ entries[q] # 0
    BY <2>1 DEF KeysOf
  <2>3. q \notin ps
    BY <2>1, <2>2
  <2>4. entries'[q] = entries[q]
    BY <1>1, <2>3
  <2> QED
    BY <2>2, <2>4 DEF KeysOf
<1> QED
  BY <1>1, <1>2, <1>3

\* ensureOrderIndexes makes the order index of an old database, and changes no other.
LEMMA EnsureMakesOrder ==
  ASSUME OrderInd, ensureOrderIndexes, UNCHANGED entries
  PROVE  order' = KeysOf(Paths)'
<1> DEFINE Empty == {d \in Categories : \A k \in order : Category[k[2]] # d}
           Made(c) == KeysOf({p \in Paths : Category[p] = c})
<1>1. order' = order \cup UNION {Made(c) : c \in Empty}
  BY DEF ensureOrderIndexes
<1>2. KeysOf(Paths)' = KeysOf(Paths)
  BY DEF KeysOf
<1>3. \A c \in Categories : Made(c) \subseteq KeysOf(Paths)
  BY DEF KeysOf
<1>4. CASE order = KeysOf(Paths)
  BY <1>1, <1>2, <1>3, <1>4
<1>5. CASE order = {}
  <2>1. Empty = Categories
    BY <1>5
  <2>2. ASSUME NEW k \in KeysOf(Paths)
        PROVE  \E c \in Categories : k \in Made(c)
    <3>1. PICK q \in Paths : k = <<entries[q], q>> /\ entries[q] # 0
      BY <2>2 DEF KeysOf
    <3>2. Category[q] \in Categories
      BY IndexAssumption
    <3>3. k \in Made(Category[q])
      BY <3>1 DEF KeysOf
    <3> QED
      BY <3>2, <3>3
  <2> HIDE DEF Made
  <2>3. UNION {Made(c) : c \in Categories} = KeysOf(Paths)
    BY <1>3, <2>2
  <2> QED
    BY <1>1, <1>2, <1>5, <2>1, <2>3
<1> QED
  BY <1>4, <1>5 DEF OrderInd

-----------------------------------------------------------------------------
(* The invariant.                                                          *)

\* It holds of a device without a database and of one with an old database.
LEMMA IndexInitial == IndexInit => IndexInd
<1> SUFFICES ASSUME IndexInit PROVE IndexInd
  OBVIOUS
<1>1. StoreTypeOK
  <2>1. \A n \in 0 .. 1 : n \in Times
    BY IndexAssumption DEF Times
  <2>2. disk \in [Paths -> Times] /\ clock \in Times /\ entries \in [Paths -> Times]
    BY <2>1 DEF IndexInit
  <2>3. queue \in Seq(WatchEvents)
    BY DEF IndexInit
  <2> QED
    BY <2>2, <2>3 DEF IndexInit, StoreTypeOK
<1>2. Phases
  BY DEF IndexInit, Phases
<1>3. OrderInd /\ TreeInd
  BY DEF IndexInit, OrderInd, TreeInd
<1> QED
  BY <1>1, <1>2, <1>3 DEF IndexInd

\* What a client reads changes nothing of it.
LEMMA IndexQuiet ==
  ASSUME IndexInd,
         UNCHANGED <<fileVars, running, entries, order, complete, watchVars, walkVars, raced>>
  PROVE  IndexInd'
<1> USE DEF fileVars, watchVars, walkVars
<1>1. StoreTypeOK'
  BY DEF IndexInd, StoreTypeOK
<1>2. Phases'
  BY DEF IndexInd, Phases
<1>3. OrderInd'
  BY DEF IndexInd, OrderInd, KeysOf
<1>4. \A p \in Paths : Tracked(p)' <=> Tracked(p)
  BY DEF Tracked, Covered, Awaited, IsLast, Fresh, isEntryUpToDate
<1> QED
  BY <1>1, <1>2, <1>3, <1>4 DEF IndexInd, TreeInd

\* A change of a file: its event is queued, or the walk is still to come to it, or it has
\* escaped them.
LEMMA ChangeStep ==
  ASSUME IndexInd, NEW p \in Paths, NEW t \in Times, NEW kind \in {"write", "remove"},
         kind = "remove" <=> t = 0, Change(p, t, kind), clock' \in Times
  PROVE  IndexInd'
<1> USE DEF dbVars, walkVars
<1>1. StoreTypeOK'
  <2>1. disk' \in [Paths -> Times] /\ <<p, kind>> \in WatchEvents
    BY DEF Change, IndexInd, StoreTypeOK, WatchEvents
  <2>2. queue \in Seq(WatchEvents)
    BY DEF IndexInd, StoreTypeOK
  <2>3. queue' = Append(queue, <<p, kind>>) \/ queue' = queue
    BY DEF Change
  <2>4. queue' \in Seq(WatchEvents)
    BY <2>1, <2>2, <2>3
  <2> QED
    BY <2>1, <2>4 DEF Change, IndexInd, StoreTypeOK
<1>2. Phases'
  BY DEF Change, IndexInd, Phases
<1>3. OrderInd'
  BY DEF Change, IndexInd, OrderInd, KeysOf
<1>4. TreeInd'
  <2> SUFFICES ASSUME running, NEW q \in Paths, q \notin raced'
               PROVE  Tracked(q)'
    BY DEF TreeInd, Change
  <2>1. q \notin raced /\ Tracked(q)
    BY DEF Change, IndexInd, TreeInd
  <2>2. entries' = entries /\ looked' = looked /\ held' = held /\ walk' = walk
        /\ stale' = stale /\ indexer' = indexer
    BY DEF Change
  <2>3. CASE watching
    <3> DEFINE e == <<p, kind>>
    <3>1. /\ queue' = Append(queue, e) /\ Len(queue') = Len(queue) + 1
          /\ DOMAIN queue = 1 .. Len(queue) /\ DOMAIN queue' = 1 .. Len(queue) + 1
          /\ Len(queue) \in Nat
          /\ \A i \in DOMAIN queue : queue'[i] = queue[i]
          /\ queue'[Len(queue) + 1] = e
      BY <2>3 DEF Change, IndexInd, StoreTypeOK
    <3>2. CASE q = p
      <4>1. disk'[q] = t
        BY <3>2 DEF Change, IndexInd, StoreTypeOK
      <4>2. Awaited(q)'
        BY <3>1, <3>2 DEF Awaited
      <4>3. ASSUME NEW i \in DOMAIN queue', queue'[i][1] = q, IsLast(i)'
            PROVE  queue'[i][2] = "remove" <=> disk'[q] = 0
        <5>1. i = Len(queue) + 1
          BY <3>1, <3>2, <4>3 DEF IsLast
        <5> QED
          BY <3>1, <5>1, <4>1
      <4>4. ~(held # NoKey /\ held[2] = q) /\ q \notin stale
        BY <3>2 DEF Change, Escapes
      <4> QED
        BY <4>2, <4>3, <4>4, <2>2 DEF Tracked, Covered
    <3>3. CASE q # p
      <4>1. disk'[q] = disk[q]
        BY <3>3 DEF Change, IndexInd, StoreTypeOK
      <4>2. Awaited(q) => Awaited(q)'
        BY <3>1 DEF Awaited
      <4>3. Covered(q)'
        BY <2>1, <2>2, <4>1, <4>2 DEF Tracked, Covered, Fresh, isEntryUpToDate
      <4>4. ASSUME NEW i \in DOMAIN queue', queue'[i][1] = q, IsLast(i)'
            PROVE  queue'[i][2] = "remove" <=> disk'[q] = 0
        <5>1. i \in DOMAIN queue
          BY <3>1, <3>3, <4>4
        <5>2. IsLast(i)
          BY <3>1, <5>1, <4>4 DEF IsLast
        <5> QED
          BY <3>1, <5>1, <5>2, <4>1, <4>4, <2>1 DEF Tracked
      <4> QED
        BY <4>1, <4>2, <4>3, <4>4, <2>1, <2>2 DEF Tracked
    <3> QED
      BY <3>2, <3>3
  <2>4. CASE ~watching
    <3>1. queue = <<>> /\ queue' = <<>> /\ looked = NoKey
      BY <2>4 DEF Change, IndexInd, Phases
    <3>2. \A i : i \notin DOMAIN queue'
      BY <3>1
    <3>3. CASE q = p
      <4>1. disk'[q] = t
        BY <3>3 DEF Change, IndexInd, StoreTypeOK
      <4>2. q \in walk /\ ~(held # NoKey /\ held[2] = q) /\ q \notin stale /\ (complete \/ t # 0)
        BY <2>4, <3>3 DEF Change, Escapes
      <4>3. t = 0 => indexer = "syncing"
        BY <4>2 DEF IndexInd, Phases
      <4>4. Covered(q)'
        BY <4>1, <4>2, <4>3, <2>2 DEF Covered
      <4> QED
        BY <4>2, <4>4, <3>1, <3>2, <2>2 DEF Tracked
    <3>4. CASE q # p
      <4>1. disk'[q] = disk[q]
        BY <3>4 DEF Change, IndexInd, StoreTypeOK
      <4>2. Covered(q)'
        BY <2>1, <2>2, <3>1, <4>1 DEF Tracked, Covered, Fresh, isEntryUpToDate, Awaited
      <4> QED
        BY <4>1, <4>2, <3>1, <3>2, <2>1, <2>2 DEF Tracked
    <3> QED
      BY <3>3, <3>4
  <2> QED
    BY <2>3, <2>4
<1> QED
  BY <1>1, <1>2, <1>3, <1>4 DEF IndexInd

\* NewIndexService and Start: everything is still to be walked.
LEMMA StartStep ==
  ASSUME IndexInd, Start
  PROVE  IndexInd'
<1> USE DEF fileVars, watchVars
<1>1. StoreTypeOK'
  BY DEF Start, IndexInd, StoreTypeOK
<1>2. Phases'
  BY DEF Start, IndexInd, Phases, StoreTypeOK
<1>3. OrderInd'
  BY EnsureMakesOrder DEF Start, IndexInd, OrderInd
<1>4. TreeInd'
  <2> SUFFICES ASSUME NEW p \in Paths, p \notin raced'
               PROVE  Tracked(p)'
    BY DEF TreeInd
  <2>1. /\ queue' = <<>> /\ looked' = NoKey /\ held' = NoKey /\ stale' = {}
        /\ disk' = disk /\ entries' = entries /\ walk' = Paths
    BY DEF Start, IndexInd, Phases
  <2>2. \A i : i \notin DOMAIN queue'
    BY <2>1
  <2>3. Covered(p)'
    <3>1. CASE disk[p] # 0
      BY <2>1, <3>1 DEF Covered
    <3>2. CASE disk[p] = 0 /\ complete
      BY <2>1, <3>2 DEF Covered, Start
    <3>3. CASE disk[p] = 0 /\ ~complete
      BY <2>1, <3>3 DEF Covered, Start, Fresh
    <3> QED
      BY <3>1, <3>2, <3>3
  <2> QED
    BY <2>1, <2>2, <2>3 DEF Tracked
<1> QED
  BY <1>1, <1>2, <1>3, <1>4 DEF IndexInd

\* The daemon ends: only the database is left.
LEMMA ExitStep ==
  ASSUME IndexInd, Exit
  PROVE  IndexInd'
<1> USE DEF fileVars
<1>1. StoreTypeOK'
  <2>1. queue' \in Seq(WatchEvents)
    BY DEF Exit
  <2> QED
    BY <2>1 DEF Exit, IndexInd, StoreTypeOK
<1>2. Phases'
  BY DEF Exit, IndexInd, Phases, StoreTypeOK
<1>3. OrderInd'
  BY DEF Exit, IndexInd, OrderInd, KeysOf
<1>4. TreeInd'
  BY DEF Exit, TreeInd
<1> QED
  BY <1>1, <1>2, <1>3, <1>4 DEF IndexInd

\* The walk reaches a file: it is in hand, or gone.
LEMMA VisitStep ==
  ASSUME IndexInd, NEW p \in Paths, Visit(p)
  PROVE  IndexInd'
<1> USE DEF fileVars, dbVars, watchVars
<1>1. held' = NoKey \/ (disk[p] # 0 /\ held' = <<disk[p], p>>)
  BY DEF Visit
<1>2. StoreTypeOK'
  <2>1. disk[p] # 0 => <<disk[p], p>> \in Keys
    BY IndexAssumption DEF IndexInd, StoreTypeOK, Times, Keys
  <2> QED
    BY <1>1, <2>1 DEF Visit, IndexInd, StoreTypeOK
<1>3. Phases'
  BY DEF Visit, IndexInd, Phases
<1>4. OrderInd'
  BY DEF Visit, IndexInd, OrderInd, KeysOf
<1>5. TreeInd'
  <2> SUFFICES ASSUME running, NEW q \in Paths, q \notin raced
               PROVE  Tracked(q)'
    BY DEF TreeInd, Visit
  <2>1. Tracked(q)
    BY DEF IndexInd, TreeInd
  <2>2. /\ disk' = disk /\ entries' = entries /\ queue' = queue /\ looked' = looked
        /\ stale' = stale /\ indexer' = indexer /\ held = NoKey /\ walk' = walk \ {p}
    BY DEF Visit
  <2>3. (Awaited(q)' <=> Awaited(q)) /\ (Fresh(q)' <=> Fresh(q))
    BY <2>2 DEF Awaited, Fresh, isEntryUpToDate
  <2>4. \A i : IsLast(i)' <=> IsLast(i)
    BY <2>2 DEF IsLast
  <2>5. disk[q] # 0 => <<disk[q], q>> # NoKey
    BY IndexAssumption, NoKeyAssumption DEF IndexInd, StoreTypeOK, Times, Keys
  <2>6. Covered(q)'
    <3>1. CASE q = p /\ disk[p] # 0
      BY <3>1, <2>2, <2>3, <2>5 DEF Visit, Covered, Fresh
    <3>2. CASE ~(q = p /\ disk[p] # 0)
      BY <3>2, <2>1, <2>2, <2>3 DEF Tracked, Covered
    <3> QED
      BY <3>1, <3>2
  <2>7. held' # NoKey /\ held'[2] = q => held'[1] = disk'[q]
    BY <1>1, <2>2
  <2> QED
    BY <2>1, <2>2, <2>3, <2>4, <2>6, <2>7 DEF Tracked
<1> QED
  BY <1>2, <1>3, <1>4, <1>5 DEF IndexInd

\* The sync compares what it holds: the database shows that file to the second, or will get it.
LEMMA CompareStep ==
  ASSUME IndexInd, Compare
  PROVE  IndexInd'
<1> USE DEF fileVars, dbVars, watchVars
<1>1. /\ held \in Keys /\ held' \in {held, NoKey} /\ due' \in BOOLEAN
      /\ held' = NoKey => isEntryUpToDate(held[2], held[1])
  BY NoKeyAssumption DEF Compare, IndexInd, StoreTypeOK
<1>2. StoreTypeOK'
  BY <1>1 DEF Compare, IndexInd, StoreTypeOK
<1>3. Phases'
  BY <1>1 DEF Compare, IndexInd, Phases
<1>4. OrderInd'
  BY DEF Compare, IndexInd, OrderInd, KeysOf
<1>5. TreeInd'
  <2> SUFFICES ASSUME running, NEW q \in Paths, q \notin raced
               PROVE  Tracked(q)'
    BY DEF TreeInd, Compare
  <2>1. Tracked(q)
    BY DEF IndexInd, TreeInd
  <2>2. /\ disk' = disk /\ entries' = entries /\ queue' = queue /\ looked' = looked
        /\ stale' = stale /\ indexer' = indexer /\ walk' = walk
    BY DEF Compare
  <2>3. (Awaited(q)' <=> Awaited(q)) /\ (Fresh(q)' <=> Fresh(q))
    BY <2>2 DEF Awaited, Fresh, isEntryUpToDate
  <2>4. \A i : IsLast(i)' <=> IsLast(i)
    BY <2>2 DEF IsLast
  <2>5. held = <<disk[q], q>> /\ held' = NoKey => Fresh(q)
    BY <1>1 DEF Fresh, Keys
  <2>6. Covered(q)'
    BY <1>1, <2>1, <2>2, <2>3, <2>5 DEF Tracked, Covered
  <2> QED
    BY <1>1, <2>1, <2>2, <2>3, <2>4, <2>6 DEF Tracked
<1> QED
  BY <1>2, <1>3, <1>4, <1>5 DEF IndexInd

\* addEntry of what a goroutine holds: the index shows the file, or a later event is queued.
LEMMA StoreStep ==
  ASSUME IndexInd, NEW k \in Keys, addEntry(k[2], k[1]), running,
         UNCHANGED <<fileVars, running, complete, watching, queue, indexer, walk, stale, raced>>,
         \/ k = held /\ held' = NoKey /\ looked' = looked
         \/ k = looked /\ looked' = NoKey /\ held' = held,
         due' \in BOOLEAN
  PROVE  IndexInd'
<1> USE DEF fileVars
<1>0. k[1] \in 1 .. MaxTime /\ k[2] \in Paths /\ k = <<k[1], k[2]>> /\ k # NoKey
  BY NoKeyAssumption DEF Keys
<1>1. order = KeysOf(Paths) /\ StoreTypeOK
  BY DEF IndexInd, OrderInd
<1>2. /\ order' = KeysOf(Paths)'
      /\ entries' = [entries EXCEPT ![k[2]] = k[1]]
      /\ entries' \in [Paths -> Times]
  BY <1>0, <1>1, AddKeepsOrder
<1>3. StoreTypeOK'
  BY <1>2 DEF IndexInd, StoreTypeOK
<1>4. Phases'
  BY DEF IndexInd, Phases
<1>5. OrderInd'
  BY <1>2 DEF OrderInd
<1>6. TreeInd'
  <2> SUFFICES ASSUME NEW q \in Paths, q \notin raced
               PROVE  Tracked(q)'
    BY DEF TreeInd
  <2>1. Tracked(q)
    BY DEF IndexInd, TreeInd
  <2>2. Awaited(q)' <=> Awaited(q)
    BY DEF Awaited
  <2>3. \A i : IsLast(i)' <=> IsLast(i)
    BY DEF IsLast
  <2>4. Covered(q)'
    <3>1. CASE q = k[2]
      <4>1. entries'[q] = k[1]
        BY <1>2, <3>1 DEF IndexInd, StoreTypeOK
      <4>2. Awaited(q) \/ k[1] = disk[q]
        BY <1>0, <2>1, <3>1 DEF Tracked
      <4> QED
        BY <4>1, <4>2, <2>2 DEF Covered, Fresh
    <3>2. CASE q # k[2]
      <4>1. entries'[q] = entries[q]
        BY <1>2, <3>2 DEF IndexInd, StoreTypeOK
      <4>2. Fresh(q)' <=> Fresh(q)
        BY <4>1 DEF Fresh, isEntryUpToDate
      <4>3. k # <<disk[q], q>>
        BY <1>0, <3>2
      <4> QED
        BY <4>2, <4>3, <2>1, <2>2 DEF Tracked, Covered
    <3> QED
      BY <3>1, <3>2
  <2> QED
    BY <2>1, <2>2, <2>3, <2>4 DEF Tracked
<1> QED
  BY <1>3, <1>4, <1>5, <1>6 DEF IndexInd

\* The end of the first walk, the watches, and the search for stale entries.
LEMMA PhaseStep ==
  ASSUME IndexInd, markIndexingComplete \/ walkDirs \/ collectStaleKeys
  PROVE  IndexInd'
<1> USE DEF fileVars, dbVars, watchVars, walkVars
<1>1. StoreTypeOK'
  BY DEF IndexInd, StoreTypeOK, markIndexingComplete, walkDirs, collectStaleKeys
<1>2. Phases'
  BY DEF IndexInd, Phases, markIndexingComplete, walkDirs, collectStaleKeys, Walked
<1>3. OrderInd'
  BY DEF IndexInd, OrderInd, KeysOf, markIndexingComplete, walkDirs, collectStaleKeys
<1>4. TreeInd'
  <2> SUFFICES ASSUME running, NEW q \in Paths, q \notin raced
               PROVE  Tracked(q)'
    BY DEF TreeInd, markIndexingComplete, walkDirs, collectStaleKeys
  <2>1. Tracked(q)
    BY DEF IndexInd, TreeInd
  <2>2. /\ disk' = disk /\ entries' = entries /\ queue' = queue /\ looked' = looked
        /\ held' = held /\ walk' = walk
    BY DEF markIndexingComplete, walkDirs, collectStaleKeys
  <2>3. (Awaited(q)' <=> Awaited(q)) /\ (Fresh(q)' <=> Fresh(q))
    BY <2>2 DEF Awaited, Fresh, isEntryUpToDate
  <2>4. \A i : IsLast(i)' <=> IsLast(i)
    BY <2>2 DEF IsLast
  <2>5. CASE walkDirs
    BY <2>1, <2>2, <2>3, <2>4, <2>5 DEF Tracked, Covered, walkDirs
  <2>6. CASE markIndexingComplete
    BY <2>1, <2>2, <2>3, <2>4, <2>6 DEF Tracked, Covered, markIndexingComplete
  <2>7. CASE collectStaleKeys
    <3>1. stale' = {p \in Paths : entries[p] # 0 /\ disk[p] = 0} /\ walk = {} /\ held = NoKey
      BY <2>7 DEF collectStaleKeys, Walked
    <3>2. disk[q] = 0 => Fresh(q) \/ q \in stale'
      BY <3>1 DEF Fresh
    <3>3. Covered(q)'
      <4>1. CASE disk[q] = 0
        BY <3>2, <4>1, <2>2, <2>3 DEF Covered
      <4>2. CASE disk[q] # 0
        BY <3>1, <4>2, <2>1, <2>2, <2>3 DEF Tracked, Covered
      <4> QED
        BY <4>1, <4>2
    <3> QED
      BY <3>1, <3>3, <2>1, <2>2, <2>3, <2>4 DEF Tracked
  <2> QED
    BY <2>5, <2>6, <2>7
<1> QED
  BY <1>1, <1>2, <1>3, <1>4 DEF IndexInd

\* removeStaleEntries: what it deletes is gone, or has changed since and escaped.
LEMMA PruneStep ==
  ASSUME IndexInd, removeStaleEntries
  PROVE  IndexInd'
<1> USE DEF fileVars, watchVars
<1>1. running /\ order = KeysOf(Paths) /\ StoreTypeOK /\ stale \in SUBSET Paths /\ deleteKeys(stale)
  BY DEF IndexInd, OrderInd, Phases, StoreTypeOK, removeStaleEntries
<1>2. /\ order' = KeysOf(Paths)'
      /\ \A p \in Paths : entries'[p] = IF p \in stale THEN 0 ELSE entries[p]
      /\ entries' \in [Paths -> Times]
  BY <1>1, DeleteKeepsOrder
<1>3. StoreTypeOK'
  BY <1>2 DEF IndexInd, StoreTypeOK, removeStaleEntries
<1>4. Phases'
  BY DEF IndexInd, Phases, removeStaleEntries
<1>5. OrderInd'
  BY <1>2 DEF OrderInd
<1>6. TreeInd'
  <2> SUFFICES ASSUME NEW q \in Paths, q \notin raced
               PROVE  Tracked(q)'
    BY DEF TreeInd, removeStaleEntries
  <2>1. Tracked(q)
    BY <1>1 DEF IndexInd, TreeInd
  <2>2. /\ disk' = disk /\ queue' = queue /\ looked' = looked /\ held' = held /\ walk' = walk
        /\ indexer = "pruning" /\ stale' = {}
    BY DEF removeStaleEntries
  <2>3. Awaited(q)' <=> Awaited(q)
    BY <2>2 DEF Awaited
  <2>4. \A i : IsLast(i)' <=> IsLast(i)
    BY <2>2 DEF IsLast
  <2>5. Covered(q)'
    <3>1. CASE q \in stale
      <4>1. entries'[q] = 0 /\ disk'[q] = 0
        BY <1>2, <2>1, <2>2, <3>1 DEF Tracked
      <4> QED
        BY <4>1 DEF Covered, Fresh
    <3>2. CASE q \notin stale
      <4>1. entries'[q] = entries[q]
        BY <1>2, <3>2
      <4>2. Fresh(q)' <=> Fresh(q)
        BY <4>1, <2>2 DEF Fresh, isEntryUpToDate
      <4> QED
        BY <4>2, <3>2, <2>1, <2>2, <2>3 DEF Tracked, Covered
    <3> QED
      BY <3>1, <3>2
  <2> QED
    BY <2>1, <2>2, <2>3, <2>4, <2>5 DEF Tracked
<1> QED
  BY <1>3, <1>4, <1>5, <1>6 DEF IndexInd

\* The watcher takes an event: the events left of a file are those there were, but for the
\* one that is taken.
LEMMA TakeEvent ==
  ASSUME StoreTypeOK, NEW kind, Take(kind)
  PROVE  /\ Head(queue)[1] \in Paths /\ queue' \in Seq(WatchEvents)
         /\ Len(queue) \in Nat \ {0} /\ queue[1] = Head(queue)
         /\ DOMAIN queue = 1 .. Len(queue) /\ DOMAIN queue' = 1 .. Len(queue) - 1
         /\ \A i \in DOMAIN queue' : queue'[i] = queue[i + 1]
         /\ \A q : q # Head(queue)[1] => (Awaited(q)' <=> Awaited(q))
         /\ \A i \in DOMAIN queue' : IsLast(i)' => IsLast(i + 1)
         /\ \A q : q = Head(queue)[1] /\ ~Awaited(q)' => IsLast(1)
<1>1. queue \in Seq(WatchEvents) /\ queue # <<>> /\ queue' = Tail(queue)
  BY DEF StoreTypeOK, Take
<1>2. /\ queue' \in Seq(WatchEvents) /\ Len(queue) \in Nat \ {0} /\ queue[1] = Head(queue)
      /\ DOMAIN queue = 1 .. Len(queue) /\ DOMAIN queue' = 1 .. Len(queue) - 1
      /\ \A i \in DOMAIN queue' : queue'[i] = queue[i + 1]
      /\ Head(queue) \in WatchEvents
  BY <1>1
<1>3. Head(queue)[1] \in Paths
  BY <1>2 DEF WatchEvents
<1>4. ASSUME NEW q, q # Head(queue)[1]
      PROVE  Awaited(q)' <=> Awaited(q)
  <2>1. ASSUME NEW i \in DOMAIN queue, queue[i][1] = q
        PROVE  Awaited(q)'
    <3>1. i # 1 /\ i - 1 \in DOMAIN queue' /\ queue'[i - 1] = queue[i]
      BY <1>2, <1>4, <2>1
    <3> QED
      BY <3>1, <2>1 DEF Awaited
  <2>2. ASSUME NEW i \in DOMAIN queue', queue'[i][1] = q
        PROVE  Awaited(q)
    <3>1. i + 1 \in DOMAIN queue /\ queue'[i] = queue[i + 1]
      BY <1>2, <2>2
    <3> QED
      BY <3>1, <2>2 DEF Awaited
  <2> QED
    BY <2>1, <2>2 DEF Awaited
<1>5. ASSUME NEW i \in DOMAIN queue', IsLast(i)'
      PROVE  IsLast(i + 1)
  <2> SUFFICES ASSUME NEW j \in DOMAIN queue, j > i + 1
               PROVE  queue[j][1] # queue[i + 1][1]
    BY DEF IsLast
  <2>1. j - 1 \in DOMAIN queue' /\ j - 1 > i /\ queue'[j - 1] = queue[j] /\ queue'[i] = queue[i + 1]
    BY <1>2
  <2> QED
    BY <1>5, <2>1 DEF IsLast
<1>6. ASSUME NEW q, q = Head(queue)[1], ~Awaited(q)'
      PROVE  IsLast(1)
  <2> SUFFICES ASSUME NEW j \in DOMAIN queue, j > 1
               PROVE  queue[j][1] # queue[1][1]
    BY DEF IsLast
  <2>1. j - 1 \in DOMAIN queue' /\ queue'[j - 1] = queue[j]
    BY <1>2
  <2> QED
    BY <1>2, <1>6, <2>1 DEF Awaited
<1> QED
  BY <1>2, <1>3, <1>4, <1>5, <1>6

\* What is known of the events of a file stays true when one is taken from the queue.
LEMMA TakeTracks ==
  ASSUME StoreTypeOK, NEW kind, Take(kind), NEW q \in Paths, Tracked(q), UNCHANGED disk
  PROVE  /\ \A i \in DOMAIN queue' :
              queue'[i][1] = q /\ IsLast(i)' => (queue'[i][2] = "remove" <=> disk'[q] = 0)
         /\ q = Head(queue)[1] => Awaited(q)' \/ (kind = "remove" <=> disk[q] = 0)
<1>1. ASSUME NEW i \in DOMAIN queue', queue'[i][1] = q, IsLast(i)'
      PROVE  queue'[i][2] = "remove" <=> disk'[q] = 0
  <2>1. i + 1 \in DOMAIN queue /\ IsLast(i + 1) /\ queue[i + 1] = queue'[i]
    BY <1>1, TakeEvent
  <2> QED
    BY <1>1, <2>1 DEF Tracked
<1>2. ASSUME q = Head(queue)[1], ~Awaited(q)'
      PROVE  kind = "remove" <=> disk[q] = 0
  <2>1. /\ Len(queue) \in Nat \ {0} /\ DOMAIN queue = 1 .. Len(queue)
        /\ IsLast(1) /\ queue[1] = Head(queue)
    BY <1>2, TakeEvent
  <2>2. 1 \in DOMAIN queue
    BY <2>1
  <2>3. Head(queue)[2] = kind
    BY DEF Take
  <2> QED
    BY <1>2, <2>1, <2>2, <2>3 DEF Tracked
<1> QED
  BY <1>1, <1>2

\* The event of a removed file: it is deleted, whatever is there by now.
LEMMA RemovedStep ==
  ASSUME IndexInd, Removed
  PROVE  IndexInd'
<1> USE DEF fileVars, walkVars
<1> DEFINE p == Head(queue)[1]
<1>1. /\ running /\ order = KeysOf(Paths) /\ StoreTypeOK /\ Take("remove") /\ deleteKeys({p})
      /\ looked = NoKey
  BY DEF IndexInd, OrderInd, Phases, Removed, Take
<1>2. p \in Paths /\ queue' \in Seq(WatchEvents)
  BY <1>1, TakeEvent
<1> HIDE DEF p
<1>3. /\ order' = KeysOf(Paths)'
      /\ \A q \in Paths : entries'[q] = IF q = p THEN 0 ELSE entries[q]
      /\ entries' \in [Paths -> Times]
  BY <1>1, <1>2, DeleteKeepsOrder, {p} \in SUBSET Paths
<1>4. StoreTypeOK'
  BY <1>2, <1>3 DEF IndexInd, StoreTypeOK, Removed
<1>5. Phases'
  <2>1. watching
    BY DEF IndexInd, Phases, Removed, Take
  <2> QED
    BY <2>1 DEF IndexInd, Phases, Removed
<1>6. OrderInd'
  BY <1>3 DEF OrderInd
<1>7. TreeInd'
  <2> SUFFICES ASSUME NEW q \in Paths, q \notin raced
               PROVE  Tracked(q)'
    BY DEF TreeInd, Removed
  <2>1. Tracked(q)
    BY <1>1 DEF IndexInd, TreeInd
  <2>2. /\ disk' = disk /\ looked' = looked /\ held' = held /\ walk' = walk
        /\ indexer' = indexer /\ stale' = stale
    BY DEF Removed
  <2>3. /\ \A i \in DOMAIN queue' :
             queue'[i][1] = q /\ IsLast(i)' => (queue'[i][2] = "remove" <=> disk'[q] = 0)
        /\ q = p => Awaited(q)' \/ disk[q] = 0
    BY <1>1, <2>1, <2>2, TakeTracks DEF p
  <2>4. Covered(q)'
    <3>1. CASE q = p
      BY <1>3, <2>2, <2>3, <3>1 DEF Covered, Fresh
    <3>2. CASE q # p
      <4>1. entries'[q] = entries[q] /\ (Awaited(q)' <=> Awaited(q))
        BY <1>1, <1>3, <3>2, TakeEvent DEF p
      <4>2. Fresh(q)' <=> Fresh(q)
        BY <4>1, <2>2 DEF Fresh, isEntryUpToDate
      <4> QED
        BY <4>1, <4>2, <2>1, <2>2 DEF Tracked, Covered
    <3> QED
      BY <3>1, <3>2
  <2> QED
    BY <1>1, <2>1, <2>2, <2>3, <2>4 DEF Tracked
<1> QED
  BY <1>4, <1>5, <1>6, <1>7 DEF IndexInd

\* The event of a written file: what Lstat sees is the latest, or a later event is queued.
LEMMA WrittenStep ==
  ASSUME IndexInd, Written
  PROVE  IndexInd'
<1> USE DEF fileVars, dbVars, walkVars
<1> DEFINE p == Head(queue)[1]
<1>1. StoreTypeOK /\ Take("write") /\ looked = NoKey /\ running /\ watching
  BY DEF IndexInd, Phases, Written, Take
<1>2. p \in Paths /\ queue' \in Seq(WatchEvents)
  BY <1>1, TakeEvent
<1>3. looked' = IF disk[p] = 0 THEN NoKey ELSE <<disk[p], p>>
  BY DEF Written
<1> HIDE DEF p
<1>4. disk[p] # 0 => <<disk[p], p>> \in Keys /\ <<disk[p], p>> # NoKey
  BY <1>2, IndexAssumption, NoKeyAssumption DEF IndexInd, StoreTypeOK, Times, Keys
<1>5. StoreTypeOK'
  BY <1>2, <1>3, <1>4 DEF IndexInd, StoreTypeOK, Written
<1>6. Phases'
  BY <1>1 DEF IndexInd, Phases, Written
<1>7. OrderInd'
  BY DEF IndexInd, OrderInd, Written, KeysOf
<1>8. TreeInd'
  <2> SUFFICES ASSUME NEW q \in Paths, q \notin raced
               PROVE  Tracked(q)'
    BY DEF TreeInd, Written
  <2>1. Tracked(q)
    BY <1>1 DEF IndexInd, TreeInd
  <2>2. /\ disk' = disk /\ entries' = entries /\ held' = held /\ walk' = walk
        /\ indexer' = indexer /\ stale' = stale
    BY DEF Written
  <2>3. /\ \A i \in DOMAIN queue' :
             queue'[i][1] = q /\ IsLast(i)' => (queue'[i][2] = "remove" <=> disk'[q] = 0)
        /\ q = p => Awaited(q)' \/ disk[q] # 0
    BY <1>1, <2>1, <2>2, TakeTracks DEF p
  <2>4. Covered(q)'
    <3>1. CASE q = p
      BY <1>3, <1>4, <2>2, <2>3, <3>1 DEF Covered
    <3>2. CASE q # p
      <4>1. Awaited(q)' <=> Awaited(q)
        BY <1>1, <3>2, TakeEvent DEF p
      <4>2. Fresh(q)' <=> Fresh(q)
        BY <2>2 DEF Fresh, isEntryUpToDate
      <4> QED
        BY <1>1, <4>1, <4>2, <2>1, <2>2 DEF Tracked, Covered
    <3> QED
      BY <3>1, <3>2
  <2>5. looked' # NoKey /\ looked'[2] = q => looked'[1] = disk'[q]
    BY <1>3, <2>2
  <2> QED
    BY <2>1, <2>2, <2>3, <2>4, <2>5 DEF Tracked
<1> QED
  BY <1>5, <1>6, <1>7, <1>8 DEF IndexInd

\* No step of the two goroutines, the file system, the process or a client breaks it.
LEMMA IndexStep == IndexInd /\ [Next]_vars => IndexInd'
<1> SUFFICES ASSUME IndexInd, [Next]_vars PROVE IndexInd'
  OBVIOUS
<1>1. ASSUME NEW p \in Paths, WriteFile(p)
      PROVE  IndexInd'
  <2>1. clock + 1 \in Times /\ clock + 1 # 0 /\ clock' = clock + 1
    BY <1>1, IndexAssumption DEF WriteFile, IndexInd, StoreTypeOK, Times
  <2> QED
    BY <1>1, <2>1, ChangeStep DEF WriteFile
<1>2. ASSUME NEW p \in Paths, RemoveFile(p)
      PROVE  IndexInd'
  <2>1. 0 \in Times /\ clock' \in Times
    BY <1>2, IndexAssumption DEF RemoveFile, IndexInd, StoreTypeOK, Times
  <2> QED
    BY <1>2, <2>1, ChangeStep DEF RemoveFile
<1>3. ASSUME NEW p \in Paths, Visit(p)
      PROVE  IndexInd'
  BY <1>3, VisitStep
<1>11. CASE Compare
  BY <1>11, CompareStep
<1>4. CASE Start \/ Exit
  BY <1>4, StartStep, ExitStep
<1>5. CASE StoreHeld
  <2>1. held \in Keys /\ running /\ due' \in BOOLEAN
    BY <1>5 DEF StoreHeld, IndexInd, StoreTypeOK, Phases
  <2> QED
    BY <1>5, <2>1, StoreStep DEF StoreHeld, watchVars
<1>6. CASE StoreLooked
  <2>1. looked \in Keys /\ running /\ due' \in BOOLEAN
    BY <1>6 DEF StoreLooked, walkVars, IndexInd, StoreTypeOK, Phases
  <2> QED
    BY <1>6, <2>1, StoreStep DEF StoreLooked, walkVars
<1>7. CASE markIndexingComplete \/ walkDirs \/ collectStaleKeys
  BY <1>7, PhaseStep
<1>8. CASE removeStaleEntries
  BY <1>8, PruneStep
<1>9. CASE Removed \/ Written
  BY <1>9, RemovedStep, WrittenStep
<1>10. CASE \/ \E cats \in Requests : Query(cats)
            \/ QueryMore \/ QueryEnds \/ UNCHANGED vars
  <2>1. UNCHANGED <<fileVars, running, entries, order, complete, watchVars, walkVars, raced>>
    BY <1>10 DEF Query, QueryMore, QueryEnds, vars, dbVars
  <2> QED
    BY <2>1, IndexQuiet
<1> QED
  BY <1>1, <1>2, <1>3, <1>4, <1>5, <1>6, <1>7, <1>8, <1>9, <1>10, <1>11 DEF Next

-----------------------------------------------------------------------------
(* The theorems.                                                           *)

\* Every state of the index satisfies the invariant, whatever happens to the files, the two
\* goroutines (fileindex.go) and the process.
THEOREM IndexInvariant == Spec => []IndexInd
BY IndexInitial, IndexStep, PTL DEF Spec

\* The order index of indexdb.go has exactly one key for each entry, whichever goroutine has
\* added, replaced, deleted or pruned it, and whether ensureOrderIndexes had to make it.
THEOREM OrderIsExact == Spec => []OrderIsIndex
<1>1. IndexInd => OrderIsIndex
  BY DEF IndexInd, OrderInd, OrderIsIndex
<1> QED
  BY <1>1, IndexInvariant, PTL

\* When the walk is over (runIndexer, runSync) and handleWatchEvent has nothing left to do,
\* the index shows every file as it is, but for those whose change has escaped both.
THEOREM IndexCatchesUp == Spec => []CaughtUp
<1>1. IndexInd => CaughtUp
  <2> SUFFICES ASSUME IndexInd, indexer = "done", queue = <<>>, looked = NoKey,
                      NEW p \in Paths, p \notin raced
               PROVE  Fresh(p)
    BY DEF CaughtUp, Fresh
  <2>1. Covered(p) /\ walk = {} /\ held = NoKey /\ stale = {}
    BY DEF IndexInd, Phases, TreeInd, Tracked
  <2>2. ~Awaited(p)
    BY DEF Awaited
  <2> QED
    BY <2>1, <2>2 DEF Covered
<1> QED
  BY <1>1, IndexInvariant, PTL

-----------------------------------------------------------------------------
(* Pages.                                                                  *)

\* The keys a goroutine or the database may put into the order index.
Known ==
  {<<disk[p], p>> : p \in {q \in Paths : disk[q] # 0}} \cup KeysOf(Paths)
    \cup ({held, looked} \ {NoKey})

\* No two keys have the same time: Before is a total order on them.
DistinctTimes(ks) == \A k, l \in ks : k[1] = l[1] => k = l

TimesInd == Known \subseteq Keys /\ DistinctTimes(Known) /\ \A k \in Known : k[1] <= clock

\* How many keys of ks come before k.
Rank(ks, k) == Cardinality({l \in ks : Before(l, k)})

\* Keys with distinct times are finitely many and ranked from 0, in their order, without gaps.
LEMMA Ranks ==
  ASSUME NEW ks \in SUBSET Keys, DistinctTimes(ks)
  PROVE  /\ IsFiniteSet(ks) /\ Cardinality(ks) \in Nat
         /\ \A k \in ks : Rank(ks, k) \in Nat /\ Rank(ks, k) < Cardinality(ks)
         /\ \A k, l \in ks : Before(k, l) <=> Rank(ks, k) < Rank(ks, l)
         /\ \A k, l \in ks : Rank(ks, k) = Rank(ks, l) => k = l
         /\ \A n \in 0 .. Cardinality(ks) - 1 : \E k \in ks : Rank(ks, k) = n
<1>1. \A k \in ks : k[1] \in 1 .. MaxTime
  BY DEF Keys
<1>2. IsFiniteSet(ks) /\ Cardinality(ks) \in Nat
  <2> DEFINE f == [k \in ks |-> k[1]]
  <2>1. f \in Injection(ks, 1 .. MaxTime)
    BY <1>1 DEF Injection, IsInjective, DistinctTimes
  <2>2. IsFiniteSet(1 .. MaxTime)
    BY FS_Interval, IndexAssumption
  <2> QED
    BY <2>1, <2>2, FS_Injection, FS_CardinalityType
<1> DEFINE Older(k) == {l \in ks : Before(l, k)}
<1>3. \A k \in ks : IsFiniteSet(Older(k)) /\ Cardinality(Older(k)) \in Nat
  BY <1>2, FS_Subset, FS_CardinalityType
<1>4. ASSUME NEW k \in ks
      PROVE  Cardinality(Older(k)) < Cardinality(ks)
  <2>1. k \notin Older(k)
    BY <1>1, IndexAssumption DEF Before
  <2>2. Older(k) \in SUBSET (ks \ {k})
    BY <2>1
  <2>3. IsFiniteSet(ks \ {k}) /\ Cardinality(ks \ {k}) = Cardinality(ks) - 1
    BY <1>2, FS_RemoveElement
  <2>4. Cardinality(Older(k)) <= Cardinality(ks \ {k})
    BY <2>2, <2>3, FS_Subset
  <2> QED
    BY <1>2, <1>3, <2>3, <2>4
<1>5. ASSUME NEW k \in ks, NEW l \in ks, Before(k, l)
      PROVE  Cardinality(Older(k)) < Cardinality(Older(l))
  <2>1. k \notin Older(k) /\ k \in Older(l) /\ Older(k) \subseteq Older(l)
    BY <1>1, <1>5, IndexAssumption DEF Before
  <2>2. Older(k) \in SUBSET (Older(l) \ {k})
    BY <2>1
  <2>3. /\ IsFiniteSet(Older(l) \ {k})
        /\ Cardinality(Older(l) \ {k}) = Cardinality(Older(l)) - 1
    BY <1>3, <2>1, FS_RemoveElement
  <2>4. Cardinality(Older(k)) <= Cardinality(Older(l) \ {k})
    BY <2>2, <2>3, FS_Subset
  <2>5. Cardinality(Older(k)) \in Nat /\ Cardinality(Older(l)) \in Nat
    BY <1>3
  <2> HIDE DEF Older
  <2> QED
    BY <2>3, <2>4, <2>5
<1>6. \A k, l \in ks : k = l \/ Before(k, l) \/ Before(l, k)
  BY <1>1, IndexAssumption DEF Before, DistinctTimes
<1>7. \A k \in ks : Rank(ks, k) = Cardinality(Older(k))
  BY DEF Rank
<1> HIDE DEF Older
<1>8. \A k, l \in ks : Rank(ks, k) = Rank(ks, l) => k = l
  BY <1>3, <1>5, <1>6, <1>7
<1>9. \A k, l \in ks : Before(k, l) <=> Rank(ks, k) < Rank(ks, l)
  BY <1>3, <1>5, <1>6, <1>7
<1>10. \A n \in 0 .. Cardinality(ks) - 1 : \E k \in ks : Rank(ks, k) = n
  <2> DEFINE T == 0 .. Cardinality(ks) - 1
             r == [k \in ks |-> Rank(ks, k)]
  <2>1. \A k \in ks : Rank(ks, k) \in T
    BY <1>2, <1>3, <1>4, <1>7
  <2>2. r \in Injection(ks, T)
    BY <1>8, <2>1 DEF Injection, IsInjective
  <2>3. IsFiniteSet(T) /\ Cardinality(T) = Cardinality(ks)
    <3>1. Cardinality(ks) - 1 \in Int /\ 0 \in Int
      BY <1>2
    <3> QED
      BY <1>2, <3>1, FS_Interval
  <2>4. r \in Surjection(ks, T)
    BY <2>2, <2>3, FS_Injection
  <2> QED
    BY <2>4 DEF Surjection
<1> QED
  BY <1>2, <1>3, <1>4, <1>7, <1>8, <1>9, <1>10

\* A page: the merge of queryEntries returns the first keys in their order, and what it
\* leaves comes after them.
LEMMA PageIsFirst ==
  ASSUME NEW ks \in SUBSET Keys, DistinctTimes(ks), NEW n \in Nat
  PROVE  /\ Page(ks, n) \in Seq(ks)
         /\ \A i, j \in DOMAIN Page(ks, n) : i < j => Before(Page(ks, n)[i], Page(ks, n)[j])
         /\ \A k \in ks : (\A i \in DOMAIN Page(ks, n) : Page(ks, n)[i] # k)
              => \A i \in DOMAIN Page(ks, n) : Before(Page(ks, n)[i], k)
<1> DEFINE m == IF Cardinality(ks) < n THEN Cardinality(ks) ELSE n
           page == Page(ks, n)
<1>1. /\ m \in Nat /\ m <= Cardinality(ks) /\ Cardinality(ks) \in Nat
      /\ \A k \in ks : Rank(ks, k) \in Nat
      /\ \A k, l \in ks : Before(k, l) <=> Rank(ks, k) < Rank(ks, l)
      /\ \A k, l \in ks : Rank(ks, k) = Rank(ks, l) => k = l
      /\ \A i \in 0 .. Cardinality(ks) - 1 : \E k \in ks : Rank(ks, k) = i
  BY Ranks
<1>2. page = [i \in 1 .. m |-> CHOOSE k \in ks : Rank(ks, k) = i - 1]
  BY DEF Page, Rank
<1> HIDE DEF page, m
<1>3. ASSUME NEW i \in 1 .. m
      PROVE  page[i] \in ks /\ Rank(ks, page[i]) = i - 1
  <2>1. i - 1 \in 0 .. Cardinality(ks) - 1
    BY <1>1
  <2>2. \E k \in ks : Rank(ks, k) = i - 1
    BY <1>1, <2>1
  <2>3. page[i] = CHOOSE k \in ks : Rank(ks, k) = i - 1
    BY <1>2
  <2> QED
    BY <2>2, <2>3
<1>4. DOMAIN page = 1 .. m
  BY <1>2
<1>5. page \in Seq(ks)
  <2>1. page \in [1 .. m -> ks]
    BY <1>2, <1>3, <1>4
  <2> QED
    BY <1>1, <2>1
<1>6. ASSUME NEW i \in 1 .. m, NEW j \in 1 .. m, i < j
      PROVE  Before(page[i], page[j])
  BY <1>1, <1>3, <1>6
<1>7. ASSUME NEW k \in ks, \A i \in 1 .. m : page[i] # k, NEW i \in 1 .. m
      PROVE  Before(page[i], k)
  <2>1. Rank(ks, k) \in Nat
    BY <1>1
  <2>2. ~(Rank(ks, k) < m)
    <3> SUFFICES ASSUME Rank(ks, k) < m PROVE FALSE
      OBVIOUS
    <3>1. Rank(ks, k) + 1 \in 1 .. m
      BY <1>1, <2>1
    <3>2. Rank(ks, page[Rank(ks, k) + 1]) = Rank(ks, k) /\ page[Rank(ks, k) + 1] \in ks
      BY <1>3, <2>1, <3>1
    <3> QED
      BY <1>1, <1>7, <3>1, <3>2
  <2> QED
    BY <1>1, <1>3, <2>1, <2>2
<1> QED
  BY <1>4, <1>5, <1>6, <1>7 DEF page

\* The cursor of a category that has keys left is the first of them.
LEMMA FirstIsFirst ==
  ASSUME NEW ks \in SUBSET Keys, DistinctTimes(ks), ks # {}
  PROVE  First(ks) \in ks /\ \A k \in ks : k = First(ks) \/ Before(First(ks), k)
<1>1. /\ Cardinality(ks) \in Nat
      /\ \A k \in ks : Rank(ks, k) \in Nat /\ Rank(ks, k) < Cardinality(ks)
      /\ \A k, l \in ks : Before(k, l) <=> Rank(ks, k) < Rank(ks, l)
      /\ \A k, l \in ks : Rank(ks, k) = Rank(ks, l) => k = l
      /\ \A n \in 0 .. Cardinality(ks) - 1 : \E k \in ks : Rank(ks, k) = n
  BY Ranks
<1>2. PICK k \in ks : Rank(ks, k) = 0
  <2>1. 0 \in 0 .. Cardinality(ks) - 1
    BY <1>1
  <2> QED
    BY <1>1, <2>1
<1>3. \A l \in ks \ {k} : Before(k, l)
  BY <1>1, <1>2
<1> QED
  BY <1>2, <1>3 DEF First

\* Only a write makes a key, and it takes a time of its own.
LEMMA TimesStep == IndexInd /\ TimesInd /\ [Next]_vars => TimesInd'
<1> SUFFICES ASSUME IndexInd, TimesInd, [Next]_vars PROVE TimesInd'
  OBVIOUS
<1> DEFINE OnDisk == {<<disk[p], p>> : p \in {q \in Paths : disk[q] # 0}}
<1>0. StoreTypeOK /\ MaxTime \in Nat
  BY IndexAssumption DEF IndexInd
<1>1. /\ OnDisk \subseteq Known /\ KeysOf(Paths) \subseteq Known
      /\ held # NoKey => held \in Known
      /\ looked # NoKey => looked \in Known
  BY DEF Known
<1>2. ASSUME Known' \subseteq Known, clock' = clock
      PROVE  TimesInd'
  BY <1>2 DEF TimesInd, DistinctTimes
<1>3. Known' = OnDisk' \cup KeysOf(Paths)' \cup ({held', looked'} \ {NoKey})
  BY DEF Known
<1>4. UNCHANGED entries => KeysOf(Paths)' = KeysOf(Paths)
  BY DEF KeysOf
<1>5. UNCHANGED disk => OnDisk' = OnDisk
  OBVIOUS
<1>6. ASSUME NEW p \in Paths, WriteFile(p)
      PROVE  TimesInd'
  <2> DEFINE new == <<clock + 1, p>>
  <2>1. /\ disk' = [disk EXCEPT ![p] = clock + 1] /\ clock' = clock + 1
        /\ UNCHANGED <<entries, held, looked>>
    BY <1>6 DEF WriteFile, Change, dbVars, walkVars
  <2>2. clock \in Nat /\ clock + 1 \in 1 .. MaxTime
    BY <1>0, <1>6 DEF WriteFile, StoreTypeOK, Times
  <2>3. new \in Keys
    BY <2>2 DEF Keys
  <2>4. OnDisk' \subseteq OnDisk \cup {new}
    BY <1>0, <2>1 DEF StoreTypeOK
  <2>5. Known' \subseteq Known \cup {new}
    BY <1>1, <1>3, <1>4, <2>1, <2>4
  <2>6. \A k \in Known : k[1] \in Nat /\ k[1] < clock + 1
    BY <2>2 DEF TimesInd, Keys
  <2>7. new[1] = clock + 1
    OBVIOUS
  <2> HIDE DEF new
  <2>8. DistinctTimes(Known)'
    BY <2>2, <2>5, <2>6, <2>7 DEF TimesInd, DistinctTimes
  <2>9. \A k \in Known' : k[1] <= clock'
    BY <2>1, <2>2, <2>5, <2>6, <2>7
  <2> QED
    BY <2>3, <2>5, <2>8, <2>9 DEF TimesInd
<1>7. ASSUME NEW p \in Paths, RemoveFile(p)
      PROVE  TimesInd'
  <2>1. /\ disk' = [disk EXCEPT ![p] = 0] /\ clock' = clock
        /\ UNCHANGED <<entries, held, looked>>
    BY <1>7 DEF RemoveFile, Change, dbVars, walkVars
  <2>2. OnDisk' \subseteq OnDisk
    BY <1>0, <2>1 DEF StoreTypeOK
  <2> QED
    BY <1>1, <1>2, <1>3, <1>4, <2>1, <2>2
<1>8. ASSUME NEW p \in Paths, Visit(p)
      PROVE  TimesInd'
  <2>1. UNCHANGED <<disk, clock, entries, looked>>
    BY <1>8 DEF Visit, fileVars, dbVars, watchVars
  <2>2. held' = NoKey \/ held' \in OnDisk
    BY <1>8 DEF Visit
  <2> QED
    BY <1>1, <1>2, <1>3, <1>4, <1>5, <2>1, <2>2
<1>9. ASSUME NEW k \in Known, addEntry(k[2], k[1]), UNCHANGED <<disk, clock>>,
             held' \in {held, NoKey}, looked' \in {looked, NoKey}
      PROVE  TimesInd'
  <2>1. k = <<k[1], k[2]>> /\ k[2] \in Paths
    BY DEF TimesInd, Keys
  <2>2. ASSUME NEW l \in KeysOf(Paths)'
        PROVE  l \in Known
    <3>1. PICK q \in Paths : l = <<entries'[q], q>> /\ entries'[q] # 0
      BY <2>2 DEF KeysOf
    <3>2. CASE q = k[2]
      BY <1>0, <1>9, <2>1, <3>1, <3>2 DEF addEntry, StoreTypeOK
    <3>3. CASE q # k[2]
      <4>1. entries'[q] = entries[q]
        BY <1>0, <1>9, <3>3 DEF addEntry, StoreTypeOK
      <4> QED
        BY <1>1, <3>1, <4>1 DEF KeysOf
    <3> QED
      BY <3>2, <3>3
  <2> QED
    BY <1>1, <1>2, <1>3, <1>5, <1>9, <2>2
<1>10. CASE StoreHeld \/ StoreLooked
  BY <1>1, <1>9, <1>10 DEF StoreHeld, StoreLooked, fileVars, watchVars, walkVars
<1>11. ASSUME NEW ps \in SUBSET Paths, deleteKeys(ps), UNCHANGED <<disk, clock, held, looked>>
       PROVE  TimesInd'
  <2>1. KeysOf(Paths)' \subseteq KeysOf(Paths)
    BY <1>0, <1>11 DEF KeysOf, deleteKeys, StoreTypeOK
  <2> QED
    BY <1>1, <1>2, <1>3, <1>5, <1>11, <2>1
<1>17. CASE Compare
  <2>1. UNCHANGED <<disk, clock, entries, looked>> /\ held' \in {held, NoKey}
    BY <1>17 DEF Compare, fileVars, dbVars, watchVars
  <2> QED
    BY <1>1, <1>2, <1>3, <1>4, <1>5, <2>1
<1>12. CASE removeStaleEntries
  <2>1. stale \in SUBSET Paths
    BY <1>0 DEF StoreTypeOK
  <2> QED
    BY <1>11, <1>12, <2>1 DEF removeStaleEntries, fileVars, watchVars
<1>13. CASE Removed
  <2>1. {Head(queue)[1]} \in SUBSET Paths
    BY <1>0, <1>13, TakeEvent DEF Removed
  <2> QED
    BY <1>11, <1>13, <2>1 DEF Removed, fileVars, walkVars
<1>14. CASE Written
  <2>1. UNCHANGED <<disk, clock, entries, held>>
    BY <1>14 DEF Written, fileVars, dbVars, walkVars
  <2>2. looked' = NoKey \/ looked' \in OnDisk
    BY <1>0, <1>14, TakeEvent DEF Written
  <2> QED
    BY <1>1, <1>2, <1>3, <1>4, <1>5, <2>1, <2>2
<1>15. CASE Exit
  BY <1>1, <1>2, <1>3, <1>4, <1>5, <1>15 DEF Exit, fileVars
<1>16. CASE \/ Start \/ markIndexingComplete \/ walkDirs \/ collectStaleKeys
            \/ \E cats \in Requests : Query(cats)
            \/ QueryMore \/ QueryEnds \/ UNCHANGED vars
  <2>1. UNCHANGED <<disk, clock, entries, held, looked>>
    BY <1>16 DEF Start, markIndexingComplete, walkDirs, collectStaleKeys, Query, QueryMore,
                 QueryEnds, vars, fileVars, dbVars, watchVars, walkVars
  <2> QED
    BY <1>1, <1>2, <1>3, <1>4, <1>5, <2>1
<1> QED
  BY <1>6, <1>7, <1>8, <1>10, <1>12, <1>13, <1>14, <1>15, <1>16, <1>17 DEF Next

\* A request is for one category.
OneCategoryEach == \A cats \in Requests : \E c \in Categories : cats = {c}

\* What the client has, and what is left to read of category c.
Got(k) == \E i \in DOMAIN returned : returned[i] = k
Ahead(c, k) == cursor[c] # NoKey /\ (k = cursor[c] \/ Before(cursor[c], k))

PageTypeOK ==
  /\ {ready, hasMore} \subseteq BOOLEAN
  /\ raced \subseteq Paths /\ touched \subseteq Paths
  /\ asked \in Requests \cup {{}}
  /\ cursor \in [Categories -> Keys \cup {NoKey}]
  /\ returned \in Seq(Keys)

\* The cursor of a request comes after all that was returned, and an entry that has not
\* changed since was returned or is not before the cursor.
PageInd ==
  /\ PageTypeOK
  /\ ready => running
  /\ asked = {} => returned = <<>> /\ \A c \in Categories : cursor[c] = NoKey
  /\ PagesResume
  /\ \A c \in asked :
       /\ hasMore <=> cursor[c] # NoKey
       /\ cursor[c] # NoKey => \A i \in DOMAIN returned : Before(returned[i], cursor[c])
       /\ \A p \in Paths \ touched :
            entries[p] # 0 /\ Category[p] = c
              => Got(<<entries[p], p>>) \/ Ahead(c, <<entries[p], p>>)

\* One page of a category: it comes after the pages before it, the cursor comes after it,
\* and nothing is passed over.
LEMMA QueryPage ==
  ASSUME IndexInd, TimesInd, running, PageTypeOK, PagesResume,
         NEW c \in Categories, queryEntries({c}, cursor),
         cursor[c] = NoKey => returned = <<>>,
         cursor[c] # NoKey => \A i \in DOMAIN returned : Before(returned[i], cursor[c])
  PROVE  /\ cursor' \in [Categories -> Keys \cup {NoKey}] /\ returned' \in Seq(Keys)
         /\ hasMore' \in BOOLEAN /\ PagesResume'
         /\ hasMore' <=> cursor'[c] # NoKey
         /\ cursor'[c] # NoKey => \A i \in DOMAIN returned' : Before(returned'[i], cursor'[c])
         /\ \A k : Got(k) => Got(k)'
         /\ \A k \in order : /\ Category[k[2]] = c
                             /\ cursor[c] = NoKey \/ Ahead(c, k)
                             => Got(k)' \/ Ahead(c, k)'
<1> DEFINE ks == From(cursor, c)
           page == Page(ks, Limit)
           rest == ks \ {page[i] : i \in DOMAIN page}
<1>1. /\ returned' = returned \o page
      /\ cursor' = [d \in Categories |-> IF d \in {c} THEN nextCursor(rest) ELSE NoKey]
      /\ hasMore' = (rest # {})
  <2>1. UNION {From(cursor, d) : d \in {c}} = ks
    BY Zenon
  <2> QED
    BY <2>1, Zenon DEF queryEntries, nextCursor
<1>2. order \subseteq Keys /\ DistinctTimes(order)
  BY DEF IndexInd, OrderInd, TimesInd, DistinctTimes, Known
<1>3. /\ ks \subseteq order
      /\ \A k \in order : k \in ks <=> /\ Category[k[2]] = c
                                       /\ cursor[c] = NoKey \/ Ahead(c, k)
  BY DEF From, Ahead
<1>4. ks \in SUBSET Keys /\ DistinctTimes(ks) /\ rest \in SUBSET Keys /\ DistinctTimes(rest)
  BY <1>2, <1>3 DEF DistinctTimes
<1> HIDE DEF ks
<1>5. /\ page \in Seq(ks)
      /\ \A i, j \in DOMAIN page : i < j => Before(page[i], page[j])
      /\ \A k \in ks : (\A i \in DOMAIN page : page[i] # k)
           => \A i \in DOMAIN page : Before(page[i], k)
  BY <1>4, PageIsFirst, IndexAssumption
<1> HIDE DEF page
<1>6. /\ rest \subseteq ks
      /\ \A k \in ks : k \in rest \/ \E i \in DOMAIN page : page[i] = k
      /\ \A k \in rest, i \in DOMAIN page : Before(page[i], k)
  BY <1>5
<1> HIDE DEF rest
<1>7. rest # {} => First(rest) \in rest /\ \A k \in rest : k = First(rest) \/ Before(First(rest), k)
  BY <1>4, FirstIsFirst
<1>8. cursor'[c] = IF rest = {} THEN NoKey ELSE First(rest)
  BY <1>1 DEF nextCursor
<1>9. nextCursor(rest) \in Keys \cup {NoKey}
  BY <1>4, <1>7 DEF nextCursor
<1>10. cursor' \in [Categories -> Keys \cup {NoKey}]
  BY <1>1, <1>9
<1>11. hasMore' \in BOOLEAN /\ (hasMore' <=> cursor'[c] # NoKey)
  BY <1>1, <1>4, <1>7, <1>8, NoKeyAssumption
<1>12. returned \in Seq(Keys) /\ page \in Seq(Keys)
  <2>1. \A i \in DOMAIN page : page[i] \in Keys
    BY <1>4, <1>5
  <2> QED
    BY <1>5, <2>1 DEF PageTypeOK
<1>13. /\ returned' \in Seq(Keys)
       /\ Len(returned) \in Nat /\ Len(page) \in Nat
       /\ DOMAIN returned = 1 .. Len(returned) /\ DOMAIN page = 1 .. Len(page)
       /\ DOMAIN returned' = 1 .. Len(returned) + Len(page)
       /\ \A i \in DOMAIN returned : i \in DOMAIN returned' /\ returned'[i] = returned[i]
       /\ \A i \in DOMAIN page : /\ Len(returned) + i \in DOMAIN returned'
                                 /\ returned'[Len(returned) + i] = page[i]
  BY <1>1, <1>12
<1>14. \A i \in DOMAIN returned' :
         \/ i \in DOMAIN returned /\ returned'[i] = returned[i]
         \/ /\ i > Len(returned) /\ i - Len(returned) \in DOMAIN page
            /\ returned'[i] = page[i - Len(returned)]
  BY <1>13
<1>15. ASSUME NEW i \in DOMAIN returned, NEW k \in ks
       PROVE  Before(returned[i], k)
  <2>1. cursor[c] \in Keys /\ Before(returned[i], cursor[c])
    BY <1>13 DEF PageTypeOK
  <2>2. k = cursor[c] \/ Before(cursor[c], k)
    BY <1>3, <2>1, NoKeyAssumption DEF Ahead
  <2>3. returned[i][1] \in Nat /\ k[1] \in Nat /\ cursor[c][1] \in Nat
    BY <1>4, <1>12, <2>1 DEF Keys
  <2> QED
    BY <2>1, <2>2, <2>3 DEF Before
<1>16. \A i \in DOMAIN page : page[i] \in ks
  BY <1>5
<1>17. PagesResume'
  <2> SUFFICES ASSUME NEW i \in DOMAIN returned', NEW j \in DOMAIN returned', i < j
               PROVE  Before(returned'[i], returned'[j])
    BY DEF PagesResume, Before
  <2>1. CASE i \in DOMAIN returned /\ j \in DOMAIN returned
    BY <2>1, <1>13 DEF PagesResume
  <2>2. CASE i \in DOMAIN returned /\ j \notin DOMAIN returned
    BY <2>2, <1>14, <1>15, <1>16
  <2>3. CASE i \notin DOMAIN returned
    <3>1. j \notin DOMAIN returned /\ i - Len(returned) < j - Len(returned)
      BY <2>3, <1>13
    <3> QED
      BY <2>3, <3>1, <1>14, <1>5
  <2> QED
    BY <2>1, <2>2, <2>3
<1>18. ASSUME cursor'[c] # NoKey, NEW i \in DOMAIN returned'
       PROVE  Before(returned'[i], cursor'[c])
  <2>1. cursor'[c] \in rest /\ cursor'[c] \in ks
    BY <1>18, <1>6, <1>7, <1>8
  <2> QED
    BY <2>1, <1>6, <1>14, <1>15
<1>19. \A k : Got(k) => Got(k)'
  BY <1>13 DEF Got
<1>20. ASSUME NEW k \in order, Category[k[2]] = c, cursor[c] = NoKey \/ Ahead(c, k)
       PROVE  Got(k)' \/ Ahead(c, k)'
  <2>1. k \in ks
    BY <1>3, <1>20
  <2>2. CASE k \in rest
    <3>1. rest # {} /\ cursor'[c] = First(rest) /\ cursor'[c] # NoKey
      BY <2>2, <1>4, <1>7, <1>8, NoKeyAssumption
    <3> QED
      BY <2>2, <3>1, <1>7 DEF Ahead, Before
  <2>3. CASE k \notin rest
    <3>1. PICK i \in DOMAIN page : page[i] = k
      BY <2>1, <2>3, <1>6
    <3> QED
      BY <3>1, <1>13 DEF Got
  <2> QED
    BY <2>2, <2>3
<1> QED
  BY <1>10, <1>11, <1>13, <1>17, <1>18, <1>19, <1>20

\* A change of the index between two pages marks the entries it touches.
LEMMA TouchedStep ==
  ASSUME PageInd, UNCHANGED <<pageVars, ready>>, ready' => running',
         touched \subseteq touched', touched' \subseteq Paths, raced' \subseteq Paths,
         \A p \in Paths \ touched' : entries'[p] = entries[p]
  PROVE  PageInd'
<1> USE DEF pageVars
<1>1. PageTypeOK'
  BY DEF PageInd, PageTypeOK
<1>2. PagesResume'
  BY DEF PageInd, PagesResume, Before
<1>3. \A k, c : (Got(k)' <=> Got(k)) /\ (Ahead(c, k)' <=> Ahead(c, k))
  BY DEF Got, Ahead, Before
<1>4. ASSUME NEW c \in asked
      PROVE  /\ hasMore' <=> cursor'[c] # NoKey
             /\ cursor'[c] # NoKey => \A i \in DOMAIN returned' : Before(returned'[i], cursor'[c])
             /\ \A p \in Paths \ touched' :
                  entries'[p] # 0 /\ Category[p] = c
                    => Got(<<entries[p], p>>)' \/ Ahead(c, <<entries[p], p>>)'
  <2>1. ASSUME NEW p \in Paths \ touched', entries'[p] # 0, Category[p] = c
        PROVE  Got(<<entries[p], p>>)' \/ Ahead(c, <<entries[p], p>>)'
    <3>1. entries'[p] = entries[p] /\ p \notin touched
      BY <2>1
    <3>2. Got(<<entries[p], p>>) \/ Ahead(c, <<entries[p], p>>)
      BY <1>4, <2>1, <3>1 DEF PageInd
    <3> QED
      BY <3>1, <3>2 DEF Got, Ahead, Before
  <2> QED
    BY <1>4, <2>1 DEF PageInd, Before
<1> QED
  BY <1>1, <1>2, <1>4 DEF PageInd

\* A client's request: the first page and the others.
LEMMA RequestStep ==
  ASSUME OneCategoryEach, IndexInd, TimesInd, PageInd,
         QueryMore \/ QueryEnds \/ \E cats \in Requests : Query(cats)
  PROVE  PageInd'
<1> USE DEF fileVars, dbVars
<1>1. ASSUME NEW cats \in Requests, queryEntries(cats, cursor), asked' = cats,
             \/ asked = {} /\ touched' = {}
             \/ asked = cats /\ touched' = touched /\ hasMore,
             ready, UNCHANGED <<running, entries, order, ready, raced>>
      PROVE  PageInd'
  <2>1. PICK c \in Categories : cats = {c}
    BY DEF OneCategoryEach
  <2>2. /\ cursor[c] = NoKey => returned = <<>>
        /\ cursor[c] # NoKey => \A i \in DOMAIN returned : Before(returned[i], cursor[c])
        /\ running /\ PageTypeOK /\ PagesResume
    BY <1>1, <2>1 DEF PageInd
  <2>3. /\ cursor' \in [Categories -> Keys \cup {NoKey}] /\ returned' \in Seq(Keys)
        /\ hasMore' \in BOOLEAN /\ PagesResume'
        /\ hasMore' <=> cursor'[c] # NoKey
        /\ cursor'[c] # NoKey => \A i \in DOMAIN returned' : Before(returned'[i], cursor'[c])
        /\ \A k : Got(k) => Got(k)'
        /\ \A k \in order : /\ Category[k[2]] = c
                            /\ cursor[c] = NoKey \/ Ahead(c, k)
                            => Got(k)' \/ Ahead(c, k)'
    BY <1>1, <2>1, <2>2, QueryPage
  <2>4. PageTypeOK'
    BY <1>1, <2>3 DEF PageInd, PageTypeOK
  <2>5. ASSUME NEW p \in Paths \ touched', entries'[p] # 0, Category[p] = c
        PROVE  Got(<<entries[p], p>>)' \/ Ahead(c, <<entries[p], p>>)'
    <3> DEFINE k == <<entries[p], p>>
    <3>1. k \in order /\ Category[k[2]] = c
      BY <1>1, <2>2, <2>5 DEF IndexInd, OrderInd, KeysOf
    <3>2. Got(k) \/ cursor[c] = NoKey \/ Ahead(c, k)
      BY <1>1, <2>1, <2>5 DEF PageInd
    <3>3. (\E i \in DOMAIN returned' : returned'[i] = k)
          \/ (cursor'[c] # NoKey /\ (k = cursor'[c] \/ Before(cursor[c], k)'))
      BY <1>1, <2>3, <3>1, <3>2 DEF Got, Ahead, Before
    <3> QED
      BY <1>1, <3>3 DEF Got, Ahead, Before
  <2> QED
    BY <1>1, <2>1, <2>2, <2>3, <2>4, <2>5 DEF PageInd
<1>2. CASE QueryMore
  <2>1. asked \in Requests
    BY <1>2 DEF QueryMore, PageInd, PageTypeOK
  <2> QED
    BY <1>1, <1>2, <2>1 DEF QueryMore
<1>3. ASSUME NEW cats \in Requests, Query(cats)
      PROVE  PageInd'
  <2>1. /\ queryEntries(cats, cursor) /\ asked' = cats /\ asked = {} /\ touched' = {} /\ ready
        /\ UNCHANGED <<running, entries, order, ready, raced>>
    BY <1>3 DEF Query
  <2> QED
    BY <1>1, <2>1
<1>4. CASE QueryEnds
  <2>1. /\ asked' = {} /\ returned' = <<>> /\ touched' = {}
        /\ cursor' = [c \in Categories |-> NoKey]
        /\ UNCHANGED <<ready, running, raced, hasMore>>
    BY <1>4 DEF QueryEnds
  <2>2. returned' \in Seq(Keys)
    BY <2>1
  <2>3. PageTypeOK'
    BY <2>1, <2>2 DEF PageInd, PageTypeOK
  <2>4. PagesResume'
    BY <2>1 DEF PagesResume
  <2> QED
    BY <2>1, <2>3, <2>4 DEF PageInd
<1> QED
  BY <1>2, <1>3, <1>4

\* The pages of a request, whatever happens to the index between them.
LEMMA PageStep == OneCategoryEach /\ IndexInd /\ TimesInd /\ PageInd /\ [Next]_vars => PageInd'
<1> SUFFICES ASSUME OneCategoryEach, IndexInd, TimesInd, PageInd, [Next]_vars PROVE PageInd'
  OBVIOUS
<1>0. /\ touched \subseteq Paths /\ raced \subseteq Paths /\ ready \in BOOLEAN
      /\ ready => running
      /\ StoreTypeOK
  BY DEF PageInd, PageTypeOK, IndexInd
<1>1. ASSUME NEW p \in Paths, WriteFile(p) \/ RemoveFile(p) \/ Visit(p)
      PROVE  PageInd'
  <2>1. /\ UNCHANGED <<pageVars, ready, running, touched, entries>>
        /\ raced' \subseteq raced \cup {p}
    BY <1>1 DEF WriteFile, RemoveFile, Visit, Change, dbVars
  <2> QED
    BY <1>0, <2>1, TouchedStep
<1>2. CASE StoreHeld \/ StoreLooked
  <2>1. PICK k \in Keys : addEntry(k[2], k[1])
    BY <1>0, <1>2 DEF StoreHeld, StoreLooked, StoreTypeOK
  <2>2. k[2] \in Paths
    BY DEF Keys
  <2>3. /\ touched' = touched \cup {k[2]}
        /\ \A p \in Paths \ touched' : entries'[p] = entries[p]
    BY <1>0, <2>1 DEF addEntry, StoreTypeOK
  <2>4. UNCHANGED <<pageVars, ready, running, raced>>
    BY <1>2 DEF StoreHeld, StoreLooked
  <2> QED
    BY <1>0, <2>2, <2>3, <2>4, TouchedStep
<1>3. CASE removeStaleEntries \/ Removed
  <2>1. PICK ps \in SUBSET Paths : deleteKeys(ps)
    <3>1. CASE removeStaleEntries
      BY <1>0, <3>1 DEF removeStaleEntries, StoreTypeOK
    <3>2. CASE Removed
      <4>1. {Head(queue)[1]} \in SUBSET Paths
        BY <1>0, <3>2, TakeEvent DEF Removed
      <4> QED
        BY <3>2, <4>1 DEF Removed
    <3> QED
      BY <1>3, <3>1, <3>2
  <2>2. /\ touched' = touched \cup ps
        /\ \A p \in Paths \ touched' : entries'[p] = entries[p]
    BY <2>1 DEF deleteKeys
  <2>3. UNCHANGED <<pageVars, ready, running, raced>>
    BY <1>3 DEF removeStaleEntries, Removed
  <2> QED
    BY <1>0, <2>2, <2>3, TouchedStep
<1>4. CASE Compare \/ walkDirs \/ collectStaleKeys \/ Written \/ UNCHANGED vars
  <2>1. UNCHANGED <<pageVars, ready, running, touched, entries, raced>>
    BY <1>4 DEF Compare, walkDirs, collectStaleKeys, Written, vars, dbVars
  <2> QED
    BY <1>0, <2>1, TouchedStep
<1>5. CASE Start \/ markIndexingComplete
  <2>1. /\ UNCHANGED <<pageVars, touched, entries>>
        /\ running' /\ ready' \in BOOLEAN /\ raced' \subseteq Paths
    BY <1>0, <1>5 DEF Start, markIndexingComplete, dbVars, IndexInd, Phases, StoreTypeOK
  <2>2. PageTypeOK'
    BY <2>1 DEF PageInd, PageTypeOK, pageVars
  <2>3. PagesResume'
    BY <2>1 DEF PageInd, PagesResume, Before, pageVars
  <2> QED
    BY <2>1, <2>2, <2>3 DEF PageInd, pageVars, Got, Ahead, Before
<1>6. CASE Exit
  <2>1. /\ asked' = {} /\ returned' = <<>> /\ touched' = {} /\ raced' = {}
        /\ cursor' = [c \in Categories |-> NoKey] /\ hasMore' = FALSE /\ ready' = FALSE
    BY <1>6 DEF Exit
  <2>2. returned' \in Seq(Keys)
    BY <2>1
  <2>3. PageTypeOK'
    BY <2>1, <2>2 DEF PageTypeOK
  <2>4. PagesResume'
    BY <2>1 DEF PagesResume
  <2> QED
    BY <2>1, <2>3, <2>4 DEF PageInd
<1>7. CASE QueryMore \/ QueryEnds \/ \E cats \in Requests : Query(cats)
  BY <1>7, RequestStep
<1> QED
  BY <1>1, <1>2, <1>3, <1>4, <1>5, <1>6, <1>7 DEF Next

\* No request has been made of a device that starts.
LEMMA PageInitial == IndexInit => TimesInd /\ PageInd
<1> SUFFICES ASSUME IndexInit PROVE TimesInd /\ PageInd
  OBVIOUS
<1>1. /\ 1 \in 1 .. MaxTime /\ MaxTime \in Nat
  BY IndexAssumption
<1>2. \A k \in Known : \E p \in Paths : k = <<1, p>> /\ disk[p] = 1
  BY DEF IndexInit, Known, KeysOf
<1>3. Known \subseteq Keys
  BY <1>1, <1>2 DEF Keys
<1>4. DistinctTimes(Known) /\ \A k \in Known : k[1] <= clock
  BY <1>2 DEF IndexInit, DistinctTimes
<1>5. returned \in Seq(Keys)
  BY DEF IndexInit
<1>6. PageTypeOK
  BY <1>5 DEF IndexInit, PageTypeOK
<1>7. PagesResume
  BY DEF IndexInit, PagesResume
<1> QED
  BY <1>3, <1>4, <1>6, <1>7 DEF TimesInd, PageInd, IndexInit

\* The pages of queryEntries, for requests of one category: they return every entry that stays
\* as it is once and in order, whatever is added, replaced or removed between two pages.  (A
\* request of several may begin a category again: the run index_pages.)
THEOREM PagesExact == OneCategoryEach => (Spec => []PagesAreExact)
<1> SUFFICES ASSUME OneCategoryEach PROVE Spec => []PagesAreExact
  OBVIOUS
<1> DEFINE Ind == IndexInd /\ TimesInd /\ PageInd
<1>1. IndexInit => Ind
  BY IndexInitial, PageInitial
<1>2. Ind /\ [Next]_vars => Ind'
  BY IndexStep, TimesStep, PageStep
<1>3. Ind => PagesAreExact
  <2> SUFFICES ASSUME IndexInd, TimesInd, PageInd PROVE PagesAreExact
    OBVIOUS
  <2>1. order \subseteq Keys
    BY IndexAssumption DEF IndexInd, OrderInd, TimesInd, Known
  <2>2. \A i \in DOMAIN queue : queue[i] \in Paths \X {"write", "remove"}
    BY DEF IndexInd, StoreTypeOK, WatchEvents
  <2>3. IndexTypeOK
    BY <2>1, <2>2 DEF IndexInd, StoreTypeOK, PageInd, PageTypeOK, IndexTypeOK
  <2>4. PagesComplete
    BY DEF PageInd, PagesComplete, Got, Ahead
  <2> QED
    BY <2>3, <2>4 DEF PageInd, PagesAreExact
<1> QED
  BY <1>1, <1>2, <1>3, PTL DEF Spec
=============================================================================
