----------------------------- MODULE FileIndex -----------------------------
(***************************************************************************)
(* The file index of a device (fileindex.go, indexdb.go).  The database    *)
(* survives the process.  Two goroutines write to it: one walks the tree,  *)
(* to index it the first time or to bring it up to date after a restart,   *)
(* the other follows the file system's events.  Each looks at a file first *)
(* and changes the database later, in a transaction of its own.  A client  *)
(* reads the index page by page.                                           *)
(*                                                                         *)
(* Paths are the files that are indexed: not hidden, of a known category,  *)
(* in one folder.  Thumbnails, sizes and directories are left out.  Every  *)
(* write of a file has a time of its own; 0 stands for no file, no entry.  *)
(***************************************************************************)
EXTENDS Integers, Sequences, FiniteSets

CONSTANTS
  Paths,
  Categories,
  Category,   \* of each path
  MaxTime,    \* bound: writes of files
  MaxQueue,   \* bound: events not yet taken
  Limit,      \* entries per page
  Requests,   \* the sets of categories clients ask for
  NoKey

ASSUME IndexAssumption ==
  /\ Category \in [Paths -> Categories]
  /\ {MaxTime, MaxQueue, Limit} \subseteq Nat \ {0}
  /\ Requests \subseteq SUBSET Categories /\ {} \notin Requests

Keys == (1 .. MaxTime) \X Paths   \* orderKey: the time, then the path
ASSUME NoKeyAssumption == NoKey \notin Keys

VARIABLES
  disk, clock,      \* the files with their times; the last time used
  running,          \* the process is alive
  entries, order,   \* the entries by path and the order index, of all categories
  complete,         \* the database's status is "ready"
  ready,
  watching,         \* the folder is watched
  queue,            \* events of the watcher
  looked,           \* what handleWatchEvent has seen of a file
  indexer, walk,    \* the walking goroutine and the paths it has to visit
  held, due,        \* what it has seen of a file, and whether to store it
  stale,            \* what collectStaleKeys has found
  raced,            \* files whose last change nobody will see
  asked, cursor, hasMore, returned,  \* a client's request and what it got
  touched           \* entries changed since its first page

dbVars == <<entries, order, touched>>
fileVars == <<disk, clock>>
walkVars == <<indexer, walk, held, due, stale>>
watchVars == <<watching, queue, looked>>
pageVars == <<asked, cursor, hasMore, returned>>
vars == <<fileVars, running, dbVars, complete, ready, watchVars, walkVars, raced, pageVars>>

Times == 0 .. MaxTime

IndexTypeOK ==
  /\ disk \in [Paths -> Times] /\ clock \in Times
  /\ {running, complete, ready, watching, due, hasMore} \subseteq BOOLEAN
  /\ entries \in [Paths -> Times] /\ order \subseteq Keys
  /\ \A i \in DOMAIN queue : queue[i] \in Paths \X {"write", "remove"}
  /\ looked \in Keys \cup {NoKey} /\ held \in Keys \cup {NoKey}
  /\ indexer \in {"off", "indexing", "syncing", "pruning", "done"}
  /\ walk \subseteq Paths /\ stale \subseteq Paths
  /\ raced \subseteq Paths /\ touched \subseteq Paths
  /\ asked \in Requests \cup {{}}
  /\ cursor \in [Categories -> Keys \cup {NoKey}]
  /\ returned \in Seq(Keys)

\* No database, or one made before there was an order index: complete, with an entry
\* for each file there was.
IndexInit ==
  /\ disk \in [Paths -> 0 .. 1] /\ clock = 1
  /\ \A p, q \in Paths : disk[p] = 1 /\ disk[q] = 1 => p = q
  /\ running = FALSE
  /\ order = {} /\ touched = {}
  /\ \/ entries = [p \in Paths |-> 0] /\ complete = FALSE
     \/ entries = disk /\ complete = TRUE
  /\ ready = FALSE
  /\ watching = FALSE /\ queue = <<>> /\ looked = NoKey
  /\ indexer = "off" /\ walk = {} /\ held = NoKey /\ due = FALSE /\ stale = {} /\ raced = {}
  /\ asked = {} /\ cursor = [c \in Categories |-> NoKey] /\ hasMore = FALSE
  /\ returned = <<>>

-----------------------------------------------------------------------------
(* The database.                                                           *)

\* Mutant: the order index keeps the key of the entry that is replaced.
addEntryKeepsOldKey(p, t) ==
  /\ entries' = [entries EXCEPT ![p] = t]
  /\ order' = order \cup {<<t, p>>}
  /\ touched' = touched \cup {p}

addEntry(p, t) ==
  /\ entries' = [entries EXCEPT ![p] = t]
  /\ order' = (order \ {<<entries[p], p>>}) \cup {<<t, p>>}
  /\ touched' = touched \cup {p}

\* deleteEntry for each of the paths, in one transaction.
deleteKeys(ps) ==
  /\ entries' = [p \in Paths |-> IF p \in ps THEN 0 ELSE entries[p]]
  /\ order' = order \ {<<entries[p], p>> : p \in ps}
  /\ touched' = touched \cup ps

-----------------------------------------------------------------------------
(* The file system (external).                                             *)

\* The change of p, to the time t, escapes both goroutines: a walk has passed it
\* before the folder was watched, or has looked at it already; it is about to be
\* deleted from the index; or it is gone and nobody prunes in the first walk.
Escapes(p, t) ==
  \/ running /\ ~watching /\ p \notin walk
  \/ held # NoKey /\ held[2] = p
  \/ p \in stale
  \/ running /\ ~watching /\ ~complete /\ t = 0

Change(p, t, kind) ==
  /\ disk' = [disk EXCEPT ![p] = t]
  /\ raced' = IF Escapes(p, t) THEN raced \cup {p} ELSE raced
  /\ IF watching
       THEN Len(queue) < MaxQueue /\ queue' = Append(queue, <<p, kind>>)
       ELSE UNCHANGED queue
  /\ UNCHANGED <<running, dbVars, complete, ready, watching, looked, walkVars, pageVars>>

WriteFile(p) ==
  /\ clock < MaxTime
  /\ clock' = clock + 1
  /\ Change(p, clock + 1, "write")

RemoveFile(p) ==
  /\ disk[p] # 0
  /\ Change(p, 0, "remove")
  /\ UNCHANGED clock

-----------------------------------------------------------------------------
(* Start and end of the process.                                           *)

KeysOf(ps) == {<<entries[p], p>> : p \in {q \in ps : entries[q] # 0}}

\* The order index of a category is built when it is empty.
ensureOrderIndexes ==
  order' = order \cup UNION {KeysOf({p \in Paths : Category[p] = c}) :
                               c \in {d \in Categories : \A k \in order : Category[k[2]] # d}}

\* NewIndexService and Start.  The first walk adds and never prunes.
Start ==
  /\ ~running
  /\ ensureOrderIndexes
  /\ running' = TRUE
  /\ ready' = complete
  /\ indexer' = IF complete THEN "syncing" ELSE "indexing"
  /\ walk' = Paths
  /\ raced' = IF complete THEN {} ELSE {p \in Paths : disk[p] = 0 /\ entries[p] # 0}
  /\ UNCHANGED <<fileVars, entries, touched, complete, watchVars, held, due, stale, pageVars>>

\* The daemon ends: what its goroutines held is gone, the database stays.
Exit ==
  /\ running
  /\ running' = FALSE /\ ready' = FALSE
  /\ watching' = FALSE /\ queue' = <<>> /\ looked' = NoKey
  /\ indexer' = "off" /\ walk' = {} /\ held' = NoKey /\ due' = FALSE /\ stale' = {}
  /\ asked' = {} /\ cursor' = [c \in Categories |-> NoKey] /\ hasMore' = FALSE
  /\ returned' = <<>> /\ touched' = {} /\ raced' = {}
  /\ UNCHANGED <<fileVars, entries, order, complete>>

-----------------------------------------------------------------------------
(* The walk: runIndexer and runSync.                                       *)

\* isEntryUpToDate compares whole seconds, here two units of time.
Second(t) == t \div 2
isEntryUpToDate(p, t) == entries[p] # 0 /\ Second(entries[p]) = Second(t)

\* walkFileEntries reaches p and takes its time.
Visit(p) ==
  /\ indexer \in {"indexing", "syncing"} /\ held = NoKey /\ p \in walk
  /\ walk' = walk \ {p}
  /\ held' = IF disk[p] = 0 THEN NoKey ELSE <<disk[p], p>>
  /\ due' = (disk[p] # 0 /\ indexer = "indexing")
  /\ UNCHANGED <<fileVars, running, dbVars, complete, ready, watchVars, indexer, stale,
                 raced, pageVars>>

\* A sync then looks whether the database has that time, and skips what it has.
Compare ==
  /\ held # NoKey /\ ~due
  /\ IF isEntryUpToDate(held[2], held[1])
       THEN held' = NoKey /\ UNCHANGED due
       ELSE due' = TRUE /\ UNCHANGED held
  /\ UNCHANGED <<fileVars, running, dbVars, complete, ready, watchVars, indexer, walk, stale,
                 raced, pageVars>>

StoreHeld ==
  /\ held # NoKey /\ due
  /\ addEntry(held[2], held[1])
  /\ held' = NoKey /\ due' = FALSE
  /\ UNCHANGED <<fileVars, running, complete, ready, watchVars, indexer, walk, stale,
                 raced, pageVars>>

Walked == walk = {} /\ held = NoKey

markIndexingComplete ==
  /\ indexer = "indexing" /\ Walked
  /\ complete' = TRUE /\ ready' = TRUE
  /\ indexer' = "done"
  /\ UNCHANGED <<fileVars, running, dbVars, watchVars, walk, held, due, stale, raced, pageVars>>

\* removeStaleEntries looks in one transaction and deletes in another.
collectStaleKeys ==
  /\ indexer = "syncing" /\ Walked
  /\ stale' = {p \in Paths : entries[p] # 0 /\ disk[p] = 0}
  /\ indexer' = "pruning"
  /\ UNCHANGED <<fileVars, running, dbVars, complete, ready, watchVars, walk, held, due, raced,
                 pageVars>>

removeStaleEntries ==
  /\ indexer = "pruning"
  /\ deleteKeys(stale)
  /\ stale' = {}
  /\ indexer' = "done"
  /\ UNCHANGED <<fileVars, running, complete, ready, watchVars, walk, held, due, raced, pageVars>>

-----------------------------------------------------------------------------
(* The watcher: runWatcher and handleWatchEvent.                           *)

walkDirs ==
  /\ running /\ ~watching
  /\ watching' = TRUE
  /\ UNCHANGED <<fileVars, running, dbVars, complete, ready, queue, looked, walkVars, raced,
                 pageVars>>

Take(kind) == looked = NoKey /\ queue # <<>> /\ Head(queue)[2] = kind /\ queue' = Tail(queue)

\* Mutant: an event is acted on only while the file is there.
RemovedLooks ==
  /\ Take("remove")
  /\ LET p == Head(queue)[1] IN IF disk[p] # 0 THEN deleteKeys({p}) ELSE UNCHANGED dbVars
  /\ UNCHANGED <<fileVars, running, complete, ready, watching, looked, walkVars, raced, pageVars>>

Removed ==
  /\ Take("remove")
  /\ deleteKeys({Head(queue)[1]})
  /\ UNCHANGED <<fileVars, running, complete, ready, watching, looked, walkVars, raced, pageVars>>

\* Lstat: a file that is gone again is left to its next event.
Written ==
  /\ Take("write")
  /\ LET p == Head(queue)[1] IN looked' = IF disk[p] = 0 THEN NoKey ELSE <<disk[p], p>>
  /\ UNCHANGED <<fileVars, running, dbVars, complete, ready, watching, walkVars, raced, pageVars>>

StoreLooked ==
  /\ looked # NoKey
  /\ addEntry(looked[2], looked[1])
  /\ looked' = NoKey
  /\ UNCHANGED <<fileVars, running, complete, ready, watching, queue, walkVars, raced, pageVars>>

-----------------------------------------------------------------------------
(* The query: newest first, the categories merged.                         *)

Before(k, l) == k[1] > l[1]
First(ks) == CHOOSE k \in ks : \A l \in ks \ {k} : Before(k, l)

\* Mutant: a page starts after the item at the cursor.
FromAfter(cur, c) ==
  {k \in order : Category[k[2]] = c /\ (cur[c] = NoKey \/ Before(cur[c], k))}

\* Where a category is read from: its cursor, or else its beginning.
From(cur, c) ==
  {k \in order : /\ Category[k[2]] = c
                 /\ cur[c] = NoKey \/ k = cur[c] \/ Before(cur[c], k)}

\* The first n keys of ks, in their order: the i-th has i - 1 before it.
Page(ks, n) ==
  LET rank(k) == Cardinality({l \in ks : Before(l, k)})
  IN [i \in 1 .. IF Cardinality(ks) < n THEN Cardinality(ks) ELSE n |->
        CHOOSE k \in ks : rank(k) = i - 1]

\* The first unconsumed item of a category.
nextCursor(rest) == IF rest = {} THEN NoKey ELSE First(rest)

\* A category that is read to its end has no cursor in the answer.
queryEntries(cats, cur) ==
  LET page == Page(UNION {From(cur, c) : c \in cats}, Limit)
      Rest(c) == From(cur, c) \ {page[i] : i \in DOMAIN page} IN
  /\ returned' = returned \o page
  /\ cursor' = [c \in Categories |-> IF c \in cats THEN nextCursor(Rest(c)) ELSE NoKey]
  /\ hasMore' = \E c \in cats : Rest(c) # {}

\* A client begins a request; while the index is not ready there is nothing to get.
Query(cats) ==
  /\ ready /\ asked = {}
  /\ asked' = cats
  /\ touched' = {}
  /\ queryEntries(cats, cursor)
  /\ UNCHANGED <<fileVars, running, entries, order, complete, ready, watchVars, walkVars, raced>>

QueryMore ==
  /\ ready /\ asked # {} /\ hasMore
  /\ queryEntries(asked, cursor)
  /\ UNCHANGED <<fileVars, running, dbVars, complete, ready, watchVars, walkVars, raced, asked>>

QueryEnds ==
  /\ asked # {} /\ ~hasMore
  /\ asked' = {} /\ returned' = <<>> /\ touched' = {}
  /\ cursor' = [c \in Categories |-> NoKey]
  /\ UNCHANGED <<fileVars, running, entries, order, complete, ready, watchVars, walkVars, raced,
                 hasMore>>

-----------------------------------------------------------------------------
Next ==
  \/ \E p \in Paths : WriteFile(p) \/ RemoveFile(p) \/ Visit(p)
  \/ Start \/ Exit
  \/ Compare \/ StoreHeld \/ markIndexingComplete \/ collectStaleKeys \/ removeStaleEntries
  \/ walkDirs \/ Removed \/ Written \/ StoreLooked
  \/ (\E cats \in Requests : Query(cats)) \/ QueryMore \/ QueryEnds

Spec == IndexInit /\ [][Next]_vars

-----------------------------------------------------------------------------
(* The order index has one key for each entry and no other, whichever of   *)
(* the two goroutines replaced, deleted or pruned it: a page never shows a *)
(* file twice nor skips one (indexdb.go:59-77, 241-250), of an old         *)
(* database as well, once it is open (indexdb.go:295-319).                 *)
OrderIsIndex == running => order = KeysOf(Paths)

(* When both goroutines have nothing left to do the index shows the tree,  *)
(* to the second, for every file but those whose change escaped them: a    *)
(* file that the walk had looked at, had passed before the folder was      *)
(* watched or had found stale (fileindex.go:208-231, 256-309).             *)
CaughtUp ==
  indexer = "done" /\ watching /\ queue = <<>> /\ looked = NoKey =>
    \A p \in Paths \ raced :
      entries[p] = disk[p] \/ (disk[p] # 0 /\ isEntryUpToDate(p, disk[p]))

(* A page resumes where the one before ended: what the pages of a request  *)
(* return is in order and nothing comes twice, while the index changes     *)
(* between them (indexdb.go:132-133, "resumes iteration").                 *)
PagesResume ==
  \A i, j \in DOMAIN returned : i < j => Before(returned[i], returned[j])

(* When a request has no more pages, every entry that stayed as it was has *)
(* been returned, whatever was added or removed around it.                 *)
PagesComplete ==
  asked # {} /\ ~hasMore =>
    \A p \in Paths \ touched :
      entries[p] # 0 /\ Category[p] \in asked =>
        \E i \in DOMAIN returned : returned[i] = <<entries[p], p>>

(* The pages of a request return each entry that stays as it is once, in   *)
(* order.                                                                  *)
PagesAreExact == IndexTypeOK /\ PagesResume /\ PagesComplete
=============================================================================
