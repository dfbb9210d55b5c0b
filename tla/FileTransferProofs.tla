------------------------- MODULE FileTransferProofs -------------------------
(***************************************************************************)
(* A transfer that returns nil is complete and its progress count exact,   *)
(* for every manifest, chunk size and number of workers.                   *)
(***************************************************************************)
EXTENDS FileTransfer, FiniteSetTheorems, TLAPS

C == parallelChunkSize

-----------------------------------------------------------------------------
(* What planChunks computes. *)

\* The size of a file of a manifest is a number.
LEMMA SizeIsNat ==
    ASSUME NEW m \in Seq(Entry), NEW i \in Files(m)
    PROVE  m[i].Size \in Nat
  <1>1. m[i] \in Entry
    BY DEF Files
  <1> QED
    BY <1>1 DEF Entry

\* A planned chunk is the k-th of some file.
LEMMA ChunkIs ==
    ASSUME NEW m \in Seq(Entry), NEW c \in planChunks(m)
    PROVE  \E i \in Files(m), k \in Nat :
             /\ k * C < m[i].Size
             /\ c = ChunkAt(i, k * C, m[i].Size)
  BY DEF planChunks, C, Files, Entry

\* Its range is not empty, lies inside the file, and is at most one chunk size long.
LEMMA ChunkRange ==
    ASSUME NEW m \in Seq(Entry), NEW c \in planChunks(m)
    PROVE  /\ c.RelPath \in Files(m)
           /\ c.Offset \in Nat /\ c.Length \in 1 .. C
           /\ c.Offset + c.Length <= m[c.RelPath].Size
           /\ c = [RelPath |-> c.RelPath, Offset |-> c.Offset, Length |-> c.Length]
           /\ Covered(c) \subseteq Pieces(m)
  <1>1. PICK i \in Files(m), k \in Nat :
           k * C < m[i].Size /\ c = ChunkAt(i, k * C, m[i].Size)
    BY ChunkIs
  <1> DEFINE o == k * C
             n == m[i].Size
  <1>2. o \in Nat /\ n \in Nat /\ C \in Nat \ {0} /\ o < n
    <2>1. C \in Nat \ {0}
      BY ChunkSizeAssumption DEF C
    <2> QED
      BY <1>1, <2>1, SizeIsNat
  <1> HIDE DEF o, n
  <1>3. c = ChunkAt(i, o, n) /\ n = m[i].Size
    BY <1>1 DEF o, n
  <1>4. /\ c.RelPath = i /\ c.Offset = o
        /\ c.Length \in 1 .. C /\ o + c.Length <= n
        /\ c = [RelPath |-> c.RelPath, Offset |-> c.Offset, Length |-> c.Length]
    BY <1>2, <1>3 DEF ChunkAt, C
  <1>5. Covered(c) \subseteq Pieces(m)
    <2>1. ASSUME NEW p \in c.Offset .. c.Offset + c.Length - 1
          PROVE  <<c.RelPath, p>> \in {<<i, q>> : q \in 0 .. m[i].Size - 1}
      BY <1>2, <1>3, <1>4
    <2> QED
      BY <2>1 DEF Covered, Pieces
  <1> QED
    BY <1>2, <1>3, <1>4, <1>5

\* The piece a worker writes next belongs to its chunk.
LEMMA InCovered ==
    ASSUME NEW m \in Seq(Entry), NEW c \in planChunks(m), NEW q \in 0 .. c.Length - 1
    PROVE  <<c.RelPath, c.Offset + q>> \in Covered(c)
  <1>1. c.Offset \in Nat /\ c.Length \in Nat
    BY ChunkRange, ChunkSizeAssumption DEF C
  <1>2. c.Offset + q \in c.Offset .. c.Offset + c.Length - 1
    BY <1>1
  <1> QED
    BY <1>2 DEF Covered

\* Every piece of every file is in the range of a planned chunk.
LEMMA PlanCovers ==
    ASSUME NEW m \in Seq(Entry), NEW x \in Pieces(m)
    PROVE  \E c \in planChunks(m) : x \in Covered(c)
  <1>0. PICK i \in Files(m) : x \in {<<i, p>> : p \in 0 .. m[i].Size - 1}
    BY DEF Pieces
  <1>1. PICK p \in 0 .. m[i].Size - 1 : x = <<i, p>>
    BY <1>0
  <1> DEFINE n == m[i].Size
             k == p \div C
  <1>2. n \in Nat /\ p \in Nat /\ p < n /\ C \in Nat \ {0}
    <2>1. C \in Nat \ {0}
      BY ChunkSizeAssumption DEF C
    <2> QED
      BY <2>1, SizeIsNat
  <1>3. k \in Nat /\ k * C <= p /\ p < k * C + C
    BY <1>2
  <1> HIDE DEF k
  <1>4. k * C \in Nat /\ k <= k * C
    BY <1>2, <1>3
  <1> DEFINE c == ChunkAt(i, k * C, n)
  <1>5. k \in {l \in 0 .. n : l * parallelChunkSize < n}
    BY <1>2, <1>3, <1>4 DEF C
  <1>6. c \in planChunks(m)
    BY <1>5 DEF planChunks, C
  <1>7. p \in c.Offset .. c.Offset + c.Length - 1 /\ c.RelPath = i
    BY <1>2, <1>3, <1>4 DEF ChunkAt, C
  <1> QED
    BY <1>1, <1>6, <1>7 DEF Covered

\* Two chunks that share a piece are the same.
LEMMA PlanDisjoint ==
    ASSUME NEW m \in Seq(Entry), NEW c \in planChunks(m), NEW d \in planChunks(m),
           NEW x \in Covered(c) \cap Covered(d)
    PROVE  c = d
  <1>1. PICK i \in Files(m), k \in Nat :
           k * C < m[i].Size /\ c = ChunkAt(i, k * C, m[i].Size)
    BY ChunkIs
  <1>2. PICK j \in Files(m), l \in Nat :
           l * C < m[j].Size /\ d = ChunkAt(j, l * C, m[j].Size)
    BY ChunkIs
  <1>3. C \in Nat \ {0} /\ c.Length \in 1 .. C /\ d.Length \in 1 .. C
    BY ChunkSizeAssumption, ChunkRange DEF C
  <1>4. /\ c.RelPath = i /\ c.Offset = k * C
        /\ d.RelPath = j /\ d.Offset = l * C
    BY <1>1, <1>2 DEF ChunkAt
  <1>5. PICK p \in c.Offset .. c.Offset + c.Length - 1 : x = <<c.RelPath, p>>
    BY DEF Covered
  <1>6. i = j /\ p \in d.Offset .. d.Offset + d.Length - 1
    BY <1>4, <1>5 DEF Covered
  <1> DEFINE a == k * C
             b == l * C
  <1>7. a \in Nat /\ b \in Nat /\ a <= p /\ p < a + C /\ b <= p /\ p < b + C
    BY <1>3, <1>4, <1>5, <1>6
  <1>8. k = l
    <2>1. CASE k < l
      <3>1. a + C <= b
        BY <2>1, <1>3
      <3> QED BY <3>1, <1>3, <1>7
    <2>2. CASE l < k
      <3>1. b + C <= a
        BY <2>2, <1>3
      <3> QED BY <3>1, <1>3, <1>7
    <2> QED BY <2>1, <2>2
  <1> QED
    BY <1>1, <1>2, <1>6, <1>8

-----------------------------------------------------------------------------
(* The inductive invariant. *)

\* Before the workers start there is nothing to see of them.
NotStarted ==
    stage \in {"list", "materialize"} =>
        /\ good = {} /\ unfed = {} /\ errs = 0 /\ ~cancelled /\ result = "none"
        /\ \A w \in Workers : 
              worker[w] = "none" /\ job[w] = NoJob /\ sent[w] = 0 /\ copied[w] = 0
        /\ stage = "list" => made = 0

\* Only started workers run, and none is left when the transfer returns.
OnlyStarted ==
    /\ \A w \in Workers : worker[w] # "none" => w \in Started
    /\ stage = "done" => \A w \in Workers : worker[w] \in {"none", "ok", "err"}
    /\ stage # "done" => result = "none"

\* The targets materializeTargets is through with have their final size.
Sized ==
    /\ \A i \in Files(entries) : i <= made => size[i] = entries[i].Size
    /\ stage \in {"feed", "wait"} => made = Len(entries)

\* Without an error in errCh nothing was cancelled and no worker has failed.
ErrorsKept ==
    /\ errs = 0 => ~cancelled /\ \A w \in Workers : worker[w] # "err"
    /\ stage = "wait" => unfed = {} \/ cancelled

\* A worker has a chunk in its hands: it is busy with it, or has failed on it.
Holds(w) == worker[w] \in {"busy", "err"} /\ job[w] # NoJob

\* Every planned chunk is still to be handed out, in the hands of a worker, copied,
\* or was in the hands of a worker that failed.
EachChunk ==
    stage \in {"feed", "wait"} =>
        \A c \in planChunks(entries) :
            \/ c \in unfed
            \/ Covered(c) \subseteq good
            \/ \E w \in Workers : worker[w] \in {"busy", "err"} /\ job[w] = c

\* The beginning of a chunk in a worker's hands is written and nobody has written the rest;
\* nobody has written anything of a chunk that is still to be handed out.
CopiedSoFar ==
    /\ \A w \in Workers : Holds(w) =>
        /\ \A q \in 0 .. copied[w] - 1 : PieceOf(w, q) \in good
        /\ \A q \in copied[w] .. job[w].Length - 1 : PieceOf(w, q) \notin good
    /\ \A c \in unfed : Covered(c) \cap good = {}

\* A chunk is in the hands of one worker at most, and then no longer in the feeder's.
OneHolder ==
    \A w \in Workers : Holds(w) =>
        /\ job[w] \notin unfed
        /\ \A v \in Workers : Holds(v) /\ job[v] = job[w] => v = w

\* Nothing of a worker without a chunk is under way, and a worker has none before its stream
\* is open.
Settled ==
    \A w \in Workers :
        /\ ~Holds(w) => sent[w] = copied[w]
        /\ worker[w] \in {"none", "open"} => job[w] = NoJob

\* What progress counts.
Counted == IF upload THEN good \cup InFlight ELSE good

Exact == IsFiniteSet(Counted) /\ done = Cardinality(Counted)

IInv ==
    /\ TypeOK
    /\ NotStarted
    /\ OnlyStarted
    /\ Sized
    /\ ErrorsKept
    /\ EachChunk
    /\ CopiedSoFar
    /\ OneHolder
    /\ Settled
    /\ Exact
    /\ CompleteOnSuccess

-----------------------------------------------------------------------------
(* The invariant is inductive. *)

\* What the manifest determines: Workers is fixed, chunks have their shape.
LEMMA WorkersType == effectiveWorkers \in Nat
  BY WorkersAssumption DEF effectiveWorkers

\* A chunk in a worker's hands is a planned one.
LEMMA HeldJob ==
    ASSUME TypeOK, NEW w \in Workers, Holds(w)
    PROVE  /\ job[w] \in planChunks(entries)
           /\ job[w].Offset \in Nat /\ job[w].Length \in Nat
           /\ Covered(job[w]) \subseteq Pieces(entries)
           /\ \A q \in 0 .. job[w].Length - 1 : PieceOf(w, q) \in Covered(job[w])
  <1>1. entries \in Seq(Entry) /\ job[w] \in planChunks(entries)
    BY DEF TypeOK, Holds
  <1>2. job[w].Offset \in Nat /\ job[w].Length \in Nat /\ Covered(job[w]) \subseteq Pieces(entries)
    BY <1>1, ChunkRange, ChunkSizeAssumption DEF C
  <1> QED
    BY <1>1, <1>2, InCovered DEF PieceOf

\* Chunks in the hands of two workers share no piece.
LEMMA HeldApart ==
    ASSUME TypeOK, OneHolder, NEW w \in Workers, Holds(w), NEW v \in Workers, Holds(v), v # w
    PROVE  \A p \in 0 .. job[w].Length - 1, q \in 0 .. job[v].Length - 1 :
              PieceOf(w, p) # PieceOf(v, q)
  <1>1. job[w] # job[v]
    BY DEF OneHolder
  <1> QED
    BY <1>1, HeldJob, PlanDisjoint DEF TypeOK

\* What is under way of a worker's chunk.
Way(w) == {PieceOf(w, q) : q \in copied[w] .. sent[w] - 1}

\* InFlight is the union of the workers' pieces under way.
LEMMA InFlightIs == \A x : x \in InFlight <=> \E w \in Workers : x \in Way(w)
  BY DEF InFlight, Way

\* Nothing is under way of a worker without a chunk.
LEMMA WayEmpty ==
    ASSUME TypeOK, Settled, NEW w \in Workers, ~Holds(w)
    PROVE  Way(w) = {}
  <1>1. copied[w] \in Nat /\ sent[w] = copied[w]
    BY DEF TypeOK, Settled
  <1> QED
    BY <1>1 DEF Way

\* The count stands when nothing is sent or written.
LEMMA SameCount ==
    ASSUME Exact, UNCHANGED <<upload, good, done, job, sent, copied>>
    PROVE  Exact'
  <1>1. InFlight' = InFlight
    BY DEF InFlight, PieceOf
  <1> QED
    BY <1>1 DEF Exact, Counted

\* A transfer that has not started satisfies the invariant.
LEMMA InitIInv ==
    ASSUME Init
    PROVE  IInv
  <1> USE DEF Init
  <1>1. Files(entries) = {} /\ Len(entries) = 0
    BY DEF Files
  <1>2. TypeOK
    <2>1. entries \in Seq(Entry) /\ size \in [1 .. Len(entries) -> Nat]
      BY <1>1
    <2>2. /\ worker \in [Workers -> WorkerState]
          /\ job \in [Workers -> planChunks(entries) \cup {NoJob}]
          /\ copied \in [Workers -> Nat] /\ sent \in [Workers -> Nat]
      BY DEF WorkerState
    <2>3. \A w \in Workers :
            copied[w] <= sent[w] /\ sent[w] <= job[w].Length /\ worker[w] # "busy"
      BY DEF NoJob
    <2>4. made \in 0 .. Len(entries) /\ errs \in Nat /\ done \in Nat
      BY <1>1
    <2>5. cancelled \in BOOLEAN /\ good \subseteq Pieces(entries) /\ unfed \subseteq planChunks(entries)
      OBVIOUS
    <2>6. stage = "list" /\ result = "none" /\ upload \in BOOLEAN
      OBVIOUS
    <2> QED
      BY <2>1, <2>2, <2>3, <2>4, <2>5, <2>6, Zenon DEF TypeOK
  <1>3. NotStarted /\ OnlyStarted /\ Sized /\ ErrorsKept
    BY <1>1 DEF NotStarted, OnlyStarted, Sized, ErrorsKept
  <1>4. EachChunk /\ CopiedSoFar /\ OneHolder /\ Settled /\ CompleteOnSuccess
    BY DEF EachChunk, CopiedSoFar, OneHolder, Settled, CompleteOnSuccess, Holds
  <1>5. Exact
    <2>1. \A x : x \notin InFlight
      BY DEF InFlight
    <2>2. Counted = {}
      BY <2>1 DEF Counted
    <2> QED
      BY <2>2, FS_EmptySet DEF Exact
  <1> QED
    BY <1>2, <1>3, <1>4, <1>5 DEF IInv

\* The steps before the workers start.
LEMMA PreparePreserves ==
    ASSUME IInv,
           \/ \E m \in Manifests : \E old \in [1 .. Len(m) -> OldSizes] : List(m, old)
           \/ ListFails \/ MaterializeEntry \/ MaterializeFails \/ NothingToCopy
    PROVE  IInv'
  <1> USE DEF IInv
  <1>1. ASSUME NEW m \in Manifests, NEW old \in [1 .. Len(m) -> OldSizes], List(m, old)
        PROVE  IInv'
    <2>1. m \in Seq(Entry) /\ old \in [1 .. Len(m) -> Nat] /\ Len(m) \in Nat
      <3>1. m \in Seq(Entry)
        BY ManifestsAssumption
      <3>2. old \in [1 .. Len(m) -> Nat]
        BY OldSizesAssumption
      <3> QED BY <3>1, <3>2
    <2>2. TypeOK'
      <3>1. /\ entries' \in Seq(Entry)
            /\ size' \in [1 .. Len(entries') -> Nat]
            /\ made' \in 0 .. Len(entries')
        BY <1>1, <2>1 DEF List, NotStarted
      <3>2. job' \in [Workers -> planChunks(entries') \cup {NoJob}]
        BY <1>1 DEF List, TypeOK, NotStarted, workVars
      <3>3. good' \subseteq Pieces(entries') /\ unfed' \subseteq planChunks(entries')
        BY <1>1 DEF List, NotStarted
      <3> QED
        BY <1>1, <3>1, <3>2, <3>3 DEF List, TypeOK, workVars
    <2>3. NotStarted' /\ OnlyStarted' /\ ErrorsKept'
      BY <1>1 DEF List, NotStarted, OnlyStarted, ErrorsKept, workVars
    <2>4. Sized'
      <3>1. made' = 0
        BY <1>1 DEF List, TypeOK, Sized, NotStarted
      <3> QED
        BY <1>1, <2>1, <3>1 DEF List, Sized, Files
    <2>5. EachChunk' /\ CopiedSoFar' /\ OneHolder' /\ Settled' /\ CompleteOnSuccess'
      BY <1>1 DEF List, EachChunk, CopiedSoFar, OneHolder, Settled, CompleteOnSuccess,
                  NotStarted, Holds, workVars
    <2>6. Exact'
      BY <1>1, SameCount DEF List, workVars
    <2> QED
      BY <2>2, <2>3, <2>4, <2>5, <2>6
  <1>2. ASSUME ListFails \/ MaterializeFails PROVE IInv'
    <2>1. /\ stage \in {"list", "materialize"} /\ stage' = "done" /\ result' = "error"
          /\ UNCHANGED <<upload, entries, made, unfed, size, good, done, worker, job, sent, copied,
                         cancelled, errs>>
      BY <1>2 DEF ListFails, MaterializeFails, Return, targetVars, workVars
    <2>2. TypeOK' /\ NotStarted' /\ Sized'
      BY <2>1 DEF TypeOK, NotStarted, Sized
    <2>3. OnlyStarted' /\ ErrorsKept' /\ EachChunk'
      BY <2>1 DEF NotStarted, OnlyStarted, ErrorsKept, EachChunk, Started
    <2>4. CopiedSoFar' /\ OneHolder' /\ Settled' /\ Exact' /\ CompleteOnSuccess'
      BY <2>1, SameCount DEF CopiedSoFar, OneHolder, Settled, CompleteOnSuccess, Holds, PieceOf
    <2> QED
      BY <2>2, <2>3, <2>4
  <1>3. ASSUME MaterializeEntry PROVE IInv'
    <2>1. /\ stage = "materialize" /\ made < Len(entries) /\ made' = made + 1
          /\ UNCHANGED <<upload, stage, entries, unfed, result, good, done, worker, job, sent, copied,
                         cancelled, errs>>
      BY <1>3 DEF MaterializeEntry, workVars
    <2>2. /\ entries \in Seq(Entry) /\ Len(entries) \in Nat /\ made \in 0 .. Len(entries)
          /\ size \in [1 .. Len(entries) -> Nat]
      BY DEF TypeOK
    <2>3. entries[made + 1] \in Entry
      BY <2>1, <2>2
    <2>4. /\ size' \in [1 .. Len(entries) -> Nat]
          /\ \A i \in Files(entries) : i <= made + 1 => size'[i] = entries[i].Size
      <3>1. \A i \in 1 .. Len(entries) : i # made + 1 => size'[i] = size[i]
        BY <1>3, <2>2 DEF MaterializeEntry
      <3>2. ~entries[made + 1].IsDir => size'[made + 1] = entries[made + 1].Size
        BY <1>3, <2>1, <2>2 DEF MaterializeEntry
      <3>3. size' \in [1 .. Len(entries) -> Nat]
        BY <1>3, <2>2, <2>3 DEF MaterializeEntry, Entry
      <3> QED
        BY <3>1, <3>2, <3>3, <2>2 DEF Files, Sized
    <2>5. TypeOK'
      BY <2>1, <2>2, <2>4 DEF TypeOK
    <2>6. NotStarted' /\ OnlyStarted' /\ ErrorsKept' /\ EachChunk'
      BY <2>1 DEF NotStarted, OnlyStarted, ErrorsKept, EachChunk, Started
    <2>7. Sized'
      BY <2>1, <2>4 DEF Sized
    <2>8. CopiedSoFar' /\ OneHolder' /\ Settled' /\ Exact' /\ CompleteOnSuccess'
      BY <2>1, SameCount DEF CopiedSoFar, OneHolder, Settled, CompleteOnSuccess, Holds, PieceOf,
                  NotStarted
    <2> QED
      BY <2>5, <2>6, <2>7, <2>8
  <1>4. ASSUME NothingToCopy PROVE IInv'
    <2>1. /\ stage = "materialize" /\ stage' = "done" /\ result' = "ok"
          /\ made = Len(entries) /\ planChunks(entries) = {}
          /\ UNCHANGED <<upload, entries, made, unfed, size, good, done, worker, job, sent, copied,
                         cancelled, errs>>
      BY <1>4 DEF NothingToCopy, Return, targetVars, workVars
    <2>2. TypeOK' /\ NotStarted' /\ Sized'
      BY <2>1 DEF TypeOK, NotStarted, Sized
    <2>3. OnlyStarted' /\ ErrorsKept' /\ EachChunk'
      BY <2>1 DEF NotStarted, OnlyStarted, ErrorsKept, EachChunk, Started
    <2>4. CopiedSoFar' /\ OneHolder' /\ Settled' /\ Exact'
      BY <2>1, SameCount DEF CopiedSoFar, OneHolder, Settled, Holds, PieceOf
    <2>5. CompleteOnSuccess'
      <3>1. Pieces(entries) = {} /\ good = {}
        BY <2>1, PlanCovers DEF TypeOK, NotStarted
      <3>2. \A i \in Files(entries) : size[i] = entries[i].Size
        BY <2>1 DEF Sized, Files
      <3> QED
        BY <2>1, <3>1, <3>2 DEF CompleteOnSuccess
    <2> QED
      BY <2>2, <2>3, <2>4, <2>5
  <1> QED
    BY <1>1, <1>2, <1>3, <1>4

\* The feeder's steps and the end of the transfer.
LEMMA FeederPreserves ==
    ASSUME IInv, StartWorkers \/ CloseJobs \/ Finish
    PROVE  IInv'
  <1> USE DEF IInv
  <1>1. ASSUME StartWorkers PROVE IInv'
    <2>1. /\ stage = "materialize" /\ stage' = "feed" /\ made = Len(entries)
          /\ unfed' = planChunks(entries)
          /\ worker' = [w \in Workers |-> IF w \in Started THEN "open" ELSE "none"]
          /\ UNCHANGED <<upload, entries, made, result, size, good, done, job, sent, copied, cancelled, errs>>
      BY <1>1 DEF StartWorkers, targetVars
    <2>2. TypeOK'
      <3>1. worker' \in [Workers -> WorkerState] /\ \A w \in Workers : worker'[w] # "busy"
        BY <2>1 DEF WorkerState
      <3> QED
        BY <2>1, <3>1 DEF TypeOK
    <2>3. NotStarted' /\ OnlyStarted' /\ ErrorsKept' /\ Sized'
      BY <2>1 DEF NotStarted, OnlyStarted, ErrorsKept, Sized, Started
    <2>4. EachChunk' /\ CopiedSoFar' /\ OneHolder' /\ Settled'
      BY <2>1 DEF EachChunk, CopiedSoFar, OneHolder, Settled, NotStarted, Holds
    <2>5. Exact' /\ CompleteOnSuccess'
      BY <2>1, SameCount DEF CompleteOnSuccess, NotStarted
    <2> QED
      BY <2>2, <2>3, <2>4, <2>5
  <1>2. ASSUME CloseJobs PROVE IInv'
    <2>1. /\ stage = "feed" /\ stage' = "wait" /\ (unfed = {} \/ cancelled)
          /\ UNCHANGED <<upload, entries, made, unfed, result, size, good, done, worker, job, sent, copied,
                         cancelled, errs>>
      BY <1>2 DEF CloseJobs, targetVars, workVars
    <2>2. TypeOK' /\ NotStarted' /\ OnlyStarted' /\ ErrorsKept' /\ Sized'
      BY <2>1 DEF TypeOK, NotStarted, OnlyStarted, ErrorsKept, Sized, Started
    <2>3. EachChunk' /\ CopiedSoFar' /\ OneHolder' /\ Settled' /\ Exact' /\ CompleteOnSuccess'
      BY <2>1, SameCount DEF EachChunk, CopiedSoFar, OneHolder, Settled,
                  CompleteOnSuccess, Holds, PieceOf
    <2> QED
      BY <2>2, <2>3
  <1>3. ASSUME Finish PROVE IInv'
    <2>1. /\ stage = "wait" /\ stage' = "done"
          /\ result' = IF errs > 0 THEN "error" ELSE "ok"
          /\ \A w \in Started : worker[w] \in {"ok", "err"}
          /\ UNCHANGED <<upload, entries, made, unfed, size, good, done, worker, job, sent, copied,
                         cancelled, errs>>
      BY <1>3 DEF Finish, Return, targetVars, workVars
    <2>2. TypeOK' /\ NotStarted' /\ ErrorsKept' /\ Sized'
      BY <2>1 DEF TypeOK, NotStarted, ErrorsKept, Sized
    <2>3. OnlyStarted' /\ EachChunk'
      BY <2>1 DEF OnlyStarted, EachChunk, Started
    <2>4. CopiedSoFar' /\ OneHolder' /\ Settled' /\ Exact'
      BY <2>1, SameCount DEF CopiedSoFar, OneHolder, Settled, Holds, PieceOf
    <2>5. CompleteOnSuccess'
      <3> SUFFICES ASSUME errs = 0
                   PROVE  /\ good = Pieces(entries)
                          /\ \A i \in Files(entries) : size[i] = entries[i].Size
        BY <2>1 DEF CompleteOnSuccess, TypeOK
      <3>1. unfed = {} /\ \A w \in Workers : worker[w] \notin {"busy", "err"}
        BY <2>1 DEF ErrorsKept, OnlyStarted
      <3>2. \A c \in planChunks(entries) : Covered(c) \subseteq good
        BY <2>1, <3>1 DEF EachChunk
      <3>3. Pieces(entries) \subseteq good
        BY <3>2, PlanCovers DEF TypeOK
      <3>4. \A i \in Files(entries) : size[i] = entries[i].Size
        BY <2>1 DEF Sized, Files
      <3> QED
        BY <3>3, <3>4 DEF TypeOK
    <2> QED
      BY <2>2, <2>3, <2>4, <2>5
  <1> QED
    BY <1>1, <1>2, <1>3

\* A worker gets a chunk.
LEMMA TakePreserves ==
    ASSUME IInv, NEW w \in Workers, Take(w)
    PROVE  IInv'
  <1> USE DEF IInv
  <1>1. PICK c \in unfed : unfed' = unfed \ {c} /\ job' = [job EXCEPT ![w] = c]
    BY DEF Take, HandOut
  <1>2. /\ stage = "feed" /\ worker[w] = "idle"
        /\ worker' = [worker EXCEPT ![w] = "busy"]
        /\ sent' = [sent EXCEPT ![w] = 0] /\ copied' = [copied EXCEPT ![w] = 0]
        /\ UNCHANGED <<upload, stage, entries, made, result, size, good, done, cancelled, errs>>
    BY DEF Take, targetVars
  <1>3. /\ worker \in [Workers -> WorkerState]
        /\ copied \in [Workers -> Nat] /\ sent \in [Workers -> Nat]
        /\ job \in [Workers -> planChunks(entries) \cup {NoJob}]
        /\ entries \in Seq(Entry) /\ c \in planChunks(entries)
    BY DEF TypeOK
  <1>4. c.Length \in Nat \ {0} /\ c # NoJob
    BY <1>3, ChunkRange, ChunkSizeAssumption DEF NoJob, C
  <1>5. /\ worker'[w] = "busy" /\ job'[w] = c /\ copied'[w] = 0 /\ sent'[w] = 0
        /\ \A v \in Workers \ {w} : /\ worker'[v] = worker[v] /\ job'[v] = job[v]
                                     /\ copied'[v] = copied[v] /\ sent'[v] = sent[v]
    BY <1>1, <1>2, <1>3
  <1>6. TypeOK'
    <2>1. /\ worker' \in [Workers -> WorkerState]
          /\ copied' \in [Workers -> Nat] /\ sent' \in [Workers -> Nat]
          /\ job' \in [Workers -> planChunks(entries) \cup {NoJob}]
      BY <1>1, <1>2, <1>3 DEF WorkerState
    <2>2. \A v \in Workers : /\ copied'[v] <= sent'[v] /\ sent'[v] <= job'[v].Length
                             /\ worker'[v] = "busy" => job'[v] # NoJob
      BY <1>4, <1>5 DEF TypeOK
    <2> QED
      BY <1>1, <1>2, <2>1, <2>2 DEF TypeOK
  <1>7. NotStarted' /\ OnlyStarted' /\ ErrorsKept' /\ Sized'
    BY <1>1, <1>2, <1>5 DEF NotStarted, OnlyStarted, ErrorsKept, Sized, Started
  <1>8. EachChunk'
    <2> SUFFICES ASSUME NEW d \in planChunks(entries)
                 PROVE  \/ d \in unfed'
                        \/ Covered(d) \subseteq good
                        \/ \E v \in Workers : worker'[v] \in {"busy", "err"} /\ job'[v] = d
      BY <1>2 DEF EachChunk
    <2>1. CASE d = c
      BY <2>1, <1>5
    <2>2. CASE d # c
      <3>1. \/ d \in unfed
            \/ Covered(d) \subseteq good
            \/ \E v \in Workers : worker[v] \in {"busy", "err"} /\ job[v] = d
        BY <1>2 DEF EachChunk
      <3> QED
        BY <2>2, <3>1, <1>1, <1>2, <1>5
    <2> QED BY <2>1, <2>2
  <1>9. CopiedSoFar'
    <2>1. \A q \in 0 .. c.Length - 1 : <<c.RelPath, c.Offset + q>> \in Covered(c)
      BY <1>3, InCovered
    <2>2. Covered(c) \cap good = {}
      BY DEF CopiedSoFar
    <2>3. \A v \in Workers \ {w} : Holds(v)' => Holds(v) /\ \A q \in Nat : PieceOf(v, q)' = PieceOf(v, q)
      BY <1>5 DEF Holds, PieceOf
    <2>4. ASSUME NEW v \in Workers, Holds(v)'
          PROVE  /\ \A q \in 0 .. copied'[v] - 1 : PieceOf(v, q)' \in good
                 /\ \A q \in copied'[v] .. job'[v].Length - 1 : PieceOf(v, q)' \notin good
      <3>1. CASE v = w
        BY <3>1, <1>4, <1>5, <2>1, <2>2 DEF PieceOf
      <3>2. CASE v # w
        BY <2>4, <3>2, <1>3, <1>5 DEF CopiedSoFar, Holds, PieceOf
      <3> QED BY <3>1, <3>2
    <2> QED
      BY <2>4, <1>1, <1>2 DEF CopiedSoFar
  <1>10. OneHolder' /\ Settled'
    BY <1>1, <1>2, <1>4, <1>5 DEF OneHolder, Settled, Holds
  <1>11. Exact'
    <2>1. Way(w) = {} /\ Way(w)' = {}
      BY <1>2, <1>5, WayEmpty DEF Holds, Way
    <2>2. \A v \in Workers \ {w} : Way(v)' = Way(v)
      BY <1>5 DEF Way, PieceOf
    <2>3. InFlight' = InFlight
      BY <2>1, <2>2, InFlightIs DEF InFlight, Way
    <2> QED
      BY <2>3, <1>2 DEF Exact, Counted
  <1>12. CompleteOnSuccess'
    BY <1>2 DEF CompleteOnSuccess
  <1> QED
    BY <1>6, <1>7, <1>8, <1>9, <1>10, <1>11, <1>12

\* A piece goes into the stream that nobody has sent.
LEMMA SendPreserves ==
    ASSUME IInv, NEW w \in Workers, SendPiece(w)
    PROVE  IInv'
  <1> USE DEF IInv
  <1> DEFINE x == PieceOf(w, sent[w])
  <1>1. /\ worker[w] = "busy" /\ sent[w] < job[w].Length
        /\ done' = IF upload THEN done + 1 ELSE done
        /\ sent' = [sent EXCEPT ![w] = @ + 1]
        /\ UNCHANGED <<upload, stage, entries, made, unfed, result, size, good, worker, job,
                       copied, cancelled, errs>>
    BY DEF SendPiece, ctlVars
  <1>2. /\ Holds(w) /\ sent \in [Workers -> Nat] /\ copied \in [Workers -> Nat]
        /\ copied[w] <= sent[w] /\ done \in Nat
    BY <1>1 DEF TypeOK, Holds
  <1>3. /\ sent'[w] = sent[w] + 1
        /\ \A v \in Workers \ {w} : sent'[v] = sent[v]
    BY <1>1, <1>2
  <1>4. TypeOK'
    <2>1. sent' \in [Workers -> Nat] /\ done' \in Nat
      BY <1>1, <1>2
    <2>2. \A v \in Workers : copied[v] <= sent'[v] /\ sent'[v] <= job[v].Length
      <3>1. job[w].Length \in Nat
        BY <1>2, HeldJob
      <3> QED
        BY <1>1, <1>2, <1>3, <3>1 DEF TypeOK
    <2> QED
      BY <1>1, <2>1, <2>2 DEF TypeOK
  <1>5. NotStarted' /\ OnlyStarted' /\ ErrorsKept' /\ Sized'
    BY <1>1 DEF NotStarted, OnlyStarted, ErrorsKept, Sized, Started
  <1>6. EachChunk' /\ OneHolder' /\ CompleteOnSuccess'
    BY <1>1 DEF EachChunk, OneHolder, CompleteOnSuccess, Holds
  <1>7. CopiedSoFar' /\ Settled'
    BY <1>1, <1>2, <1>3 DEF CopiedSoFar, Settled, Holds, PieceOf
  <1>8. Exact'
    <2>1. CASE ~upload
      BY <2>1, <1>1 DEF Exact, Counted
    <2>2. CASE upload
      <3>1. /\ job[w].Length \in Nat
            /\ sent[w] \in copied[w] .. job[w].Length - 1
            /\ sent[w] \in 0 .. job[w].Length - 1
            /\ job[w].Offset \in Nat
        BY <1>1, <1>2, HeldJob
      <3>2. x \notin good
        BY <1>2, <3>1 DEF CopiedSoFar
      <3>3. ASSUME NEW v \in Workers PROVE x \notin Way(v)
        <4>1. CASE v = w
          BY <4>1, <1>2, <3>1 DEF Way, PieceOf
        <4>2. CASE v # w /\ Holds(v)
          <5>1. \A q \in copied[v] .. sent[v] - 1 : q \in 0 .. job[v].Length - 1
            BY <4>2, <1>2, HeldJob DEF TypeOK
          <5> QED
            BY <4>2, <5>1, <1>2, <3>1, HeldApart DEF Way
        <4>3. CASE ~Holds(v)
          BY <4>3, WayEmpty
        <4> QED BY <4>1, <4>2, <4>3
      <3>4. Way(w)' = Way(w) \cup {x}
        <4>1. copied[w] .. sent'[w] - 1 = (copied[w] .. sent[w] - 1) \cup {sent[w]}
          BY <1>2, <1>3
        <4> QED
          BY <4>1, <1>1 DEF Way, PieceOf
      <3>5. \A v \in Workers \ {w} : Way(v)' = Way(v)
        BY <1>1, <1>3 DEF Way, PieceOf
      <3> HIDE DEF x
      <3>6. InFlight' = InFlight \cup {x}
        BY <3>4, <3>5 DEF InFlight, Way
      <3>7. Counted' = Counted \cup {x} /\ x \notin Counted
        BY <2>2, <1>1, <3>2, <3>3, <3>6, InFlightIs DEF Counted
      <3> QED
        BY <2>2, <3>7, <1>1, FS_AddElement DEF Exact
    <2> QED
      BY <2>1, <2>2 DEF TypeOK
  <1> QED
    BY <1>4, <1>5, <1>6, <1>7, <1>8

\* A receiver writes a piece nobody has written; it may be one of a worker that has failed.
LEMMA WritePreserves ==
    ASSUME IInv, NEW w \in Workers, WritePiece(w) \/ LateWrite(w)
    PROVE  IInv'
  <1> USE DEF IInv
  <1> DEFINE x == PieceOf(w, copied[w])
  <1>1. /\ worker[w] \in {"busy", "err"} /\ copied[w] < sent[w]
        /\ good' = good \cup {x}
        /\ done' = IF upload THEN done ELSE done + 1
        /\ copied' = [copied EXCEPT ![w] = @ + 1]
        /\ UNCHANGED <<upload, stage, entries, made, unfed, result, size, worker, job, sent,
                       cancelled, errs>>
    BY DEF WritePiece, LateWrite, Write, ctlVars
  <1>2. /\ Holds(w) /\ entries \in Seq(Entry) /\ done \in Nat
        /\ sent \in [Workers -> Nat] /\ copied \in [Workers -> Nat]
        /\ sent[w] <= job[w].Length
    <2>1. /\ entries \in Seq(Entry) /\ done \in Nat /\ sent[w] <= job[w].Length
          /\ sent \in [Workers -> Nat] /\ copied \in [Workers -> Nat]
      BY DEF TypeOK
    <2>2. sent[w] # copied[w]
      BY <1>1, <2>1
    <2> QED
      BY <2>1, <2>2 DEF Settled
  <1>3. /\ job[w] \in planChunks(entries) /\ job[w].Offset \in Nat /\ job[w].Length \in Nat
        /\ Covered(job[w]) \subseteq Pieces(entries)
    BY <1>2, HeldJob
  <1>4. x \in Covered(job[w]) /\ x \notin good
    <2>1. copied[w] \in 0 .. job[w].Length - 1 /\ copied[w] \in copied[w] .. job[w].Length - 1
      BY <1>1, <1>2, <1>3
    <2> QED
      BY <1>2, <2>1, HeldJob DEF CopiedSoFar
  <1>5. /\ copied'[w] = copied[w] + 1
        /\ \A v \in Workers \ {w} : copied'[v] = copied[v]
    BY <1>1, <1>2
  <1>6. TypeOK'
    <2>1. copied' \in [Workers -> Nat] /\ good' \subseteq Pieces(entries) /\ done' \in Nat
      BY <1>1, <1>2, <1>3, <1>4 DEF TypeOK
    <2>2. \A v \in Workers : copied'[v] <= sent[v]
      BY <1>1, <1>2, <1>5 DEF TypeOK
    <2> QED
      BY <1>1, <2>1, <2>2 DEF TypeOK
  <1>7. NotStarted' /\ OnlyStarted' /\ ErrorsKept' /\ Sized' /\ OneHolder' /\ Settled'
    BY <1>1, <1>2, <1>5
       DEF NotStarted, OnlyStarted, ErrorsKept, Sized, OneHolder, Settled, Started, Holds
  <1>8. EachChunk'
    BY <1>1 DEF EachChunk
  <1>9. CopiedSoFar'
    <2>1. ASSUME NEW v \in Workers, Holds(v)
          PROVE  /\ \A q \in 0 .. copied'[v] - 1 : PieceOf(v, q) \in good'
                 /\ \A q \in copied'[v] .. job[v].Length - 1 : PieceOf(v, q) \notin good'
      <3>1. job[v].Offset \in Nat /\ job[v].Length \in Nat /\ copied[v] \in Nat
        BY <1>2, <2>1, HeldJob
      <3>2. CASE v = w
        <4>1. \A q \in Nat : q # copied[w] => PieceOf(w, q) # x
          BY <1>2, <1>3 DEF PieceOf
        <4> QED
          BY <3>1, <3>2, <4>1, <1>1, <1>2, <1>5 DEF CopiedSoFar
      <3>3. CASE v # w
        <4>1. copied[w] \in 0 .. job[w].Length - 1
          BY <1>1, <1>2, <1>3
        <4>2. \A q \in copied[v] .. job[v].Length - 1 : PieceOf(v, q) # x
          BY <2>1, <3>1, <3>3, <4>1, <1>2, HeldApart
        <4> HIDE DEF x
        <4> QED
          BY <3>3, <4>2, <2>1, <1>1, <1>5 DEF CopiedSoFar
      <3> QED BY <3>2, <3>3
    <2>2. ASSUME NEW d \in unfed PROVE Covered(d) \cap good' = {}
      <3>1. d # job[w] /\ d \in planChunks(entries)
        BY <1>2 DEF OneHolder, TypeOK
      <3>2. x \notin Covered(d)
        BY <3>1, <1>2, <1>3, <1>4, PlanDisjoint
      <3> HIDE DEF x
      <3> QED
        BY <3>2, <1>1 DEF CopiedSoFar
    <2> QED
      BY <2>1, <2>2, <1>1 DEF CopiedSoFar, Holds, PieceOf
  <1>10. Exact'
    <2>1. CASE ~upload
      <3>1. Counted' = Counted \cup {x} /\ x \notin Counted
        BY <2>1, <1>1, <1>4 DEF Counted
      <3> HIDE DEF x
      <3> QED
        BY <2>1, <3>1, <1>1, FS_AddElement DEF Exact
    <2>2. CASE upload
      <3>1. Way(w) = Way(w)' \cup {x}
        <4>1. copied[w] .. sent[w] - 1 = (copied'[w] .. sent[w] - 1) \cup {copied[w]}
          BY <1>1, <1>2, <1>5
        <4> QED
          BY <4>1, <1>1 DEF Way, PieceOf
      <3>2. \A v \in Workers \ {w} : Way(v)' = Way(v)
        BY <1>1, <1>5 DEF Way, PieceOf
      <3> HIDE DEF x
      <3>3. InFlight = InFlight' \cup {x}
        BY <3>1, <3>2 DEF InFlight, Way
      <3>4. Counted' = Counted
        BY <2>2, <3>3, <1>1 DEF Counted
      <3> QED
        BY <2>2, <3>4, <1>1 DEF Exact
    <2> QED
      BY <2>1, <2>2 DEF TypeOK
  <1>11. CompleteOnSuccess'
    BY <1>1, <1>3, <1>4 DEF CompleteOnSuccess
  <1> QED
    BY <1>6, <1>7, <1>8, <1>9, <1>10, <1>11

\* A worker changes state without touching the files: it opens its stream, finishes a
\* chunk, stops, or fails.
LEMMA WorkerPreserves ==
    ASSUME IInv, NEW w \in Workers,
           Open(w) \/ OpenFails(w) \/ NoMoreJobs(w) \/ ChunkDone(w) \/ ChunkFails(w)
    PROVE  IInv'
  <1> USE DEF IInv
  <1>1. /\ UNCHANGED <<upload, stage, entries, made, unfed, result, size, good, done, job, sent,
                       copied>>
        /\ worker[w] \in {"open", "idle", "busy"}
        /\ \E s \in {"idle", "ok", "err"} : worker' = [worker EXCEPT ![w] = s]
        /\ worker \in [Workers -> WorkerState]
    BY DEF Open, OpenFails, NoMoreJobs, ChunkDone, ChunkFails, Fail, ctlVars, targetVars, TypeOK
  <1>2. /\ worker'[w] \in {"idle", "ok", "err"}
        /\ \A v \in Workers \ {w} : worker'[v] = worker[v]
        /\ worker' \in [Workers -> WorkerState]
    BY <1>1 DEF WorkerState
  <1>3. /\ errs' \in Nat /\ cancelled' \in BOOLEAN
        /\ errs' = 0 => /\ errs = 0 /\ cancelled' = cancelled /\ worker'[w] # "err"
        /\ cancelled => cancelled'
        /\ stage = "wait" /\ ~(unfed = {}) => cancelled'
    <2>1. errs \in Nat /\ cancelled \in BOOLEAN /\ (stage = "wait" => unfed = {} \/ cancelled)
      BY DEF TypeOK, ErrorsKept
    <2>2. CASE Open(w) \/ NoMoreJobs(w) \/ ChunkDone(w)
      <3>1. errs' = errs /\ cancelled' = cancelled /\ worker'[w] # "err"
        BY <2>2, <1>1 DEF Open, NoMoreJobs, ChunkDone
      <3> QED
        BY <2>1, <3>1
    <2>3. CASE OpenFails(w) \/ ChunkFails(w)
      <3>1. errs' = errs + 1 /\ cancelled' = TRUE
        BY <2>3 DEF OpenFails, ChunkFails, Fail
      <3>2. errs' \in Nat /\ errs' # 0
        BY <2>1, <3>1
      <3> QED
        BY <3>1, <3>2
    <2> QED BY <2>2, <2>3
  <1>4. TypeOK'
    BY <1>1, <1>2, <1>3 DEF TypeOK
  <1>5. NotStarted' /\ Sized' /\ Exact'
    BY <1>1, SameCount DEF NotStarted, Sized
  <1>6. OnlyStarted' /\ CompleteOnSuccess'
    BY <1>1, <1>2 DEF OnlyStarted, CompleteOnSuccess, Started
  <1>7. ErrorsKept'
    BY <1>1, <1>2, <1>3 DEF ErrorsKept
  <1>8. CopiedSoFar' /\ OneHolder' /\ Settled'
    <2>1. \A v \in Workers : Holds(v)' => Holds(v)
      <3>1. Holds(w)' => Holds(w)
        BY <1>1, <1>2 DEF Open, OpenFails, NoMoreJobs, ChunkDone, ChunkFails, Holds, Settled
      <3> QED
        BY <3>1, <1>1, <1>2 DEF Holds
    <2>2. CopiedSoFar' /\ OneHolder'
      BY <2>1, <1>1 DEF CopiedSoFar, OneHolder, PieceOf
    <2>3. ~Holds(w)' => sent[w] = copied[w]
      <3>1. CASE ChunkDone(w)
        BY <3>1 DEF ChunkDone, TypeOK
      <3>2. CASE ChunkFails(w)
        <4>1. worker'[w] = "err" /\ job[w] # NoJob
          BY <3>2, <1>1 DEF ChunkFails, Fail, TypeOK
        <4> QED
          BY <4>1, <1>1 DEF Holds
      <3>3. CASE Open(w) \/ OpenFails(w) \/ NoMoreJobs(w)
        <4>1. ~Holds(w)
          BY <3>3 DEF Open, OpenFails, NoMoreJobs, Holds
        <4> QED
          BY <4>1 DEF Settled
      <3> QED BY <3>1, <3>2, <3>3
    <2>4. \A v \in Workers \ {w} : Holds(v)' = Holds(v) /\ worker'[v] = worker[v]
      BY <1>1, <1>2 DEF Holds
    <2>5. Settled'
      BY <2>3, <2>4, <1>1, <1>2 DEF Settled
    <2> QED
      BY <2>2, <2>5
  <1>9. EachChunk'
    <2> SUFFICES ASSUME stage \in {"feed", "wait"}, NEW d \in planChunks(entries),
                        d \notin unfed, ~(Covered(d) \subseteq good)
                 PROVE  \E v \in Workers : worker'[v] \in {"busy", "err"} /\ job[v] = d
      BY <1>1 DEF EachChunk
    <2>1. PICK v \in Workers : worker[v] \in {"busy", "err"} /\ job[v] = d
      BY DEF EachChunk
    <2>2. CASE v # w
      BY <2>1, <2>2, <1>2
    <2>3. CASE v = w
      <3>1. worker[w] = "busy"
        BY <2>1, <2>3, <1>1
      <3>2. CASE ChunkFails(w)
        BY <2>1, <2>3, <3>2, <1>1 DEF ChunkFails, Fail
      <3>3. CASE ChunkDone(w)
        <4>1. /\ copied[w] = d.Length
              /\ d.Offset \in Nat /\ d.Length \in Nat
          BY <2>1, <2>3, <3>3, ChunkRange, ChunkSizeAssumption DEF ChunkDone, TypeOK, C
        <4>2. ASSUME NEW p \in d.Offset .. d.Offset + d.Length - 1
              PROVE  <<d.RelPath, p>> \in good
          <5>1. p - d.Offset \in 0 .. copied[w] - 1 /\ d.Offset + (p - d.Offset) = p
            BY <4>1
          <5> QED
            BY <5>1, <3>1, <2>1, <2>3 DEF CopiedSoFar, Holds, PieceOf, TypeOK
        <4> QED
          BY <4>2 DEF Covered
      <3> QED
        BY <3>1, <3>2, <3>3 DEF Open, OpenFails, NoMoreJobs
    <2> QED BY <2>2, <2>3
  <1> QED
    BY <1>4, <1>5, <1>6, <1>7, <1>8, <1>9

\* Every step of the orchestrator and of the workers keeps the invariant.
LEMMA NextPreserves ==
    ASSUME IInv, [Next]_vars
    PROVE  IInv'
  <1>1. CASE Orchestrate
    BY <1>1, PreparePreserves, FeederPreserves DEF Orchestrate
  <1>2. ASSUME NEW w \in Workers, Work(w) PROVE IInv'
    BY <1>2, TakePreserves, SendPreserves, WritePreserves, WorkerPreserves DEF Work
  <1>3. ASSUME NEW w \in Workers, LateWrite(w) PROVE IInv'
    BY <1>3, WritePreserves
  <1>4. CASE UNCHANGED vars
    <2> USE <1>4 DEF IInv, vars, ctlVars, targetVars, workVars
    <2>1. TypeOK' /\ NotStarted' /\ OnlyStarted' /\ Sized' /\ ErrorsKept'
      BY DEF TypeOK, NotStarted, OnlyStarted, Sized, ErrorsKept, Started
    <2>2. EachChunk' /\ CopiedSoFar' /\ OneHolder' /\ Settled'
      BY DEF EachChunk, CopiedSoFar, OneHolder, Settled, Holds, PieceOf
    <2>3. Exact' /\ CompleteOnSuccess'
      BY SameCount DEF CompleteOnSuccess
    <2> QED
      BY <2>1, <2>2, <2>3
  <1> QED
    BY <1>1, <1>2, <1>3, <1>4 DEF Next

-----------------------------------------------------------------------------
\* The invariant holds throughout: every chunk is with the feeder, with one worker, copied, or
\* was with a worker whose error is kept (runChunkWorkers).
THEOREM TransferInvariant == Spec => []IInv
  <1>1. Init => IInv
    BY InitIInv
  <1>2. IInv /\ [Next]_vars => IInv'
    BY NextPreserves
  <1> QED
    BY <1>1, <1>2, PTL DEF Spec

\* A worker is never past the end of its chunk and writes inside the files of the manifest
\* only; what the feeder holds and what the workers are busy with was planned (planChunks).
THEOREM TransferTypes == Spec => []TypeOK
  <1>1. IInv => TypeOK
    BY DEF IInv
  <1> QED
    BY <1>1, TransferInvariant, PTL

\* A transfer that returns nil has copied every file completely, whatever the
\* interleaving of feeder and workers.
THEOREM SuccessIsComplete == Spec => []CompleteOnSuccess
  <1>1. IInv => CompleteOnSuccess
    BY DEF IInv
  <1> QED
    BY <1>1, TransferInvariant, PTL

\* The pieces of a manifest are finitely many.
LEMMA PiecesFinite ==
    ASSUME NEW m \in Seq(Entry)
    PROVE  IsFiniteSet(Pieces(m))
  <1> DEFINE Of(i) == {<<i, p>> : p \in 0 .. m[i].Size - 1}
             All == {Of(i) : i \in Files(m)}
  <1>1. IsFiniteSet(Files(m))
    <2>1. IsFiniteSet(1 .. Len(m))
      BY FS_Interval
    <2> QED
      BY <2>1, FS_Subset DEF Files
  <1>2. ASSUME NEW i \in Files(m) PROVE IsFiniteSet(Of(i))
    <2> DEFINE f == [p \in 0 .. m[i].Size - 1 |-> <<i, p>>]
    <2>1. IsFiniteSet(0 .. m[i].Size - 1)
      <3>1. 0 \in Int /\ m[i].Size - 1 \in Int
        BY SizeIsNat
      <3> QED
        BY <3>1, FS_Interval
    <2>2. f \in Surjection(0 .. m[i].Size - 1, Of(i))
      BY DEF Surjection
    <2> HIDE DEF f
    <2> QED
      BY <2>1, <2>2, FS_Surjection
  <1>3. IsFiniteSet(All)
    <2> DEFINE g == [i \in Files(m) |-> Of(i)]
    <2>1. g \in Surjection(Files(m), All)
      BY DEF Surjection
    <2> HIDE DEF g
    <2> QED
      BY <2>1, <1>1, FS_Surjection
  <1>4. \A T \in All : IsFiniteSet(T)
    BY <1>2
  <1>5. Pieces(m) = UNION All
    BY DEF Pieces
  <1> HIDE DEF All
  <1> QED
    BY <1>3, <1>4, <1>5, FS_UNION

\* What is counted are pieces of the manifest.
LEMMA CountedArePieces ==
    ASSUME IInv
    PROVE  Counted \subseteq Pieces(entries)
  <1> USE DEF IInv
  <1>1. ASSUME NEW w \in Workers, NEW x \in Way(w) PROVE x \in Pieces(entries)
    <2>1. Holds(w)
      BY <1>1, WayEmpty
    <2>2. \A q \in copied[w] .. sent[w] - 1 : q \in 0 .. job[w].Length - 1
      BY <2>1, HeldJob DEF TypeOK
    <2> QED
      BY <1>1, <2>1, <2>2, HeldJob DEF Way
  <1> QED
    BY <1>1, InFlightIs DEF Counted, TypeOK

\* Nothing is sent or written twice, so progress counts each piece once: on failure what was
\* written of a download and what was sent of an upload, on success all of it.
THEOREM ProgressCountsOnce == Spec => []ProgressIsExact
  <1>1. ASSUME IInv PROVE ProgressIsExact
    <2>1. /\ Counted \subseteq Pieces(entries) /\ IsFiniteSet(Pieces(entries))
          /\ done = Cardinality(Counted)
      BY <1>1, CountedArePieces, PiecesFinite DEF IInv, TypeOK, Exact
    <2>2. done <= Cardinality(Pieces(entries))
      BY <2>1, FS_Subset
    <2>3. result = "ok" => Counted = Pieces(entries)
      BY <1>1, <2>1 DEF IInv, CompleteOnSuccess, Counted
    <2> QED
      BY <2>1, <2>2, <2>3 DEF ProgressIsExact, Counted
  <1> QED
    BY <1>1, TransferInvariant, PTL
=============================================================================
