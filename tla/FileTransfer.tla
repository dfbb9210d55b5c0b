---------------------------- MODULE FileTransfer ----------------------------
(***************************************************************************)
(* A parallel file transfer (filetransfer.go downloadFiles, uploadFiles    *)
(* and runChunkWorkers, with the workers of quictransfer.go and            *)
(* filetransferp2p.go): the manifest is obtained, every target is created  *)
(* at its final size, the files are cut into chunks, and a feeder hands    *)
(* the chunks to workers over an unbuffered channel.  A worker owns one    *)
(* stream, copies the chunks it gets and stops at its first error, which   *)
(* cancels the feeder.                                                     *)
(*                                                                         *)
(* In a download the device sends and the client writes and counts what it *)
(* has written; in an upload the client counts what it has sent, and the   *)
(* device writes it later.  Sizes are counted in the pieces that one       *)
(* message carries.                                                        *)
(***************************************************************************)
EXTENDS Integers, Sequences, FiniteSets

CONSTANTS
    Manifests,              \* the manifests listFn or buildManifest may return
    OldSizes,               \* sizes a target file may have before the transfer
    numWorkers,             \* the number of workers the caller asks for
    parallelChunkSize,      \* pieces in a chunk
    parallelStreamWorkers,  \* default number of workers
    maxStreamWorkers        \* most workers

Entry == [IsDir : BOOLEAN, Size : Nat]

ASSUME ManifestsAssumption == Manifests \subseteq Seq(Entry)
ASSUME OldSizesAssumption == OldSizes \subseteq Nat
ASSUME WorkersAssumption ==
    /\ numWorkers \in Int
    /\ parallelStreamWorkers \in Nat \ {0}
    /\ maxStreamWorkers \in Nat \ {0}
ASSUME ChunkSizeAssumption == parallelChunkSize \in Nat \ {0}

VARIABLES
    upload,     \* the transfer is an upload
    stage,      \* where the orchestrator is
    entries,    \* the manifest
    made,       \* number of entries materializeTargets is through with
    size,       \* size of the target of an entry
    good,       \* the <<entry, piece>> pairs whose target holds the source's data
    unfed,      \* chunks the feeder still has to hand out
    worker,     \* state of a worker goroutine
    job,        \* the chunk a worker is busy with
    sent,       \* number of its pieces that the stream's sender has sent
    copied,     \* number of its pieces that the receiver has written
    cancelled,  \* ctx is cancelled
    errs,       \* number of errors in errCh
    done,       \* transferProgress.done
    result      \* what the transfer returns

ctlVars    == <<upload, stage, entries, made, unfed, result>>
targetVars == <<size, good, done>>
workVars   == <<worker, job, sent, copied>>
vars == <<ctlVars, targetVars, workVars, cancelled, errs>>

-----------------------------------------------------------------------------
(* The plan. *)

\* The files of a manifest, by position.
Files(m) == {i \in 1 .. Len(m) : ~m[i].IsDir}

\* The pieces of its files.
Pieces(m) == UNION {{<<i, p>> : p \in 0 .. m[i].Size - 1} : i \in Files(m)}

\* The chunk that starts at offset off of a file of n pieces.
ChunkAt(i, off, n) ==
    [RelPath |-> i, Offset |-> off,
     Length |-> IF off + parallelChunkSize > n THEN n - off ELSE parallelChunkSize]

\* planChunks: iteration k of the inner loop is at offset k * parallelChunkSize.
\* The code's slice is this set in the order of Before.
planChunks(m) ==
    UNION {{ChunkAt(i, k * parallelChunkSize, m[i].Size) :
               k \in {l \in 0 .. m[i].Size : l * parallelChunkSize < m[i].Size}} :
           i \in Files(m)}

Before(c, d) ==
    c.RelPath < d.RelPath \/ (c.RelPath = d.RelPath /\ c.Offset < d.Offset)

\* The pieces of a chunk.
Covered(c) == {<<c.RelPath, p>> : p \in c.Offset .. c.Offset + c.Length - 1}

\* effectiveWorkers
effectiveWorkers ==
    IF numWorkers <= 0 THEN parallelStreamWorkers
    ELSE IF numWorkers > maxStreamWorkers THEN maxStreamWorkers
    ELSE numWorkers

Workers == 1 .. effectiveWorkers

\* The workers runChunkWorkers starts: no more than there are chunks.
Started == {w \in Workers : w <= Cardinality(planChunks(entries))}

-----------------------------------------------------------------------------
NoJob == [RelPath |-> 0, Offset |-> 0, Length |-> 0]

WorkerState == {"none", "open", "idle", "busy", "ok", "err"}

TypeOK ==
    /\ upload \in BOOLEAN
    /\ stage \in {"list", "materialize", "feed", "wait", "done"}
    /\ entries \in Seq(Entry)
    /\ made \in 0 .. Len(entries)
    /\ size \in [1 .. Len(entries) -> Nat]
    /\ good \subseteq Pieces(entries)
    /\ unfed \subseteq planChunks(entries)
    /\ worker \in [Workers -> WorkerState]
    /\ job \in [Workers -> planChunks(entries) \cup {NoJob}]
    /\ sent \in [Workers -> Nat]
    /\ copied \in [Workers -> Nat]
    /\ \A w \in Workers : copied[w] <= sent[w] /\ sent[w] <= job[w].Length
    /\ \A w \in Workers : worker[w] = "busy" => job[w] # NoJob
    /\ cancelled \in BOOLEAN
    /\ errs \in Nat
    /\ done \in Nat
    /\ result \in {"none", "ok", "error"}

Init ==
    /\ upload \in BOOLEAN
    /\ stage = "list"
    /\ entries = <<>>
    /\ made = 0
    /\ size = <<>>
    /\ good = {}
    /\ unfed = {}
    /\ worker = [w \in Workers |-> "none"]
    /\ job = [w \in Workers |-> NoJob]
    /\ sent = [w \in Workers |-> 0]
    /\ copied = [w \in Workers |-> 0]
    /\ cancelled = FALSE
    /\ errs = 0
    /\ done = 0
    /\ result = "none"

-----------------------------------------------------------------------------
(* The orchestrator: downloadFiles and uploadFiles. *)

Return(r) ==
    /\ stage' = "done"
    /\ result' = r

\* The manifest arrives.  The targets may exist already, with any size.
List(m, old) ==
    /\ stage = "list"
    /\ m # <<>>
    /\ entries' = m
    /\ size' = old
    /\ stage' = "materialize"
    /\ UNCHANGED <<upload, made, good, unfed, result, done, workVars, cancelled, errs>>

\* The manifest cannot be had, or is empty.
ListFails ==
    /\ stage = "list"
    /\ Return("error")
    /\ UNCHANGED <<upload, entries, made, unfed, targetVars, workVars, cancelled, errs>>

\* One iteration of materializeTargets: a file is created, emptied and grown to its
\* final size.
MaterializeEntry ==
    /\ stage = "materialize"
    /\ made < Len(entries)
    /\ made' = made + 1
    /\ size' = [size EXCEPT ![made + 1] =
                   IF entries[made + 1].IsDir THEN @ ELSE entries[made + 1].Size]
    /\ UNCHANGED <<upload, stage, entries, unfed, result, good, done, workVars, cancelled, errs>>

\* An iteration fails (a directory or a file cannot be created, or not grown).
MaterializeFails ==
    /\ stage = "materialize"
    /\ made < Len(entries)
    /\ Return("error")
    /\ UNCHANGED <<upload, entries, made, unfed, targetVars, workVars, cancelled, errs>>

\* Nothing to copy (totalSize is 0).
NothingToCopy ==
    /\ stage = "materialize"
    /\ made = Len(entries)
    /\ planChunks(entries) = {}
    /\ Return("ok")
    /\ UNCHANGED <<upload, entries, made, unfed, targetVars, workVars, cancelled, errs>>

\* runChunkWorkers starts its workers.
StartWorkers ==
    /\ stage = "materialize"
    /\ made = Len(entries)
    /\ planChunks(entries) # {}
    /\ unfed' = planChunks(entries)
    /\ worker' = [w \in Workers |-> IF w \in Started THEN "open" ELSE "none"]
    /\ stage' = "feed"
    /\ UNCHANGED <<upload, entries, made, result, targetVars, job, sent, copied, cancelled, errs>>

\* Mutant: the feeder does not advance when it has handed out a chunk.
HandOutAgain(c) == unfed' = unfed

\* The feeder's loop goes on to the next chunk.
HandOut(c) == unfed' = unfed \ {c}

\* The feeder hands the next chunk to an idle worker (jobCh <- c).  Go's select may
\* choose this case even if ctx is cancelled by now.
Take(w) ==
    /\ stage = "feed"
    /\ worker[w] = "idle"
    /\ \E c \in unfed :
        /\ \A d \in unfed \ {c} : Before(c, d)
        /\ HandOut(c)
        /\ job' = [job EXCEPT ![w] = c]
    /\ worker' = [worker EXCEPT ![w] = "busy"]
    /\ sent' = [sent EXCEPT ![w] = 0]
    /\ copied' = [copied EXCEPT ![w] = 0]
    /\ UNCHANGED <<upload, stage, entries, made, result, targetVars, cancelled, errs>>

\* close(jobCh): every chunk is handed out, or ctx is cancelled.
CloseJobs ==
    /\ stage = "feed"
    /\ unfed = {} \/ cancelled
    /\ stage' = "wait"
    /\ UNCHANGED <<upload, entries, made, unfed, result, targetVars, workVars, cancelled, errs>>

\* Mutant: the transfer returns without wg.Wait().
FinishEarly ==
    /\ stage = "wait"
    /\ Return(IF errs > 0 THEN "error" ELSE "ok")
    /\ UNCHANGED <<upload, entries, made, unfed, targetVars, workVars, cancelled, errs>>

\* wg.Wait() returns; an error in errCh is the result.
Finish ==
    /\ stage = "wait"
    /\ \A w \in Started : worker[w] \in {"ok", "err"}
    /\ Return(IF errs > 0 THEN "error" ELSE "ok")
    /\ UNCHANGED <<upload, entries, made, unfed, targetVars, workVars, cancelled, errs>>

-----------------------------------------------------------------------------
(* A worker: quicReadWorker, quicWriteWorker, p2pReadWorker, p2pWriteWorker. *)

\* Mutant: errCh is unbuffered and nobody reads it yet, so the error is dropped.
FailSilently(w) ==
    /\ worker' = [worker EXCEPT ![w] = "err"]
    /\ cancelled' = TRUE
    /\ errs' = errs

\* Mutant: the error is recorded but ctx is not cancelled.
FailWithoutCancel(w) ==
    /\ worker' = [worker EXCEPT ![w] = "err"]
    /\ cancelled' = cancelled
    /\ errs' = errs + 1

\* workerFn returns an error, which goes to errCh (it has room for one per worker).
Fail(w) ==
    /\ worker' = [worker EXCEPT ![w] = "err"]
    /\ cancelled' = TRUE
    /\ errs' = errs + 1

\* The stream, and the key exchange on it.
Open(w) ==
    /\ worker[w] = "open"
    /\ worker' = [worker EXCEPT ![w] = "idle"]
    /\ UNCHANGED <<ctlVars, targetVars, job, sent, copied, cancelled, errs>>

OpenFails(w) ==
    /\ worker[w] = "open"
    /\ Fail(w)
    /\ UNCHANGED <<ctlVars, targetVars, job, sent, copied>>

\* The worker's loop ends when jobCh is closed.
NoMoreJobs(w) ==
    /\ worker[w] = "idle"
    /\ stage \in {"wait", "done"}
    /\ worker' = [worker EXCEPT ![w] = "ok"]
    /\ UNCHANGED <<ctlVars, targetVars, job, sent, copied, cancelled, errs>>

\* Mutant: the sending loop runs once too often.
SendPieceTooMany(w) ==
    /\ worker[w] = "busy"
    /\ sent[w] <= job[w].Length
    /\ sent' = [sent EXCEPT ![w] = @ + 1]
    /\ done' = IF upload THEN done + 1 ELSE done
    /\ UNCHANGED <<ctlVars, size, good, worker, job, copied, cancelled, errs>>

\* The sender's loop: one more piece of the chunk goes into the stream.  The client of an
\* upload counts it now.
SendPiece(w) ==
    /\ worker[w] = "busy"
    /\ sent[w] < job[w].Length
    /\ sent' = [sent EXCEPT ![w] = @ + 1]
    /\ done' = IF upload THEN done + 1 ELSE done
    /\ UNCHANGED <<ctlVars, size, good, worker, job, copied, cancelled, errs>>

\* Piece q of a worker's chunk.
PieceOf(w, q) == <<job[w].RelPath, job[w].Offset + q>>

\* The receiver writes the next piece at its offset in the target.
Write(w) ==
    /\ copied[w] < sent[w]
    /\ good' = good \cup {PieceOf(w, copied[w])}
    /\ copied' = [copied EXCEPT ![w] = @ + 1]
    /\ UNCHANGED <<ctlVars, size, worker, job, sent, cancelled, errs>>

\* The receiver's loop.  The client of a download counts the piece now.
WritePiece(w) ==
    /\ worker[w] = "busy"
    /\ Write(w)
    /\ done' = IF upload THEN done ELSE done + 1

\* The client of an upload has given up; the device still writes what had arrived.
LateWrite(w) ==
    /\ upload
    /\ worker[w] = "err"
    /\ Write(w)
    /\ UNCHANGED done

\* The loop over the chunk's data ends; an upload has the final acknowledgement.
ChunkDone(w) ==
    /\ worker[w] = "busy"
    /\ copied[w] = job[w].Length
    /\ worker' = [worker EXCEPT ![w] = "idle"]
    /\ UNCHANGED <<ctlVars, targetVars, job, sent, copied, cancelled, errs>>

\* The request is refused, the stream breaks, a timeout expires, a file cannot be
\* opened, read or written.
ChunkFails(w) ==
    /\ worker[w] = "busy"
    /\ Fail(w)
    /\ UNCHANGED <<ctlVars, targetVars, job, sent, copied>>

-----------------------------------------------------------------------------
Orchestrate ==
    \/ \E m \in Manifests : \E old \in [1 .. Len(m) -> OldSizes] : List(m, old)
    \/ ListFails
    \/ MaterializeEntry \/ MaterializeFails
    \/ NothingToCopy \/ StartWorkers
    \/ CloseJobs \/ Finish

Work(w) ==
    \/ Open(w) \/ OpenFails(w)
    \/ Take(w) \/ NoMoreJobs(w)
    \/ SendPiece(w) \/ WritePiece(w) \/ ChunkDone(w) \/ ChunkFails(w)

Next == Orchestrate \/ \E w \in Workers : Work(w) \/ LateWrite(w)

\* A request is answered, fails or times out; goroutines that can run do.  Nothing is
\* promised of what a device does after the client has given up.
Fairness == WF_vars(Orchestrate) /\ \A w \in Workers : WF_vars(Work(w))

Spec == Init /\ [][Next]_vars /\ Fairness

-----------------------------------------------------------------------------
(* Properties. *)

\* A transfer that returns nil has copied every piece of every file, and no target
\* is longer than its source (runChunkWorkers, materializeTargets): no chunk is lost
\* between feeder, workers and cancellation, and nothing of an older file remains.
CompleteOnSuccess ==
    result = "ok" =>
        /\ good = Pieces(entries)
        /\ \A i \in Files(entries) : size[i] = entries[i].Size

\* The pieces of an upload that are sent and not written.
InFlight == UNION {{PieceOf(w, q) : q \in copied[w] .. sent[w] - 1} : w \in Workers}

\* The closing line (transferProgress.finish) of a download that failed shows what was
\* written, and that of an upload what was sent, which the device may not have written and
\* never write: each piece once, as planChunks' ranges are disjoint and each is handed to
\* one worker.  After a success the count is the total that finish prints in its place, and
\* the progress line never passes it.
ProgressIsExact ==
    /\ done <= Cardinality(Pieces(entries))
    /\ result = "error" =>
          done = Cardinality(IF upload THEN good \cup InFlight ELSE good)
    /\ result = "ok" => done = Cardinality(Pieces(entries))

\* A worker's error is never lost: the transfer ends, with an error.
ErrorIsReported ==
    (\E w \in Workers : worker[w] = "err") ~> (result = "error")

\* The transfer returns: the feeder never waits for workers that are all gone, and
\* no worker waits for a feeder that has stopped.
Terminates == <>(result # "none" /\ \A w \in Workers : worker[w] \in {"none", "ok", "err"})
=============================================================================
