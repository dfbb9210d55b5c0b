----------------------------- MODULE LogStreams -----------------------------
(***************************************************************************)
(* Log streaming on the device (logs.go): the table of running streams by  *)
(* stream id, the handler of the calls and the goroutine of each stream.   *)
(* The id of a stream is drawn by the daemon the call comes through        *)
(* (ProxyLogsHandler, helpers.go), which counts its own calls.             *)
(*                                                                         *)
(* A step is one critical section of the table's mutex; a stream that was  *)
(* taken out under the mutex is killed after it.                           *)
(***************************************************************************)
EXTENDS Naturals, FiniteSets

CONSTANTS
    Daemons,    \* daemons with a session on the device, which is inv.Caller()
    Streams,    \* calls of logs; also the logSession each creates
    FileSources,\* the calls whose source is a path: streamFileLogs serves them
    NoStream    \* a nil

ASSUME LogAssumption ==
    IsFiniteSet(Streams) /\ NoStream \notin Streams /\ FileSources \subseteq Streams

VARIABLES
    sess,      \* sess: stream id -> stream
    counter,   \* daemon -> logStreamCounter
    caller,    \* stream -> the daemon its call came through
    streamID,  \* stream -> its id
    running,   \* streams whose goroutine runs
    dying,     \* streams taken out of the table and not killed yet
    killed,    \* streams whose stop channel is closed
    finished,  \* calls whose final message, with the id, was handled, or that nobody makes
    left       \* daemons for which killAndDeleteByCaller has run

logVars == <<sess, counter, caller, streamID, running, dying, killed, finished, left>>

StreamIDs == 1 .. Cardinality(Streams)

LogTypeOK ==
    /\ sess \in [StreamIDs -> Streams \cup {NoStream}]
    /\ counter \in [Daemons -> 0 .. Cardinality(Streams)]
    /\ caller \in [Streams -> Daemons]
    /\ streamID \in [Streams -> StreamIDs \cup {0}]
    /\ running \subseteq Streams /\ dying \subseteq Streams /\ killed \subseteq Streams
    /\ finished \subseteq Streams /\ left \subseteq Daemons

\* made: the calls that clients make.
LogInit(made) ==
    /\ sess = [i \in StreamIDs |-> NoStream]
    /\ counter = [d \in Daemons |-> 0]
    /\ caller \in [Streams -> Daemons]
    /\ streamID = [s \in Streams |-> 0]
    /\ running = {} /\ dying = {} /\ killed = {} /\ finished = Streams \ made /\ left = {}

-----------------------------------------------------------------------------
\* What ProxyLogsHandler of a daemon numbers its next call with.
NextStreamID(d) == counter[d] + 1

\* First message: the stream gets the next id of its daemon, replaces what the device has under
\* it, and its goroutine starts.
handleLogs(s) ==
    /\ streamID[s] = 0 /\ s \notin finished
    /\ LET i == NextStreamID(caller[s])
       IN  /\ streamID' = [streamID EXCEPT ![s] = i]
           /\ counter' = [counter EXCEPT ![caller[s]] = i]
           /\ sess' = [sess EXCEPT ![i] = s]
           /\ dying' = dying \cup ({sess[i]} \ {NoStream})
    /\ running' = running \cup {s}
    /\ UNCHANGED <<caller, killed, finished, left>>

\* kill, after the critical section that took the stream out.
kill(s) ==
    /\ s \in dying
    /\ dying' = dying \ {s}
    /\ killed' = killed \cup {s}
    /\ UNCHANGED <<sess, counter, caller, streamID, running, finished, left>>

\* Final message with the id: killAndDelete.
killAndDelete(s) ==
    /\ streamID[s] # 0 /\ s \notin finished
    /\ finished' = finished \cup {s}
    /\ sess' = [sess EXCEPT ![streamID[s]] = NoStream]
    /\ dying' = dying \cup ({sess[streamID[s]]} \ {NoStream})
    /\ UNCHANGED <<counter, caller, streamID, running, killed, left>>

\* Final message without the id, or the session leaves.
killAndDeleteByCaller(d) ==
    /\ d \notin left /\ counter[d] > 0
    /\ left' = left \cup {d}
    /\ LET own == {i \in StreamIDs : sess[i] # NoStream /\ caller[sess[i]] = d}
       IN  /\ sess' = [i \in StreamIDs |-> IF i \in own THEN NoStream ELSE sess[i]]
           /\ dying' = dying \cup {sess[i] : i \in own}
    /\ UNCHANGED <<counter, caller, streamID, running, killed, finished>>

\* Mutant: the entry is deleted whoever it belongs to.
deleteAny(s) == sess' = [sess EXCEPT ![streamID[s]] = NoStream]

\* Only the stream's own entry is deleted.
deleteIfSame(s) == sess' = [sess EXCEPT ![streamID[s]] = IF @ = s THEN NoStream ELSE @]

\* The goroutine of a stream ends: journalctl exits or cannot be run, stop is closed.  What is
\* deferred runs last.
streamJournalLogs(s) ==
    /\ s \in running \ FileSources
    /\ running' = running \ {s}
    /\ deleteIfSame(s)
    /\ UNCHANGED <<counter, caller, streamID, dying, killed, finished, left>>

\* The same for a file: it is read to its end, cannot be read or followed, or stop is closed.
streamFileLogs(s) ==
    /\ s \in running \cap FileSources
    /\ running' = running \ {s}
    /\ deleteIfSame(s)
    /\ UNCHANGED <<counter, caller, streamID, dying, killed, finished, left>>

LogNext ==
    \/ \E s \in Streams :
         handleLogs(s) \/ kill(s) \/ killAndDelete(s) \/ streamJournalLogs(s) \/ streamFileLogs(s)
    \/ \E d \in Daemons : killAndDeleteByCaller(d)

-----------------------------------------------------------------------------
(* Properties. *)

\* A running stream that is not being killed is in the table, where a final message or a leaving
\* session finds it: neither a replacement nor the end of an older stream loses it.
RunningIsListed ==
    \A s \in running : s \in dying \cup killed \/ sess[streamID[s]] = s

\* What is in the table runs.
ListedRuns == \A i \in StreamIDs : sess[i] # NoStream => sess[i] \in running

\* The table lists exactly the streams that run and are not being killed, whichever of the three
\* parties removes an entry (logs.go:48-89).
StreamsWithinReach == LogTypeOK /\ RunningIsListed /\ ListedRuns
=============================================================================
