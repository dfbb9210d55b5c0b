----------------------------- MODULE PortForward -----------------------------
(***************************************************************************)
(* The life of one forwarded connection (portforward.go): the client's     *)
(* forwardConnection, its call of port.forward and the device's            *)
(* handlePortForward, around two PortStreams.  The upper one (the          *)
(* variables of PortStream) carries what the local program sends, the      *)
(* lower one (Down) what the remote service answers.  Every progress       *)
(* message is handled by a goroutine of its own, so that a later message   *)
(* may be handled first.                                                   *)
(***************************************************************************)
EXTENDS PortStream

CONSTANTS
    MaxDown,  \* bound: chunks the remote service sends
    SendCap   \* bound: capacity of sendCh (64 in the code)

ASSUME SendCapAssumption == SendCap \in Nat \ {0} /\ MaxDown \in Nat

VARIABLES
    dSent, dNet, dRecvNext, dRecvBuf, dWritten, dBroken,  \* the stream to the client
    sendCh,     \* client: chunks read from localConn and not yet numbered
    reader,     \* client: the goroutine that reads localConn
    done,       \* client: done is closed, and localConn with it
    sender,     \* client: what ProgressSender does next
    keyReady,   \* client: the key exchange is complete
    toDevice,   \* control messages to the device not handled yet
    toClient,   \* control messages to the client not handled yet
    handler,    \* device: where the handler of msgConnect is
    entry,      \* device: forwardSessions holds the connection
    pfDone,     \* device: portForwardConn.close was called
    devReader,  \* device: the goroutine that reads the TCP connection
    closing,    \* device: where the handler of the final message is
    eof,        \* the remote service has closed its end
    left,       \* the caller's session has left the device's realm
    unread,     \* data messages whose handler on the device did nothing
    dUnread     \* data messages whose handler on the client did nothing

down == <<dSent, dNet, dRecvNext, dRecvBuf, dWritten, dBroken>>
client == <<sendCh, reader, done, sender, keyReady>>
device == <<handler, entry, pfDone, devReader, closing>>
forwardVars == <<vars, down, client, device, toDevice, toClient, eof, left, unread, dUnread>>

Down == INSTANCE PortStream WITH
    sent <- dSent, net <- dNet, recvNext <- dRecvNext, recvBuf <- dRecvBuf,
    written <- dWritten, broken <- dBroken, MaxChunks <- MaxDown

ForwardTypeOK ==
    /\ TypeOK
    /\ Down!TypeOK
    /\ sendCh \in Seq(Chunks) /\ Len(sendCh) <= SendCap
    /\ reader \in {"reading", "ended"}
    /\ sender \in {"first", "key", "loop", "final"}
    /\ toDevice \subseteq {"connect", "final"}
    /\ toClient \subseteq {"key", "close", "result"}
    /\ handler \in {"idle", "dialing", "failed", "stored", "over"}
    /\ devReader \in {"none", "reading", "ended"}
    /\ closing \in {"idle", "waiting", "over"}
    /\ {done, keyReady, entry, pfDone, eof, left} \subseteq BOOLEAN
    /\ unread \subseteq net /\ dUnread \subseteq dNet

ForwardInit ==
    /\ Init /\ Down!Init
    /\ sendCh = <<>> /\ reader = "reading" /\ done = FALSE
    /\ sender = "first" /\ keyReady = FALSE
    /\ toDevice = {} /\ toClient = {}
    /\ handler = "idle" /\ entry = FALSE /\ pfDone = FALSE
    /\ devReader = "none" /\ closing = "idle"
    /\ eof = FALSE /\ left = FALSE /\ unread = {} /\ dUnread = {}

-----------------------------------------------------------------------------
(* The client: forwardConnection. *)

\* closeDone: done is closed and so is localConn, on which nothing is written any more.
closeDone ==
    /\ done' = TRUE
    /\ dBroken' = TRUE
    /\ UNCHANGED <<dSent, dNet, dRecvNext, dRecvBuf, dWritten>>

\* The reader takes a chunk from localConn and puts it on sendCh.
ReadLocal(c) ==
    /\ reader = "reading"
    /\ ~done
    /\ Len(sent) + Len(sendCh) < MaxChunks
    /\ Len(sendCh) < SendCap
    /\ sendCh' = Append(sendCh, c)
    /\ UNCHANGED <<vars, down, reader, done, sender, keyReady, device, toDevice, toClient,
                   eof, left, unread, dUnread>>

\* The local program closes its end, or localConn was closed: the reader ends.
ReadLocalFails ==
    /\ reader = "reading"
    /\ reader' = "ended"
    /\ closeDone
    /\ UNCHANGED <<vars, sendCh, sender, keyReady, device, toDevice, toClient, eof, left, unread, dUnread>>

\* ProgressSender, first message.
SendConnect ==
    /\ sender = "first"
    /\ sender' = "key"
    /\ toDevice' = toDevice \cup {"connect"}
    /\ UNCHANGED <<vars, down, sendCh, reader, done, keyReady, device, toClient, eof, left, unread, dUnread>>

\* ProgressSender waits for keyReady.
WaitKey ==
    /\ sender = "key"
    /\ keyReady
    /\ sender' = "loop"
    /\ UNCHANGED <<vars, down, sendCh, reader, done, keyReady, device, toDevice, toClient,
                   eof, left, unread, dUnread>>

\* ProgressSender takes a chunk of sendCh, also when done is closed: select chooses.
SendData ==
    /\ sender = "loop"
    /\ sendCh # <<>>
    /\ SendChunk(Head(sendCh))
    /\ sendCh' = Tail(sendCh)
    /\ UNCHANGED <<down, reader, done, sender, keyReady, device, toDevice, toClient, eof, left, unread, dUnread>>

\* ProgressSender finds done closed and ends the call; what is on sendCh stays there.
SendFinal ==
    /\ sender \in {"key", "loop"}
    /\ done
    /\ sender' = "final"
    /\ toDevice' = toDevice \cup {"final"}
    /\ UNCHANGED <<vars, down, sendCh, reader, done, keyReady, device, toClient, eof, left, unread, dUnread>>

\* ctx is cancelled, or the payload cannot be encrypted: closeDone, then the final message.
SendFinalCancelled ==
    /\ sender \in {"key", "loop"}
    /\ closeDone
    /\ sender' = "final"
    /\ toDevice' = toDevice \cup {"final"}
    /\ UNCHANGED <<vars, sendCh, reader, keyReady, device, toClient, eof, left, unread, dUnread>>

\* ProgressReceiver, msgKeyExchange.
HandleKey ==
    /\ "key" \in toClient
    /\ toClient' = toClient \ {"key"}
    /\ keyReady' = TRUE
    /\ UNCHANGED <<vars, down, sendCh, reader, done, sender, device, toDevice, eof, left, unread, dUnread>>

\* ... and the keys cannot be derived from it.
HandleKeyFails ==
    /\ "key" \in toClient
    /\ ~keyReady
    /\ toClient' = toClient \ {"key"}
    /\ closeDone
    /\ UNCHANGED <<vars, sendCh, reader, sender, keyReady, device, toDevice, eof, left, unread, dUnread>>

\* ProgressReceiver, msgData, with the key: a failed write is ignored.
HandleResultData(m) ==
    /\ m \notin dUnread
    /\ keyReady
    /\ Down!Deliver(m) \/ Down!DeliverFails(m) \/ Down!DeliverBroken(m)
    /\ UNCHANGED <<vars, client, device, toDevice, toClient, eof, left, unread, dUnread>>

\* ProgressReceiver, msgData, before msgKeyExchange: it cannot be decrypted and is dropped.
DropResultData(m) ==
    /\ m \in dNet \ dUnread
    /\ ~keyReady
    /\ dUnread' = dUnread \cup {m}
    /\ UNCHANGED <<vars, down, client, device, toDevice, toClient, eof, left, unread>>

\* ProgressReceiver, msgClose; or the call returns, with a result or because the session is gone.
HandleCloseOrReturn ==
    /\ \/ toClient \cap {"close", "result"} # {} /\ toClient' = toClient \ {"close", "result"}
       \/ left /\ UNCHANGED toClient
    /\ ~done
    /\ closeDone
    /\ UNCHANGED <<vars, sendCh, reader, sender, keyReady, device, toDevice, eof, left, unread, dUnread>>

-----------------------------------------------------------------------------
(* The device: handlePortForward. *)

\* portForwardConn.close, which runs once.
closeConn ==
    /\ pfDone' = TRUE
    /\ broken' = TRUE
    /\ UNCHANGED <<sent, net, recvNext, recvBuf, written>>

\* msgConnect: the handler derives the keys and dials.
HandleConnect ==
    /\ "connect" \in toDevice
    /\ toDevice' = toDevice \ {"connect"}
    /\ handler' = "dialing"
    /\ UNCHANGED <<vars, down, client, entry, pfDone, devReader, closing, toClient, eof, left, unread, dUnread>>

\* A key cannot be derived, or the service refuses the connection.
DialFails ==
    /\ handler = "dialing"
    /\ handler' = "failed"
    /\ toClient' = toClient \cup {"close"}
    /\ UNCHANGED <<vars, down, client, entry, pfDone, devReader, closing, toDevice, eof, left, unread, dUnread>>

\* Mutant: the client gets its key before the connection can be found.
StoreAfterKey ==
    /\ handler = "dialing"
    /\ handler' = "stored"
    /\ toClient' = toClient \cup {"key"}
    /\ UNCHANGED <<vars, down, client, entry, pfDone, devReader, closing, toDevice, eof, left, unread, dUnread>>

\* The connection is open and stored.
Store ==
    /\ handler = "dialing"
    /\ handler' = "stored"
    /\ entry' = TRUE
    /\ UNCHANGED <<vars, down, client, pfDone, devReader, closing, toDevice, toClient, eof, left, unread, dUnread>>

\* The public key is sent and the reader started.
SendKey ==
    /\ handler = "stored"
    /\ handler' = "over"
    /\ toClient' = toClient \cup {"key"}
    /\ devReader' = "reading"
    /\ UNCHANGED <<vars, down, client, entry, pfDone, closing, toDevice, eof, left, unread, dUnread>>

\* The public key cannot be sent.
SendKeyFails ==
    /\ handler = "stored"
    /\ handler' = "over"
    /\ closeConn
    /\ entry' = FALSE
    /\ UNCHANGED <<down, client, devReader, closing, toDevice, toClient, eof, left, unread, dUnread>>

\* The reader sends what the service wrote, unless pf.done is closed.
ReadRemote(c) ==
    /\ devReader = "reading"
    /\ ~pfDone /\ ~broken /\ ~eof
    /\ Down!SendChunk(c)
    /\ UNCHANGED <<vars, client, device, toDevice, toClient, eof, left, unread, dUnread>>

\* It could not be encrypted or sent.
ReadRemoteUnsent ==
    /\ devReader = "reading"
    /\ ~pfDone /\ ~broken /\ ~eof
    /\ devReader' = "ended"
    /\ closeConn
    /\ UNCHANGED <<down, client, handler, entry, closing, toDevice, toClient, eof, left, unread, dUnread>>

\* Mutant: the end of the remote stream is not reported.
ReadRemoteEndsSilently ==
    /\ devReader = "reading"
    /\ pfDone \/ broken \/ eof
    /\ devReader' = "ended"
    /\ UNCHANGED <<vars, down, client, handler, entry, pfDone, closing, toDevice, toClient,
                   eof, left, unread, dUnread>>

\* The read fails: the service closed, or the connection was closed here.  The client is told
\* unless the connection was closed on purpose.
ReadRemoteEnds ==
    /\ devReader = "reading"
    /\ pfDone \/ broken \/ eof
    /\ devReader' = "ended"
    /\ toClient' = IF pfDone THEN toClient ELSE toClient \cup {"close"}
    /\ UNCHANGED <<vars, down, client, handler, entry, pfDone, closing, toDevice, eof, left, unread, dUnread>>

\* msgData for a connection the handler has found, perhaps before it was removed.
HandleData(m) ==
    /\ m \notin unread
    /\ entry \/ pfDone
    /\ Deliver(m) \/ DeliverFails(m) \/ DeliverBroken(m)
    /\ UNCHANGED <<down, client, device, toDevice, toClient, eof, left, unread, dUnread>>

\* msgData for a connection that is not stored.
DropData(m) ==
    /\ m \in net \ unread
    /\ ~entry
    /\ unread' = unread \cup {m}
    /\ UNCHANGED <<vars, down, client, device, toDevice, toClient, eof, left, dUnread>>

\* Mutant: the handler waits for the reader before it closes the connection.
HandleFinalWaits ==
    /\ "final" \in toDevice
    /\ entry
    /\ devReader # "reading"
    /\ toDevice' = toDevice \ {"final"}
    /\ closeConn
    /\ closing' = "waiting"
    /\ UNCHANGED <<down, client, handler, entry, devReader, toClient, eof, left, unread, dUnread>>

\* The final message (msgClose of other clients does the same): close the connection and wait.
HandleFinal ==
    /\ "final" \in toDevice
    /\ entry
    /\ toDevice' = toDevice \ {"final"}
    /\ closeConn
    /\ closing' = "waiting"
    /\ UNCHANGED <<down, client, handler, entry, devReader, toClient, eof, left, unread, dUnread>>

\* The final message finds no connection.
HandleFinalUnknown ==
    /\ "final" \in toDevice
    /\ ~entry
    /\ toDevice' = toDevice \ {"final"}
    /\ closing' = "over"
    /\ toClient' = toClient \cup {"result"}
    /\ UNCHANGED <<vars, down, client, handler, entry, pfDone, devReader, eof, left, unread, dUnread>>

\* pf.wg.Wait returns: the reader has ended or was not started yet.
FinishClose ==
    /\ closing = "waiting"
    /\ devReader # "reading"
    /\ closing' = "over"
    /\ entry' = FALSE
    /\ toClient' = toClient \cup {"result"}
    /\ UNCHANGED <<vars, down, client, handler, pfDone, devReader, toDevice, eof, left, unread, dUnread>>

\* The caller's session leaves: deleteCaller.
deleteCaller ==
    /\ ~left
    /\ left' = TRUE
    /\ entry' = FALSE
    /\ IF entry THEN closeConn ELSE UNCHANGED <<vars, pfDone>>
    /\ UNCHANGED <<down, client, handler, devReader, closing, toDevice, toClient, eof, unread, dUnread>>

\* The remote service closes its end.
RemoteCloses ==
    /\ ~eof
    /\ devReader = "reading"
    /\ eof' = TRUE
    /\ UNCHANGED <<vars, down, client, device, toDevice, toClient, left, unread, dUnread>>

-----------------------------------------------------------------------------
ClientStep ==
    \/ SendConnect \/ WaitKey \/ SendData \/ SendFinal
    \/ HandleKey \/ HandleKeyFails \/ HandleCloseOrReturn
    \/ \E m \in dNet : HandleResultData(m) \/ DropResultData(m)

DeviceStep ==
    \/ HandleConnect \/ DialFails \/ Store \/ SendKey \/ SendKeyFails
    \/ ReadRemoteUnsent \/ ReadRemoteEnds
    \/ \E m \in net : HandleData(m) \/ DropData(m)
    \/ HandleFinal \/ HandleFinalUnknown \/ FinishClose

Environment ==
    \/ \E c \in Chunks : ReadLocal(c) \/ ReadRemote(c)
    \/ ReadLocalFails \/ SendFinalCancelled \/ deleteCaller \/ RemoteCloses

ForwardNext == ClientStep \/ DeviceStep \/ Environment

\* Goroutines that can run do; the local program, the remote service, the network and the user
\* are free.
ForwardSpec ==
    /\ ForwardInit /\ [][ForwardNext]_forwardVars
    /\ WF_forwardVars(SendConnect) /\ WF_forwardVars(WaitKey)
    /\ WF_forwardVars(SendData \/ SendFinal)
    /\ WF_forwardVars(HandleKey \/ HandleKeyFails) /\ WF_forwardVars(HandleCloseOrReturn)
    /\ WF_forwardVars(HandleConnect) /\ WF_forwardVars(DialFails \/ Store)
    /\ WF_forwardVars(SendKey \/ SendKeyFails)
    /\ WF_forwardVars(ReadRemoteEnds)
    /\ WF_forwardVars(\E m \in net : HandleData(m) \/ DropData(m))
    /\ WF_forwardVars(\E m \in dNet : HandleResultData(m) \/ DropResultData(m))
    /\ WF_forwardVars(HandleFinal \/ HandleFinalUnknown) /\ WF_forwardVars(FinishClose)

-----------------------------------------------------------------------------
(* Properties. *)

\* A data message finds no connection only after the connection was closed: the key that lets
\* the client send is sent after store, and whoever removes the connection closes it.
LostOnlyAfterClose == unread # {} => pfDone

\* A connection that was stored and no longer is has been closed: it cannot leak by being
\* forgotten.
RemovedIsClosed == handler \in {"stored", "over"} /\ ~entry => pfDone

\* A chunk read from the local program is written to the remote service, unless one of the two
\* connections is closed first.
ReadIsWritten ==
    \A i \in 1 .. MaxChunks :
        (Len(sent) + Len(sendCh) >= i /\ keyReady) ~> (Len(written) >= i \/ done \/ broken)

\* When the remote service closes while the call is open, the local connection is closed, the
\* call ends and the device forgets the connection.
RemoteCloseReaches == (eof /\ sender # "final") ~> (done /\ ~entry /\ devReader = "ended")

\* A call that ends after its key exchange leaves neither a connection nor a reader on the
\* device.  (One that ends before may: its final message can be handled while msgConnect is
\* still dialing.)
EndReleases == (done /\ sender = "loop") ~> (pfDone /\ ~entry /\ devReader = "ended")

\* No forwarded connection gets out of reach of its messages while it is open, nor of the
\* device's table (handlePortForward, portforward.go:147-282).
ConnectionWithinReach == ForwardTypeOK /\ LostOnlyAfterClose /\ RemovedIsClosed
=============================================================================
