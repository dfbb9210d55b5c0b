# A TLA+ model of deskconnd

Specifications, model-checking configurations and machine-checked proofs for the
parts of this repository whose correctness depends on the order in which things
happen: goroutines, callbacks, processes and network messages. `PROJECT.json`
lists every run, mutant, theorem, finding and hazard, and maps each definition to
the lines it models.

## 1. The system

`deskconnd` is a desktop daemon. On the machine being controlled it registers WAMP
procedures (shell, files, ports, VPN exit node, desktop services) with a cloud
router; on the controlling machine the same daemon is a proxy for the `deskconn`
command, which talks to it over a Unix socket. `deskconn-vpnd` is a short-lived
privileged process that changes the network configuration on the daemon's behalf.

| Component | State it keeps | Operations | What is hard | What makes it correct |
|---|---|---|---|---|
| Client session cache (`types.go`) | per realm: cached session, its context, upgrade subscribers; `disconnected`, `loggedIn` | ensure, dial, upgrade, reconnect, store, delete, login, logout, disconnect | every decision is made outside the lock it is acted on under; a goroutine per session | a replaced entry is cancelled; each subscriber is told once; one goroutine per session; a dropped session is replaced |
| Port-forward stream (`portforward.go`) | sequence counters, reorder buffer | number, deliver, close | messages handled concurrently | the byte stream is in order, complete, without repetition |
| Port-forward lifecycle (`portforward.go`) | connections by caller and id | connect, data, close, leave | messages overtake one another; both ends close | data is dropped only after an end closed; a closed end reaches the other; nothing is left behind |
| File transfer (`filetransfer.go`, `quictransfer.go`, `filetransferp2p.go`, `filestreamchannel.go`) | manifest, chunk queue, worker errors, progress | list, materialise, feed, copy, fail, finish | one of several workers fails; unbuffered channel | success means a complete copy; errors are reported; it ends |
| VPN helper (`iptun`, `cmd/deskconn-vpnd`) | undo stack; kernel settings and rules | RPCs, unwind | the connection may end at any point | it leaves nothing behind |
| VPN exit node (`iptunnel.go`) | helper, active session, `starting`, `closed` | arm, disarm, accept, set up, close, shut down | setup runs without the lock; four parties close a session | one user of the helper's connection; no session out of reach; stopping ends |
| VPN client (`iptunnel.go`) | teardown stack | connect, tear down | partial setup | routes are restored |
| Proxied calls (`types.go`, `helpers.go`, `agentforward.go`) | channel and close function by caller | send, close, migrate | a live call moves to another session while it is used and closed | input meets an open channel; a channel is closed once; both legs end with the call |
| Shell sessions (`shell.go`) | PTYs by shell id, migration tokens | start, migrate, exec, clean up | reader and migration disagree on the id | output goes to the shell's own user; a PTY is stored under one id; what is stored is open |
| Agent forward, port reverse | pending and active connections by caller | store, activate, close, take over, stop | each message in its own goroutine; lookup and use, question and delete under two locks | an open connection is held where stop finds it; the end of a first leg does not stop what was taken over from it |
| Logs (`logs.go`) | stream by id | replace, kill, delete | three parties delete | a running stream can be found and stopped |
| Authenticator (`auth.go`) | principals in memory and on disk | load, list, add, remove | two copies, events published between two steps | revoked keys are refused; the copies agree |
| Device daemon (`cmd/deskconnd`) | cloud session, attachment | connect, retry, attach, detach | retry with old sessions alive | it comes back; it stops when detached; an old cycle ends |
| File index (`fileindex.go`, `indexdb.go`) | ordered indexes | sync, watch, query | indexer and watcher write together; restarts; pages read between writes | the index follows the tree; pages neither repeat nor skip |
| Session leave (`deskconn.go`) | none of its own | stop what a caller started | falls between any two steps of a handler | see the services it stops |
| Desktop services, file operations, AI import, encryption, CLI | little or none | requests | I/O | - |

Interactions: the proxied calls obtain sessions from the cache and evict them when a
call fails; the cache's upgrade goroutine tells them through a channel when to move;
the VPN exit node calls `deskconn-vpnd` over a Unix socket, one request at a time; the
daemon's shutdown closes the VPN tunnel; a session that leaves the device's realm ends its
forwarded and reversed ports, agents and log streams; the cloud's key events reach the
authenticator through the daemon's cloud goroutine; the file-transfer workers use one QUIC stream
or one WebRTC channel each.

## 2. Modules

| Module | Models | Used by |
|---|---|---|
| `ClientSessions` | `ClientSessions`, `deviceSession` and what proxied calls do to them | `MCClientSessions`, `ClientSessionsProofs` |
| `OrderedStream` | abstract: what one direction of a forwarded connection promises | `PortStream` (refinement) |
| `PortStream` | `portForwardConn`, one direction | `PortForward`, `PortForwardProofs` |
| `PortForward` | one forwarded connection, client and device: two `PortStream`s | `MCPortForward`, `PortForwardProofs` |
| `FileTransfer` | `downloadFiles`/`uploadFiles`, `runChunkWorkers`, the workers | `MCFileTransfer`, `FileTransferProofs` |
| `VPNHelper` | `deskconn-vpnd`, its connection, the kernel | `VPNServer` |
| `VPNServer` | `vpnServer`, `vpnTunnelSession`, composed with `VPNHelper` | `MCVPNServer`, `VPNServerProofs` |
| `ProxyCall` | one proxied call in the local daemon: `ProxyCall`, its handlers and its migration | `MCProxyCall`, `ProxyCallProofs` |
| `ShellSessions` | `interactiveShellSession` | `DeviceSessions` |
| `RelaySessions` | `portreverse.go`, and the same code of `agentforward.go` | `AgentForward` |
| `AgentForward` | what `agentforward.go` does differently: sessions by user, take-over | `DeviceSessions` |
| `LogStreams` | `logSessions` and the proxy's numbering | `DeviceSessions` |
| `DeviceSessions` | the four services above and `handleSessionLeave` | `MCDeviceSessions`, `DeviceSessionsProofs` |
| `Authenticator` | `auth.go` and the cloud's key list and events | `DeviceDaemon` |
| `DeviceDaemon` | `runDeviceSession`, its cloud goroutine, attach and detach | `MCDeviceDaemon`, `DeviceDaemonProofs` |
| `FileIndex` | `fileindex.go`, `indexdb.go` | `MCFileIndex`, `FileIndexProofs` |

In every module a step is what happens between two points at which other goroutines
can interfere: one critical section, one blocking call, one message. Definitions
whose comment begins with "Mutant" are deliberate mistakes; no specification uses
them, and `PROJECT.json` says which property finds each.

### ClientSessions

One realm is followed: every operation touches its own realm's entry, and those that
touch all of them treat each alone. A session, its cache entry and the goroutine that
keeps it share an identifier of `Sess`; an identifier nothing refers to may be used
again, so runs are unbounded in time although `Sess` is finite. `keeper[s]` is the
program counter of the goroutine that runs `upgradeToWebRTC` and then `reconnectLoop`,
`pc[c]` that of a proxied call. `Subscribers` are shell and agent-forward calls,
`Handlers` the one-shot ones, which differ in their error paths. A dial either fails or
returns a connected session; any session may drop at any time.

### PortStream and OrderedStream

`net` is a set of messages, handled in any order. Chunks have contents, so that a
swapped pair is visible. A write fails only once the connection is broken, by itself
or by the write; which chunk of a run it hits is arbitrary. `Deliver`, `DeliverFails`
and `DeliverBroken` are the outcomes of `deliver`, which runs under `recvMu`. Messages
are not lost or duplicated: WAMP progress travels over a reliable ordered transport and
only its handlers run concurrently. A message whose decryption fails is not modelled.
`Ordered` instantiates `OrderedStream` with the stream's own history as the mapping;
`OrderedSpec` is the refinement.

### PortForward

The variables of `PortStream` are the direction to the remote service; `Down` is a second
instance, for the direction to the client. Around them: the client's reader, `sendCh`, the
`ProgressSender` (`sender`), the key exchange; on the device the handler of `msgConnect`
(`handler`: dialing, stored, key sent), `forwardSessions` (`entry`), the reader and the
handler of the final message. Control messages wait in `toDevice` and `toClient`; they and
the data are handled in any order. `left` is the caller's session leaving the realm.

### FileTransfer

Sizes are counted in pieces, the unit one message carries. `upload` says which direction
the transfer has. A piece is sent (`SendPiece`) and later written (`WritePiece`) by the two
ends of a worker's stream; the client counts it in `done` where its own loop calls
`progress.add`, after the send of an upload (`copyEncrypted`, `p2pWriteOneChunk`) and after the
write of a download (`copyDecrypted`, `p2pReadOneChunk`). The count is one step with the send or
the write: nobody reads it for a decision before all workers are through. After the client of an
upload has given up, the device may go on to write what had arrived (`LateWrite`), or not.
`Take` is the rendezvous on `jobCh`; `CloseJobs` may also be chosen when `ctx` is cancelled and a
worker is ready, as Go's `select` may. Every step of a worker may fail; what it wrote stays.
`Fail` never finds `errCh` full because its capacity is the number of workers.

### VPNHelper and VPNServer

A member of `Callers` is a data channel, the goroutine that serves it and its session.
`queue`, `reply` and `conn` model the Unix socket: a request sent before the client
closes is still read and carried out, an answer on its way is lost. A signal makes the
process stop reading. OpenTUN and ConfigureTUNAddress are one request ("tun"), as
neither is undone. Undo commands are assumed to succeed while unwinding (the code logs
and goes on); SIGKILL of `deskconn-vpnd` is not handled by the code and not modelled.
`stopping` holds the calls of `DisarmVPNServing` and `CloseVPNTunnel` that have left the
lock; each waits for `closeOnce` of the session it took and then closes the helper.

### ProxyCall

One call in the local daemon. A message's goroutine fetches the channel under the call's
mutex (`FetchChan`) and sends on it later (`PutChan`); `closer` does the same with
`closeChannel`. `quic` is the first leg, `mig` the goroutine that waits for the upgrade,
opens the second leg and, on its first answer, switches the channel, clears `closeFunc` and
closes the old leg: three critical sections. `panicked` records a send on, or a close of, a
closed channel. `kind` says which handler runs: shell, agent forwarding or exec, which do
not migrate alike. The messages have no contents.

### ShellSessions, RelaySessions, AgentForward, LogStreams, DeviceSessions

`ShellSessions` keeps the maps by shell id (`ptmx` with `sessions`, `encKeys`, `tokens`). The
constant `idOf` gives the ids of a caller, its number and its number with 1, 2, ... written after
it; two callers may share one (`"%d%d"` of 1 and 1 is the caller 11). An id is given out again
when it is free, as `generateShellID` does. The output reader of a PTY remembers the id the shell
was started under; a migration moves the PTY to another one. A client may type as soon as it has
the device's public key, which is while the first message is still being handled: such input
starts a shell of its own. The ghost `crowded` collects the shells that met another one: those
that were replaced under their id, and those that were stored under an id whose earlier reader
had not ended yet.

`RelaySessions` has the table, the session objects with their pending and active
connections, and the handlers. Storing and activating a connection look the session up under the
table's lock and use it under the session's, in two steps. `phase` is what the device does next
for a connection, `local` the client's end and the goroutine of its `msgClose`, which may run at
any time after the client has sent its key: it closes what `fetchActive` finds (`CloseActive`) and
then calls `removeActive`, whatever was activated in between. Lookup and read of `fetchPending`,
`fetchActive` and `removeActive` are one step each: between the two locks only the table can
change, and the session that was found is then the one of the moment of the lookup. `AgentForward`
replaces the key by the user and adds the take-over. `AgentConnect` looks the session up, `takeOver`
changes its owner under the session's lock alone, `SendReady` answers. `stop` asks `owns` of the
session (`FindOwned`) and deletes it in a second step (`RemoveOwned`), with the table locked in
between (`locked`) but not the session, so that a take-over may come between them. `legOf` relates
a call that the proxy re-issues over WebRTC to its first leg; `LegEnds` is the final message of
that leg, which the proxy sends when the re-issued call has been answered or is over
(`closeCloud`); the ghost `cut` records the sessions that it was found to own.
`LogStreams` has the table of streams, what is taken out of it and not killed yet, and the
goroutine of each stream (`streamJournalLogs`, `streamFileLogs`). Its numbers come from a
counter per daemon.

`DeviceSessions` puts them together: `handleSessionLeave` stops what the caller started. As
the services share no state, a behaviour uses one of them; the invariants of one cannot
depend on what the others do. The proofs are about `ServicesSpec`, in which all of them are
in use at once, and `OneServiceAtATime` says that this includes what the runs check.

### Authenticator and DeviceDaemon

`granted` is the cloud's list, `principalByAuthID[c]` the memory of the authenticator of
cycle `c` (one run of `runDeviceSession`), `principalsFile` the file all of them share.
Reading and writing it may fail. Events are delivered in the order of their publication and
only to sessions that had subscribed.

The main goroutine waits for credentials, serves and closes. The cloud goroutine goes
through the steps of one attempt in the code's order (`Steps`); a step fails only on
a connection that is closed, cancelled or cut off from the cloud. `Drop` ends a connection that is up.
`missed`, `diverged` and `stranded` record the cases that the properties exclude and section
6 describes.

### FileIndex

`disk` maps a file to the time of its last write (0: absent). The walk and the watcher look
at a file (`held`, `looked`) and store what they saw in a later step, as the code does in a
transaction of its own; a sync asks the database in between whether it has that time
(`Compare`). `entries` and `order` survive a restart, `queue` and the goroutines
do not. A database of an older version has no order index when the process starts. A client
asks for pages; the cursor is the key of the first item not yet returned, per
category.

## 3. Runs

| Run | Bounds | Shows |
|---|---|---|
| `contention` | 2 sessions, 2 shells, 1 handler | `EvictedIsCancelled`, `NotifiedOnce`, `OneKeeper`, `WebRTCIsKept` |
| `steady` | 3 sessions, 1 shell, user stays logged in | `DeadIsReplaced` |
| `restarted`, `notified` | 2 sessions, 1 call | findings, section 6 |
| `port_forward` | 2 chunks of 2 kinds up, 1 down, `sendCh` of 1 | `Accounted`, `NothingHeldBack`, `OrderedSpec`, `ConnectionWithinReach`, `ReadIsWritten`, `RemoteCloseReaches`, `EndReleases` |
| `file_transfer` | chunk of 2 pieces, 3 workers, manifests with a directory, empty, short and several-chunk files, targets missing or longer, both directions | `CompleteOnSuccess`, `ProgressIsExact`, `ErrorIsReported`, `Terminates` |
| `unwind` | 1 helper, 2 channels, two of the three rules | `OneUserOfHelper`, `NoSessionLost`, `NothingLeftBehind`, `StopUnwinds`, `SlotIsFreed` |
| `proxy_call` | 1 message between the first and the final one, channels of 1 | `ChannelsAreSound`, `ReturnReleases`, `GoneEndsUnlessStranded` |
| `device_sessions` | shells: 2 callers, 2 users, 3 calls (1 exec), 2 PTYs, 2 ids per caller, one of them shared; relays: 2 clients, 2 requests, 2 connections; logs: 2 daemons, 3 streams (1 of a file) | `OutputStaysWithUser`, `ShellsWithinReach`, `RelaysWithinReach`, `TakenOverStays`, `StreamsWithinReach` |
| `daemon` | 2 cycles, 1 authid, 2 keys, 1 event in flight, 3 user actions, pause of at most 2 | `RevokedIsRefused`, `CopiesAgree`, `Reconnects`, `DetachEnds`, `OldCycleEnds` |
| `file_index` | 2 files of one category, 5 writes, 2 queued events, pages of 1 | `OrderIsIndex`, `CaughtUp`, `PagesAreExact` |
| `index_pages` | 2 files of two categories, 3 writes | finding, section 6 |

Several of these are conjunctions of named parts, which their module defines one by one:
`ConnectionWithinReach` (`LostOnlyAfterClose`, `RemovedIsClosed`), `NothingLeftBehind`
(`NoLeftoverRules`, `ForwardingRestored`), `ChannelsAreSound` (`CurrentIsOpen`,
`ClosedTwiceOnlyEarly`), `ShellsWithinReach` (`StoredUnderOneId`, `StoredIsOpen`,
`LostOnlyInACrowd`), `RelaysWithinReach` (`ListedListens`, `HeldWhileListed`, `KeyedIsHeld`,
`LostOnlyByOverwrite`),
`StreamsWithinReach` (`RunningIsListed`, `ListedRuns`) and `PagesAreExact` (`PagesResume`,
`PagesComplete`). Each of them includes its module's type invariant; `contention`,
`file_transfer` and `daemon` check theirs by itself.

Why the bounds suffice. Identifiers are used again, so two sessions are a cached one and
the one that replaces it, and `steady` has a third that an old loop brings in; the theorems
of section 5 cover the safety properties for any number. Two shells and a handler are needed for a
channel to be registered with two entries and for an eviction by a third party. Two chunks
can overtake one another and leave a gap to wait for; the theorems cover any number. The
manifests contain a size that is a multiple of the chunk size, one that is not, and zero. In
`unwind` the second channel is a tunnel after a tunnel; the third rule differs from the
second in its arguments only, and the theorems cover any number of helpers. Three shell
calls are one that starts a shell, one that takes it over and one that is given a freed id
meanwhile; two requests of a relay are a session and its successor, or a first
leg and the call that takes its session over; three streams are one,
its replacement and one of another daemon under the same id. Two cycles are an old one and
its successor, two keys one that stays and one that goes. Five writes let both files be
written, changed behind the walk and written again; two paths and pages of one item give a
client a page before and a page after a change.

`CHECK_DEADLOCK FALSE` is set wherever a system may stop: identifiers, chunks, calls and
helpers are used up, a transfer ends, a user does nothing more. `file_index` never stops
and is checked for deadlock.

Symmetry is used only in `contention`, which has no liveness property. `device_sessions` uses
one service at a time, as they share no state, and follows only the behaviours in which the
first caller, request or stream belongs to the first user, client or daemon, and in which one
connection is accepted before the other: these are interchangeable (`MCInit`, `MCNext`). An agent
is forwarded for calls of two clients, with one connection; ports are reversed for two calls of
one client, with two. (Reversed ports of two clients have keys of their own and share nothing, and
two connections meet by the key of their sessions, alike in both services.) When the two callers
of the shells are different users no migration is allowed, and the exec call is left out: the
calls then do a part of what those of one user do. The theorems of section 5 have none of these
bounds.

## 4. Fairness

- `ClientSessions`: weak fairness of each keeper and of the code of a call between two
  network operations: goroutines that can run do. Strong fairness of a reconnecting dial:
  the loop retries for ever with a back-off, so what it needs is a network that is usable
  again and again. Nothing is assumed of the user, or of a WebRTC handshake but that it
  returns.
- `PortStream`: every message is handled (each has its goroutine).
- `PortForward`: weak fairness of every goroutine of the client and the device that can run
  and of every message handler. The local program, the remote service's data, the network and
  the session's leaving are free: nothing forces a read or a close.
- `ProxyCall`: weak fairness of the senders, closers, handlers and the sending side of both
  legs. A leg returns once its final message has been sent or its channel closed, since the
  device then ends the call; the upgrade and the device's answers may never come, except that
  a waiting migration notices its cancellation.
- `DeviceDaemon`: weak fairness of the main goroutine and of each cycle's cloud goroutine.
  A step fails only on a connection that is not usable (cancelled, closed, or `reachable` FALSE),
  and a dial is refused only while the device is detached, so an outage may
  last for ever, but it fails no step after it is over. Users, outages and drops are free. The
  cycles and `MaxChanges` are bounds: `Reconnects` asks that a cycle is left to run.
- `FileTransfer`: weak fairness of the orchestrator and of each worker. For QUIC streams,
  which have no deadline per request, this assumes that the peer answers or the connection's
  idle timeout ends it; WebRTC requests have timeouts.
- `VPNServer`: weak fairness of the goroutine of each channel, of the rest of a stop, and of
  each `deskconn-vpnd`, which therefore answers or fails. The network, the user and signals
  are not fair.

## 5. Theorems

Every invariant that a run checks is also proved: TLAPS establishes it for every value of the
constants that satisfies the assumptions named in the modules (disjoint sets of callers, a nil
outside the sets, positive chunk sizes, bounds and capacities). So is the refinement of
`OrderedStream`.

- `ClientSessionsProofs`: `Typed`, `NotifiedAtMostOnce`, `EvictionCancels`, `KeptByOne`,
  `NoWebRTCLeak`. `TypeOK` is inductive by itself, since it includes that whoever is at a
  point where a session is used holds one. `NotifiedOnce` needs that a subscription belongs
  to a call that is in progress and has an open channel (`SubscribersInCall`): otherwise a
  call that begins could register a second one. `OneKeeper` is inductive together with
  `TypeOK`, because `Connect` picks an identifier that nothing refers to;
  `EvictedIsCancelled` rests on it (a session in two hands would be installed twice) and on
  `Dialled`: whatever is held or cached has been dialled. `WebRTCIsKept` rests on `OneKeeper`.
- `PortForwardProofs`, one direction by itself: `ChunksAccounted`, `DeliverHoldsNothingBack`,
  `ImplementsOrderedStream`. The inductive invariant is `TypeOK /\ Accounted`: `NextIsDue`
  alone is not inductive, because what the loop writes is right only if every buffered chunk
  is the one its number stands for, and none was written before only if those in flight are
  later too. The refinement maps a delivery that writes nothing to a stutter.
- `PortForwardProofs`, the whole connection: `ForwardInvariant`, `ConnectionReachable`,
  `ForwardedChunks`, `ForwardImplementsOrderedStream`. Every step of the client and the device
  is a step of the stream or leaves it alone, so the refinement carries over. `KeyInd` is what
  `LostOnlyAfterClose` needs: the client has the key, and therefore data is in flight, only
  after the connection was stored.
- `FileTransferProofs`: `TransferTypes`, `SuccessIsComplete`, `ProgressCountsOnce`. The
  invariant says that the chunks not handed out, those in the workers' hands and the pieces
  already copied partition the plan, that the ranges of the plan are disjoint and cover the
  files, that a worker that gave up has left an error, and that the count is the number of
  pieces written or, for an upload, written or on their way.
- `VPNServerProofs`, the daemon's side: `HelperHasOneUser`, `SessionsWithinReach`. The
  invariant `Apart` says which goroutine may use which helper: at most one channel is between
  `Claim` and the end of its setup, and `starting` is set exactly then; a session that is not
  yet closed and not the active one is being closed by somebody; two users of one helper are
  ruled out because `Claim` takes the armed helper only when neither a setup nor an active
  session has it, and a disarmed helper is never armed again.
- `VPNServerProofs`, the helper's side: `RulesAreRemoved` (for any number of processes, also
  overlapping ones) and `NetworkIsRestored`, which is `NothingLeftBehind` under the hypothesis
  `[]Alone`: no process starts to serve before the last one has unwound. Without it
  `ForwardingRestored` is false (section 6); the run has one process, for which it always holds.
  For the rules the invariant is `RulesCounted`: the kernel has a rule as often as the stack has
  entries for it. For `ip_forward`, `Restores` says that the first value saved is the original
  one. That is kept by an explicit restore only if it asks for the value saved *last*
  (`Unanswered`), which holds because a channel that has made the change and not undone it owns
  the last saved value (`Owing`), because there is one request at a time on an open connection
  (`Requests`), and because one channel uses a helper (`Apart`).
- `ProxyCallProofs`: `ChannelsSound`. `LegInd` orders the three critical sections of a
  migration, `CloseInd` says that one closer at most gets past `closeChannel`.
- `DeviceSessionsProofs`: `OutputIsTheUsers`, `ShellsInReach`, `RelaysInReach`,
  `TakenOverIsKept`, `StreamsInReach`, and `OneServiceAtATime`. For the shells `CrowdInd` says
  that a running shell outside `crowded` is stored under the id of the call it serves, and that
  whatever is stored under the id of another one's reader is in `crowded`: the reader's cleanup
  therefore deletes only its own shell or a crowded one. For the relays `AllKept` says where each
  connection that is due is held, for handlers between lookup and use too: in its own session
  while that is listed, and from the key exchange on in some session of the key that listens,
  perhaps a successor. It needs that whatever leads to a connection leads to one of the same key
  and number (`Numbered`, `Stored`), that numbers are not given twice (`Counted`) and that a
  listed session listens (`Listed`). `TakenOverIsKept` rests on `Handed`: once a re-issued call is
  past `takeOver`, the first leg's caller does not own the session it made, and nobody but a call of
  that caller can make it own it again. For the logs, a daemon has numbered as many streams as it
  started.
- `DeviceDaemonProofs`: `DaemonTypes`, `RevokedRefused`, `CopiesStayEqual`. `RevokedIsRefused`
  is not inductive: an add event behind a removal brings the key back. `KeysInd` accounts for
  every key in memory *and* in an add event on its way: it is granted, missed, or a removal
  follows later in the queue. `LinkInd` says that a goroutine subscribes only after it listed
  the keys.
- `FileIndexProofs`: `OrderIsExact`, `IndexCatchesUp`, `PagesExact`. `TreeInd` says for each
  file that did not escape which of the walk, the watcher's queue and what either has looked at
  (compared with the database yet or not)
  still accounts for a difference between disk and index. `PageInd` places the cursor between
  what was returned and what was not, which needs that times are distinct (`TimesInd`).
  `PagesExact` has the hypothesis `OneCategoryEach`: a request names one category. Requests for
  several are the finding of `index_pages`.

Only model-checked: everything temporal under fairness (`DeadIsReplaced`, `ReadIsWritten`,
`RemoteCloseReaches`, `EndReleases`, `ErrorIsReported`, `Terminates`, `StopUnwinds`,
`SlotIsFreed`, `ReturnReleases`, `GoneEndsUnlessStranded`, `Reconnects`, `DetachEnds`,
`OldCycleEnds`), which the installed provers cannot do.

## 6. Findings

1. `restarted`: a daemon restarted after `deskconn login` never has `loggedIn` set, so the
   reconnect loop gives up at the first drop, although the session is documented as
   persistent.
2. `notified`: a reconnect notifies no subscriber, contrary to the comment of
   `StoreDeviceSession`.
3. `index_pages`: a category that ends with a page has no cursor, which is also how a request
   says that it starts; the next page of a request for several categories returns its entries
   again (`indexdb.go:198`), contrary to the comments at `indexdb.go:132` and
   `fileindex.go:123`.

Noticed, without a run. Where a property excludes one of these cases, its comment says so.

- Session cache: a Disconnect that meets a reconnect or an upgrade half way leaves a cached
  session without a keeper (`types.go:414`, `454`). The comment of `upgradeToWebRTC`
  (`types.go:396`) says that it closes the QUIC connection, and it does not.
- File transfer: after a failed upload `finish` shows what was sent. The device may not have
  written all of it, and may never do so, against "the actual bytes completed on failure"
  (`filetransfer.go:385-386`). A panicking worker is swallowed by `SafeGo` (`helpers.go:1141`) and its chunk
  with it; a manifest takes the `Lstat` size of a symbolic link; a source file may change while
  it is copied.
- VPN: stop and start during a setup activates the session on the stopped helper
  (`iptunnel.go:132`). A second `deskconn-vpnd`, started before the first has unwound, records
  `1` as the previous value of `ip_forward` and restores it last (`iptun/server.go:238`). A
  channel that closes between activation and the registration of `OnClose` keeps the slot
  until the user stops serving.
- Port forwarding: a final message handled during the dial leaves a connection open until the
  session leaves; data that overtakes the client's key, and the tail of a stream at its close,
  are dropped.
- Proxied calls: a session that leaves before the second leg's first answer strands the new
  channel, which nobody closes, contrary to `cmd/deskconnd/main.go:81-85`. A message fetched
  before the migration closed the old channel, or sent after the second leg has failed without
  an answer, is a send on a closed channel. An agent call closed while its session is being
  obtained, and migrated afterwards, closes `cloudCh` twice. When the session cannot be
  obtained, the call stays stored until the session leaves; input after the final message
  creates a new call. Output of the old leg is dropped once `migrationStarted` is set. The
  second shell of one session migrates with the first one's `session-id`.
- Relays: a second `msgConnect` overwrites the entry, and the first listener stays; a connection
  accepted after stop, or pending when `msgClose` arrives, is not closed; the old accept loop's
  connections may be stored in its successor, under a number that is in use there. A `msgClose`
  that is handled while its key exchange is (`fetchActive` finds nothing, then `activateConn`,
  then `removeActive`; `portreverse.go:281-285`, `agentforward.go:385-389`) leaves an open
  connection in neither map: its reader goes on, and stop never closes it. After the service's end
  of file the device's end and its entry stay until stop. A reverse client ignores `msgClose` with
  id 0.
- Agents: a take-over between `owns` and the delete of stop, or after it, is reported ready with
  a dead socket (`agentforward.go:166-173`). Two calls through one device session have one caller
  id, so that the end of either stops the session. When the first leg's `msgConnect` is handled
  after that of the re-issued call, it takes the session over, and its end stops it. When
  `msgReady` of a re-issued call cannot be sent, the working session of its first leg is stopped
  (`agentforward.go:223-225`).
- Shells are not cleaned up when their session leaves. The reader of a shell cleans up under the
  id the shell was started with, whatever is stored there by then (`shell.go:285-292`): when a
  shell ends, or its call does, and the caller's next shell is given the freed id before that
  reader is through, the reader deletes the second shell's entries, and nobody can reach or close
  it. The same goes for a shell that has migrated away from the id; its own entry, under the new
  id, is not deleted. Two first messages may be given one id, which is free until the first one's
  process has started (`shell.go:71-82`). Input that arrives between the answer with the device's
  public key and the start of the shell starts a second one under the same id (`shell.go:473`); the
  one that is stored first can then be reached by nobody. A caller's later ids may be the id of
  another caller (`"%d%d"`, `shell.go:77`), whose shell then meets it in the same ways.
- Logs: ids are counted per daemon (`helpers.go:1059`), but the device keys streams by id
  alone, contrary to "unique per call" (`logs.go:38`): streams of two daemons replace each
  other. The final message of a killed CLI carries no id and kills all streams of its daemon.
- Daemon: a cloud goroutine between its dial and the publication of the sessions survives its
  cycle; when `OpenSession` fails only the session is closed. Key and detach events published
  before the subscription are lost. An event for an unknown authid stores a nil principal
  and later handlers fail on it. The last key of a principal stays in `principals.json`; a
  removal is ignored if the file cannot be read. `EnsureCredentials` may read a partly written
  file, or miss one created between `Stat` and `watcher.Add`. The index database is not closed
  at the end of a cycle, so that after detach and attach opening it times out and the index
  is unavailable until a restart.
- Index: the first walk never prunes; files in a new directory written before it is watched are
  missed; times are compared by whole seconds; what the walk holds may overwrite a newer entry,
  which the watcher stored between the walk's look at the file and its question whether the
  database is up to date (`fileindex.go:213`), or after it; and pruning may drop a file that has come back.

## 7. Not modelled

Cryptography, wire formats, path resolution, desktop services, AI import and the CLI are
sequential I/O or library calls; `keymanager.go` is a cache of file keys. In the modelled
components: the outputs of the two legs of a migrating shell (a property would have to follow
every byte of a PTY through both), a half-written file after a crash of `os.WriteFile`,
thumbnails, the choice of the index's roots and an index without roots, the local router and
the registration of the proxies.

What would come next:

1. the VPN client's routes and teardown stack on `VPNHelper`; the undo stack's lemmas
   (`WithoutEntries`, `CountTaken`, `RuleTaken`, `SysctlTaken`) are stated for any entries;
2. the browse cursor and the search of `fileexplorer.go` as pure algorithms;
3. abstract specifications: a session cache that always has a usable session while logged in,
   a table of streams or relays in which an entry is there exactly while it is open, and a shell
   whose output is a stream independent of the leg it takes; the invariants proved here are the
   step simulation's hypotheses for the second.
