# PipeProxy in TLA+

PipeProxy is an HTTP/CONNECT proxy whose outgoing connections are made by a
client behind NAT. The client keeps one WebSocket (the *tunnel*) to the server;
every browser connection accepted by the server is a numbered stream on it.
This directory models the protocol the two halves run over that tunnel, how a
tunnel session begins and ends, how a browser's request becomes a stream and how
frames are decoded; it checks the models with TLC and proves part of what they
promise with TLAPS.

## Inventory

| Part | Code | State | Operations | Talks to |
|---|---|---|---|---|
| FrameProtocol | `server/frameProtocol.js` | `connections` (id -> browser socket), `nextConnectionId`, `pausedSockets` | `registerConnection`, `handleIncomingFrame`, cleanup, `checkDrain`, `closeAllConnections` | TunnelServer (`sendFrame`; events `frame`, `tunnel_close`, `tunnel_ready`), ProxyServer (events `open_ack`, `close`) |
| ProxyServer | `server/proxyServer.js` | per socket: header buffer, `resolved`, timers, listeners; `activeProxyConnections` | header collection, authentication, request line, framing, CONNECT and HTTP handling, idle and hard timeouts | FrameProtocol, TunnelServer |
| TunnelServer | `server/tunnelServer.js` | `activeWs`, `usedNonces`, `lastConnectionTime`, `isAlive`, outbound queue | handshake, session replacement, heartbeat, `sendFrame`, flush, compact, reset | FrameProtocol, CryptoStream, FrameDecoder |
| ConnectionManager | `client/connectionManager.js` | `connections`, `pendingConnections`, outbound queue, `pausedSockets` | `handleFrame`, lookup callback, `establishConnection`, cleanup, `closeAllConnections` | targets, resolver, CryptoStream |
| RaspberryClient | `client/raspberryClient.js` | one WebSocket, one manager, ping and reconnect timers | connect, reconnect, heartbeat, message | ConnectionManager |
| CryptoStream | `shared/cryptoStream.js` | `outSeq`, `expectedInSeq` | `encryptMessage`, `decryptMessage` | both ends |
| FrameDecoder / encoder | `shared/frameDecoder.js`, `shared/frameEncoder.js` | chunk list, offset, length | `push`, `_peek`, `_consume`, compaction | both ends |
| Tracer, command line | `shared/trace.js`, `bin/` | none that matters here | logging, forking | - |

Node runs one event at a time in each process, so a handler is atomic; what
interleaves is the *order* of events: frames, `close` events of sockets that
were destroyed earlier, lookup and connect callbacks, send callbacks, timers,
and a new session arriving before the old one has reported `close`. That is
where the hazards are; `PROJECT.json` lists them line by line.

## Modules

- `Tunnel` - frames, and one WebSocket per session seen from both ends
  (`srvWs`, `cliWs`, `down`, `up`). The `ws` package is external: FIFO delivery,
  a `readyState` at each end, `close` events that come earlier at one end than
  at the other and may lose what is in flight.
- `FrameProtocol` - the server half: `frameProtocol.js`, the part of
  `proxyServer.js` from a complete request on, and session replacement and loss
  in `tunnelServer.js`. `Request`, `Refuse` are `onData`; `BrowserSend`,
  `BrowserEnd`, `BrowserAbort`, `BrowserClosed` are the socket's events, all
  sharing `Cleanup`; `FrameUnknown`, `FrameData`, `FrameClose`, `FrameOpenAck`
  are the branches of `handleIncomingFrame`; `Connection`, `ServerShuts`,
  `ServerWsClosed` are the sessions: one may begin at any time, also while the last
  one lasts at both ends, which it then replaces. `Evict` is what a `close` event of the
  protocol does: answer 502, destroy, forget.
- `ConnectionManager` - the client half, indexed by session because lookups and
  target sockets outlive their session. Each branch of `handleFrame` is an
  action, `Lookup*` the resolver's callback, `Target*` the target socket's
  events, `ClientWsClosed` the `close` handler with `closeAllConnections`.
- `Mux` - both halves and the tunnel composed; all end-to-end properties.
- `OutboundQueue` - `sendFrame`, `flushOutboundQueue`, its callback, compaction,
  reset, the retry timer, `checkDrain` and the pausing of producers. One module
  for both copies of the code, told apart by the variable `copy`: the server's
  queue outlives sessions, the client's lives through one and its `checkDrain`
  flushes. `drainInterval` is the interval that calls `checkDrain`: on the server
  `tunnel_close` stops it and forgets the handle, `tunnel_ready` starts one unless a
  handle is left; on the client it is stopped with its manager, for good.
- `TunnelSession` - the handshake, rate limit and heartbeat of `tunnelServer.js`
  and `connect()` of `raspberryClient.js`, with a discrete clock. `Unauthorized`,
  `RateLimited` and `Accepted` are the ways through the `connection` handler,
  `PingTick` the ping interval, `ServerCloses` and `ClientCloses` the `close`
  handlers. A tick waits for timers that are due and for what is under way on a
  link that is `up`; a `slow` link delivers any time later or never, a `dead` one
  never. `ClockAdjusted` sets the server's `Date.now()` back or forward again,
  `RequestRepeated` sends a handshake a second time, `Restart` replaces the
  server's process and with it the nonce table.
- `ProxyFrontend` - `proxyConnectionHandler` of `proxyServer.js` up to the point
  where the socket is a stream: `Rejected`/`Admitted` are the limit, the next
  actions the branches of `onData`, `HardTimeout`, `RunImmediate` and `Closed` the
  timer, the `setImmediate` that follows an answer, and the `close` handler. Bytes
  are counted, not spelled. `LaterData` is what arrives once `onData` is removed.
  The tunnel is `open`, `closing` (its WebSocket is no longer OPEN and has not
  reported `close`) or `down`: `Sent` is `sendFrame`, which drops what it is given
  while the tunnel is closing and when the queue overflows, which makes it close;
  the registered sockets are destroyed only by `TunnelClosed`, or by
  `TunnelConnects` when another session comes first.
- `HttpFraming` - `parseHeaderFraming`, the check for conflicting headers and
  `shouldForceCloseForHttp` as operators on abstract header lines, and `Readings`:
  the ways in which the end of a request's body may be found.
- `FrameDecoder` - `frameDecoder.js` over the bytes `encodeFrame` makes, in two
  ways of feeding it: one message per frame, as in the tunnel, where the socket is
  closed on an error but messages keep coming; and a stream cut anywhere, as in
  `tests/test_decoder.js`. `FrameStream` is what it promises: the frames that were
  sent, in order, without those that are too large. `ImplementsFrameStream` is the
  refinement, `delivered <- frames` and `pending` the frames not yet accounted for.
- `CryptoStream` - the sequence numbers, modulo `Modulus` (2^32 in the code),
  over a link that may or may not be faithful.
- `OutboundQueueProofs`, `MuxProofs`, `MuxStreamProofs`, `MuxEndsProofs`,
  `TunnelSessionProofs`, `ProxyFrontendProofs`, `FrameDecoderProofs`,
  `CryptoStreamProofs` - theorems.
- `MC*` - instances for TLC.

A payload is a record naming the browser connection it belongs to, what it is
(`up`, `down`, `page`, `reply`, `target`) and its position, so that "a byte of
another stream", "twice" and "out of order" can be seen without bytes.

`history` variables: `regSess` (session at registration) and the streams
`bIn`, `tIn` that record everything written to a socket; in `TunnelSession`
`passed`, `lastTrouble`, `deadSince`, `lastPong`; in `ProxyFrontend` `reply`,
`accepted`, `isolated` and `ambiguous`.

`ProxyFrontend` and `FrameProtocol` meet at registration: the first ends where
`Request` of the second begins. `TunnelSession` says when the sessions begin
and end that `Mux` lets happen at any time. They are not composed into one
specification: each makes the other's choices nondeterministically, so what holds
of one holds with whatever the other does.

## Runs

| Run | Question | Instance |
|---|---|---|
| `mux_streams` | is each end given what it should be, once, in order; is a live socket always reachable; do both halves agree on ids however the two ends close | 1 connection, every method and kind of host, 2 sessions of which the first may fail, 2 chunks each way, a browser that reads slowly, ends or aborts |
| `mux_sessions` | does anything of a lost or replaced session reach the next, its late `close` included | 2 connections, 2 sessions, `MAX_CONNECTIONS` 1 |
| `mux_ids` | is an id in use ever given out | 3 connections, 2 ids, starting at the last |
| `mux_live` | is every CONNECT answered, does each end learn the other is gone, does a session take its targets with it | 1 connection, every method and kind of host, lookups that fail or end late, 2 sessions, fairness |
| `mux_ghost` | finding | 1 connection by name, 1 session that fails |
| `queue` | are sequence numbers gapless per socket, is no wake-up lost, does everything leave, are producers resumed also after a session was lost or replaced; on the client, does the byte count tell the truth | both copies, 2 producers, 2 sessions with late callbacks |
| `queue_stale_bytes`, `queue_stale_failure` | findings | 2 sessions |
| `crypto` | strict, lenient and faithful | counter modulo 4, 9 messages |
| `decoder` | do listeners get the frames that were sent, however the bytes are cut; is the buffer exact, bounded, and its limit harmless to legal frames | up to 3 frames of 0, 1, 4 and 5 bytes around a limit of 4, every cut |
| `session` | is a handshake let pass once, a dead link noticed, a working one kept, a client let in again | 12 ticks, 7 connections, 2 faults |
| `frontend` | are places counted exactly, does the size limit hold, is what the tunnel drops only ever an end of a stream, is there at most one answer, is ambiguous framing of a first request contained, does the header phase end | 2 browsers, 1 place, every list of 2 header lines, every configuration, a tunnel that overflows, closes and is replaced |

### Bounds

`MaxUp`, `MaxDown` (chunks per stream) are 1 or 2: order needs two chunks, mixing
needs two streams. `NumSessions` is 2: stale events only ever meet the next
session. `IdLimit` is 2: one id in use and one free, or both in use.
`MaxFrames` bounds frames per session, enough to fill the queue, overflow it and
compact in the middle. `CompactAt` is 2 for 1024. `Failing`, `Fragile`,
`Finishing`, `Slow` say which sessions and sockets may fail, be aborted, send FIN
or read slowly; a run that leaves one empty leaves that event to another run.
In the instances ids are not reused between `destroy()` and the socket's
`close`, which in the code would take four billion requests in one turn of the
event loop; `mux_ids` is the exception and checks the assignment only.
In `CryptoStream` the link reaches at most `Modulus - 1` messages from the
receiver's position in strict mode and half of that in the other: beyond it a
counter of that width cannot tell messages apart.

`decoder`: a header has 3 bytes for 9, a limit of 4 gives buffers of 8, so that
one chunk may hold two frames and a frame may span several chunks; `CompactAt` 2
is passed with chunks of one byte. In the tunnel a message is a whole frame; the
cuts are for the class's own promise.
`session`: the intervals are 1 to 3 ticks in the order of the code's defaults
(grace of the cleanup no less than a step back of the clock, ping grace shorter
than the interval). `Recovery` is the longest way back in: the ping timeout, or
the rate limit plus the time the nonces of refused attempts stay in the table;
`MaxTime` leaves that and the faults before it. Two faults are enough for one to
strike while the other is being recovered from. A repeated request takes one of
the 7 connections.
`frontend`: headers of 2, 3 and 4 bytes around a limit of 3 with an empty line of
2, and up to one byte behind it, which may come with the header or later: a header
that always just fits, one that fits unless the bytes seen before the end of the
empty line are more than the limit, and one that never does. The middle one is why `SizeExact` leaves a margin:
the code compares all collected bytes before it has seen the end. Two lines show
every interaction of two lines; `FramingContained` proves it for any list.

### Fairness

`Mux!Fairness` assumes that what has arrived is handled, that a WebSocket one end
of which was closed reports `close` at the other, that lookups and connects end
(the resolver and TCP time out), and that a destroyed socket reports `close`. It
assumes nothing of browsers and targets and never that a tunnel fails or comes
back. In particular a target that has sent FIN may stay for ever: its entry is
gone, no CLOSE reaches it and no timer runs on it, so whether its socket ever
closes depends on its reading what was written to it. `CloseReachesTarget` names
it as an exception, and the ghosts of `mux_ghost` as the other.
`OutboundQueue!Fairness` assumes that timers and immediates run, `checkDrain` only
while its interval has not been stopped, and that a socket written to is read or
fails. `EveryProducerResumes` and
`EveryChunkLeaves` rest on traffic being finite in the instance: a peer that is
always ahead could keep the socket above the low-water mark for ever.
`ProxyFrontend!Fairness` assumes that timers and immediates run and that a
destroyed socket reports `close`; browsers may stay silent for ever.
`TunnelSession` needs none: its bounds in time are safety properties over ticks,
and a tick is disabled while something is due.

## Findings

- `mux_ghost`: `closeAllConnections` on the client leaves `pendingConnections`;
  a lookup that ends after its session closed still connects to the target.
- `queue_stale_bytes`: the callback of a replaced session's send subtracts from
  the new session's `outboundQueueBytes`.
- `queue_stale_failure`: if that send failed, the new session is terminated.
- Not a run: `.env.server.example:137` says the queue limit applies backpressure;
  it terminates the tunnel (`tunnelServer.js:275`), and pausing looks only at
  `bufferedAmount`. Defaults differ between docs and code (`MAX_FRAME_SIZE` 10 MB
  against 50, `MAX_TUNNEL_QUEUE_MB` 100 against 128).

## Proofs

The theorems hold for every value of the constants that meets the named
assumptions. `OutboundQueueAssumption`, `TunnelAssumption`,
`FrameProtocolAssumption`, `ConnectionManagerAssumption` and
`ProxyFrontendAssumption` say only that limits are naturals, that the first id is
an id, that there is at least one id and one session, that `None` is no socket,
that headers have a size and are sequences of header lines. `QueuesAreEntries`
says that a queue of early data is not taken for a missing entry of the pending Map.
`TunnelSessionAssumption` adds that the clock is never set back by more than the
grace of the nonce cleanup, which is the reason for that grace (and that the ticks
of an instance reach past that step, since its clock starts there).
`FrameDecoderAssumption` says that what is sent are sequences of frames and that the
limits are naturals. Two of its theorems also take `LimitHoldsHeader`, that
`MAX_FRAME_SIZE` is no less than the size of a header: twice a smaller limit has no
room for the header of a small message, so the code refuses frames it allows.
`CryptoStreamAssumption` wants an even width. Nothing is assumed about how many
browsers, sessions or ids there are, nor about which of them fail.

| Theorem | Argument |
|---|---|
| `OutboundQueueProofs!TypeCorrect` | the types, with `head` never past the end of the queue, are inductive; one lemma per action |
| `OutboundQueueProofs!WakeupNeverLost` | `NoLostWakeup` is inductive on top of the types. What has to be shown is that the flush never returns with chunks left, the tunnel open and no one to come back: `FlushWakes` does that for each of its early returns, every other action either leaves the waker it found or calls the flush |
| `MuxProofs!KeyedTypes`, `TypeCorrect` | `TypeOK` alone is not inductive: `TargetConnects` and the cleanup of a target socket send on `tKey[s].sess`, which is a session only for a socket that has been made. `KeysOK` adds that (a made socket, and one in a manager's Map, has a key); `TypeInv` is the conjunction |
| `MuxProofs!MapOfActiveSession` | `RegisteredInSession` is inductive given `TypeInv`. `EvictMap`: a `close` of the protocol removes what it destroys. `CleanupMap`: a socket's own id is the only one it can sit under, so its cleanup takes it out. `SessionMap`: a session begins or ends with an empty Map. `RequestMap`: a socket that registers was not in the Map, for its state was still `idle` |
| `MuxProofs!OneSessionSentOn` | inductive given the types: `connection` shuts the WebSocket it replaces before it makes the new one active, and a late `close` changes `activeWs` only if it is the active one's (`SessionsKept` for the other actions) |
| `MuxProofs!IdsNeverTakenOver` | `registerConnection` assigns `Candidate(FirstFree)`, and a least free attempt exists whenever one is free (`FirstFreeExists`, by well-foundedness of `<`); every other action only removes entries |
| `MuxProofs!LimitsHold` | `WithinLimits` is inductive given `TypeInv`, by counting: an OPEN adds one id below both limits, a lookup that succeeds moves an id from one Map to the other (`OneMoreFits`), everything else forgets ids (`FewerFit`) |
| `MuxStreamProofs!BrowsersInMap` | under `IdsApart`. `LiveInMap` adds to the property the sockets that are `ending`: the only entry a request may overwrite, or a `close` or CLOSE may remove, is one whose socket is destroyed with it or was before |
| `MuxStreamProofs!StaleFramesIgnored` | under `FreshIds`. `Sourced` says where everything under way comes from: a frame on channel `k` with id `i`, a lookup, a target, an entry of the client's Maps is of a socket that was registered in session `k` under `i`. An id of a replaced session is then never one of the Map (`StaleUnknown`) |
| `MuxStreamProofs!TargetsInMap` | under `FreshIds`. By `Sourced` two target sockets never share a key, so what `cleanup()` removes is the caller's own entry (`TargetCleanupOwn`) and `establishConnection` overwrites nothing (`EstablishOwned`) |
| `MuxStreamProofs!SessionsTakeTargets` | under `FreshIds`. The `close` handler destroys what is in the manager's Map, and by `TargetOwned` every live target of the session is in it; no other step closes a session at the client |
| `MuxStreamProofs!TargetsGivenOwnStream` | under `FreshIds`. `StreamsInOrder` relates, for each socket, the channel, the queued early data, what the target was given and how much the browser sent: the OPEN comes first, the client holds the first chunks, and if it still takes more, the next ones follow on the channel in order; if nothing was refused by a socket on the way the last one sent is among them. Lemmas about channels (`TailNumbered`, `MoreChunk`, ...) come first, then one lemma for each thing that can happen to a stream (`StreamOpened`, `StreamChunk`, `StreamResolved`, ...), then the actions |
| `MuxStreamProofs!FirstLap` | `Climbing`: while some connection is without an id, `nextConnectionId` is the first id plus the number given out, and that candidate is free. So if `EnoughIds` there are for all connections `FreshIds` holds, and with it the five theorems above without a hypothesis |
| `MuxEndsProofs!BrowsersGivenOwnStream`, `ConnectAnsweredOnce` | under `FreshIds`. `Answering` says of each open browser socket what it was given together with what is on its way. `Established`: its target exists; it was given the first chunks, the next ones follow on the channel in order, and a CONNECT that still waits was given nothing and has its OPEN_ACK ahead of every chunk. `Unmade`: there is no target; nothing is on the way until the OPEN or the lookup has been handled, and at most one page after that. An answer cannot be taken for another's because DATA towards the server is of the socket registered under its id (`UpTagged`), and a chunk overtakes nothing because it was read after the OPEN_ACK was sent. `StreamsInOrder` tells that an OPEN is handled once. `GivenRight` reads both properties off the invariant |
| `MuxEndsProofs!BothEndsAgree` | under `FreshIds`. `Agreement` speaks of moments when nothing is on the way; the invariant `Agreeing` of all others. An id of a session linked at both ends goes one way: its OPEN is on the channel, both ends have it, the end that drops it first has put a CLOSE on the channel, neither has it. `Balanced` says which combinations of these five facts may occur. `OpensFirst`: an OPEN is the first frame under its id, so that a CLOSE never overtakes it; `GivenOutIn`: ids on a channel have been given out, so the id of a new request is unused at both ends. What the server may do to an id (`Stays`, `Drops`, `Closes`) and what the client may (`Goes`, `Learns`, `Forgets`, `Obeys`) are one lemma each |
| `MuxEndsProofs!FirstLapOfBrowsers`, `FirstLapOfAgreement` | the same without `FreshIds`, for servers that have `EnoughIds` |
| `TunnelSessionProofs!HandshakeOnce` | a nonce that passed is in the table or older than drift and grace in real time (`Spent`). The cleanup keeps that because the clock is never ahead (`CleanupKeeps`); a request that is authorized is younger than drift plus the step back, so its nonce has not passed (`Unspent`). `Signed` ties a repeated request to the timestamp of the original, `Requested` gives a connection its number before it is handled; actions that touch none of this go through `Elsewhere` |
| `OutboundQueueProofs!NumberedWithoutGap` | `SequenceInv`: what each socket still holds is numbered up to the count of frames it was given (`SocketsNumbered`), what waits continues from there (`WaitingNumbered`), and the session's `outSeq` is the next number after that (`Numbering`). Lemmas about `Numbered` say what an append, the first frame taken, a compaction and a reset do to it |
| `OutboundQueueProofs!BytesAccountedFor` | `AccountingInv`. `Bytes` is a recursive function, so its value on an appended, split or compacted queue is proved by induction; the library's induction theorems cannot be instantiated here, but `EveryNumber` derives the same principle for *sets* of numbers from the well-foundedness of `<`: the set of lengths for which a table of partial sums (`Sums`) exists is every length. The client's queue lives through one session, which is why the count is right there and not at the server (`queue_stale_bytes`) |
| `TunnelSessionProofs!TypeCorrect`, `DeadLinksNoticed`, `LiveSessionsKept` | `Timing`, an invariant on top of the one of `HandshakeOnce`. `Session`, `ClientTimers`: which timer runs in which state. `ServerNotices`: with `isAlive` up, the link died or the last pong came at most `PingInterval - pingTimer` ago, with it down one interval more; `ClientNotices` the same for the client's timeout. `Beating`: on a link that works, `isAlive` is down only in the tick in which the ping or the pong is under way, and the client's timeout runs `PingGrace` behind the server's timer |
| `TunnelSessionProofs!NotLockedOut` | assumes `StepBack <= Drift`: a clock set back further refuses every handshake until it has caught up. `Table`: without trouble and without a session only the rate limit adds nonces, and it ends `RateLimit + StepBack` after the trouble, so the first cleanup `Drift + Grace + StepBack` later empties the table. `Losing`: a broken link runs into the client's timeout. `Patience` bounds how long the client can have been waiting, connecting or refused; `RefusedEarly` is the step that matters: an attempt made after all that is let in |
| `FrameDecoderProofs!BufferHoldsWhatArrived`, `TypeCorrect`, `ChunksReleased` | the inductive invariant `DecoderInv`: what the chunks hold, followed by the bytes not fed yet, is the encoding of the frames not yet accounted for, and what is held is not a whole frame (`Stuck`). `Consumed` says that `_consume(n)`, whichever of its three ways it takes and whether or not it compacts, leaves the bytes behind the first n and the offset inside the first chunk. `RoundOf`: a round of the loop takes out the first frame, refuses it, or finds it incomplete. `Processed`: the loop ends, because every round takes a header's size. `FlattenSeq` is a recursive function, so what it makes of appended chunks is proved by induction on sets of numbers, as for `Bytes` above (`FlatConcat`, `WireConcat`) |
| `FrameDecoderProofs!ImplementsStream` | `PushOutcome`: a push takes out some frames that are small enough and then waits, refuses the next one, or finds the buffer overrun. The first is `Deliver` or a stutter, the others are `GiveUp` on a stream and `LeaveOut` with one message per frame, where nothing is held between messages and a message that overruns is a frame that is too large (`OverrunIsLarge`) |
| `FrameDecoderProofs!LegalFramesPass` | from the same outcomes: on a stream, less than a frame of the maximal size is held, so only a long chunk overruns (`OverrunIsLong`) |
| `CryptoStreamProofs!StrictInOrder`, `NeverReplayed`, `WrapsUnnoticed`, `TypeCorrect` | one invariant: each counter is a position modulo `Modulus`, every message on the way carries the counter of its position, a faithful link holds exactly what was sent and not returned. `DifferenceOfCounters`: the difference `decryptMessage` computes is the distance of two positions that are less than the range apart, ahead or behind |
| `ProxyFrontendProofs!TypeCorrect` | `Bounds` in the invariant: what is forwarded is no more than was sent, connections no more than the limit |
| `ProxyFrontendProofs!FramingContained` | by cases on Transfer-Encoding: without one, accepted lengths agree (`LengthsAgree`); with one, strict mode leaves a single list that ends in its only `chunked` and no length (`StrictCodings`), and lenient mode closes behind it |
| `ProxyFrontendProofs!FirstRequestChecked` | inductive, by `FramingContained` in the one action that parses and hands over an HTTP request |
| `ProxyFrontendProofs!PlacesCounted` | `Slots`: the count is the cardinality of the sockets that were admitted and have not reported `close`, a finite set; only `Admitted` adds to it and only `Closed` takes from it (`SameHolding` for the rest) |
| `ProxyFrontendProofs!SizeLimited` | `SizeExact` is inductive given the types. It leaves a margin: of the `HeaderEnd - 1` sizes that reach the limit only with their empty line the pieces decide which pass |
| `ProxyFrontendProofs!BodyHandedOver` | `Body` adds to `BodyComplete` that an open socket whose request was handed over has been resolved and is registered, so that later data has exactly one listener and the next `tunnel_close` destroys it; so no session that opens later finds it open |
| `ProxyFrontendProofs!AnsweredOnce` | inductive: an answer is written by `onData` or the timer only to a socket that flows and is not resolved, which it leaves destroyed, ending or resolved |

`FreshIds` (no id given out twice) and the weaker `IdsApart` (not before the
`close` of its last holder has run) are hypotheses because the properties are
false without them: a lookup that ends after its id has been given out again
connects the old target to the new stream, which four billion ids keep from
happening and a small `IdLimit` does not. In `FirstLap` the hypothesis is one on
the constants, that there are as many ids as browser connections in the life of
the server. In the runs it holds as well, `mux_ids` excepted.

Every invariant and action property of the passing runs is the subject of a theorem,
and so is the refinement of `FrameStream`.
The type invariants of `OutboundQueue`, `CryptoStream` and `FrameDecoder` are proved
(`TypeCorrect`) and left out of the runs, whose other invariants say more.
Model-checked only: liveness (`EveryConnectAnswered`, `CloseReachesBrowser`,
`CloseReachesTarget`, `EveryProducerResumes`, `EveryChunkLeaves`,
`HeaderPhaseEnds`), which is beyond the prover.

## Not modelled, and the plan

Not modelled, and not planned:

- the command line (`bin/`): argument parsing and the fork of one process;
- the tracer: counters that nothing reads;
- TLS, cryptography itself, and text: credentials, the request line, the target
  URL and the header lines are inputs that say what the code finds in them;
- `TunnelServer.start` failing to listen and `stop`, which only run when the
  process starts and ends;
- the handshake by secret header, which keeps no state, and the rate limit's use
  of it, which is the same as after a signed one;
- the `catch` around `ws.send` (it throws only on a CONNECTING socket, and
  `readyState` has been checked);
- which addresses count as local, and that `parseInt` tells lengths apart only up
  to 2^53;
- the requests after the first one on a kept-alive connection: `onData` is removed
  once the first is complete, so the code forwards the others as bytes, unparsed, in
  strict mode too. `FirstRequestContained` is about the first request, and an added
  `Connection: close` is a header the code sends, not an end it enforces;
- exceptions of a listener of the decoder's `frame` event, which `push` catches
  together with its own (`frameDecoder.js:70-73`): the decoder emptied by one is
  the same as after an error of its own, but no model says when a listener throws;
- a client whose clock is wrong by more than the server's is (a constant skew beyond
  the tolerance refuses every handshake, and `GetsIn` could not hold), and
  different ping intervals at the two ends, each of which reads its own
  environment: `LiveSessionKept` is about ends that agree;
- the retry of a connection attempt that hangs in the operating system: `GetsIn`
  names it as its exception.

A restart of the server loses the nonce table: `NonceOnce` is about one life of
the process, and `Restart` starts the history anew. Data that arrives between the
answer to refused framing and the `setImmediate` that destroys the socket is
forwarded, since the socket is registered by then; `RefusedLate` and `LaterData`
model that and no property is about it.

Left for later: `StreamMux`, an abstract pair of FIFO streams that may be cut, and a
refinement mapping from `Mux`.
