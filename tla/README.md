# ShareBridge: TLA+ models, checks and proofs

ShareBridge publishes files of a private machine through a small public server.
A **private agent** (Go, `src/agent`) holds the shares and talks to Immich or a
WebDAV cloud.  A **signaling server** (Go on PocketBase,
`src/signaling-server`) knows which agent serves which share code, introduces a
**browser** (`src/signaling-server/web`) to the agent over WebRTC, and, when a
direct connection fails or is not allowed, relays end-to-end encrypted frames
between the two and charges them to the account.

This directory models the parts of that system whose correctness depends on the
order in which goroutines, sockets, timers and database statements take their
turns.  `PROJECT.json` maps every definition to the lines it stands for.

## 1. Inventory

| Component | State it keeps | Operations | What makes it correct | Module |
|---|---|---|---|---|
| Traffic scheduler, `agent/internal/multilane/scheduler.go` | queues and admission lines of four classes, bytes held, two deficit round robins, control burst, notify channel, terminal error | `Send`, its cancellation, `Close`, the pump goroutine | exact byte accounting, caps, no lost wake-up, one honest verdict for every `Send`, order within a class, no starvation, 3 : 1 share | `LaneScheduler`, `LaneShare` |
| Relay registry and handler, `signaling-server/internal/relay/registry.go`, `handler/relay_ws.go` | sessions with two socket slots, ready/done channels, spent token ids, forwarded bytes | bind, wait, time out, proxy, flush, bill, expire | one proxy with a real peer, a token binds once, every delivered byte is billed once, nothing lingers | `RelayRegistry` implements `RelayTunnel` |
| Relay accounting, `relay/accounting.go`, `checkRelayQuota` | the account's usage and period, archive rows | quota check, `ApplyRelayBytes`, `rollQuotaPeriod` | bounded overshoot, no lost increment, balanced books | `RelayQuota` |
| Hub and WebSocket handlers, `hub/*.go`, `handler/agent_ws.go`, `handler/browser_ws.go` | agents, codes, pairs, browser owners, failure counts; the `sessions` table; each handler's position | hello, register, unregister, offers, nonce, auth results, pair, unpair | messages stay within one key, reconnects strand nobody, late exits remove nothing of a successor | `SignalingHub` |
| API keys, `handler/api_keys.go`, `middleware/api_key.go` | `is_active`, owner of sessions | authenticate, revoke, rotate, `CloseAgent` | a revoked key serves nothing | `SignalingHub` |
| Session expiry, `cmd/server/main.go` | the `sessions` table | cron deletion | does not disturb routing | `SignalingHub` |
| Agent signaling client, `agent/internal/signaling/client.go` | socket, the one pending-registration slot, its response channel | connect, register, listen, send | the slot is given back, a reply reaches its registration, the reader never blocks | `AgentShares` |
| Agent daemon, shares, `agent/internal/daemon` | the table of sessions | create, revoke, expire, poll Immich, load after a start | a share that exists is saved, registered and resolves; a removed one comes back only in the ways the code leaves open | `AgentShares` |
| Agent daemon, channels | nonces, the peers and relay channels of a session, `closing`, the download count | knock, join, relay prepare, answer, replace, close | one proof makes one peer, no transport is left behind, late callbacks remove nothing of a successor | `SessionChannels` |
| Transfer manager, `agent/internal/transfer` | the media operation and its generation, the bulk slot, album batches and their acknowledgements, the download count, thumbnail batches | preview, seek, file, asset and album requests, acknowledgement, the goroutine that streams each of them | no bytes of a replaced operation, no stream ends silently, one bulk transfer, an album advances and counts only when saved, the slot is freed, every thumbnail is sent or reported | `MediaStream`, `BulkTransfer`, `GalleryThumbnails` |
| Session store, `agent/internal/store` | sessions in memory and in a file | save, load, delete | what was saved survives a crash, a removal that was written is final | `AgentShares` |
| Lane handshake, relay channel, WebRTC peer, `agent/internal/{multilane/lane.go,relaychannel,peer}` | connection, closed and opening flags, close listeners | offer or dial, handshake, open, close, add a listener | every listener is called once, after the end, never during the open callback | `SessionChannels` implements `CloseContract` |
| Noise, `agent/internal/noise` | handshake state, cipher states | three messages, encrypt, decrypt | cryptographic | not modelled |
| Browser, `web/src` | pages, channel set, sinks | connect, fall back, receive, write | - | the environment of the models |
| REST, account, TURN configuration, migrations, configuration, admin command | single records | one statement each | - | not modelled |
| Agent web administration, Immich and WebDAV clients, cloud extensions, benchmarks | forms, HTTP requests | - | - | not modelled |

How they interact: an agent opens a WebSocket with its API key, says `hello` and
registers codes.  A browser opens a WebSocket for a code; the Hub pairs it with
the key's agent socket and forwards a knock, a nonce, an HMAC or a password, and
the agent's verdict.  On `auth_ok` the agent handler checks the quota, creates a
pending relay session and sends one token to each side.  Offers, answers and ICE
candidates then travel through the Hub.  If the direct channel fails, both sides
open the relay WebSocket, the registry pairs them, and at the end the forwarded
bytes are charged.  On the data channel the scheduler multiplexes control,
interactive media, thumbnails and bulk.  Inside the agent the daemon ties this
together: its table of sessions decides who is admitted, each admitted browser
gets a channel (a WebRTC peer or a relay channel) and each opened channel a
transfer manager of its own, and ending a share must undo all of it while any of
it is under way.

What is hard: every WebSocket has its own goroutine; critical sections are short
and handlers cross several of them with database statements in between; sockets
are replaced by reconnects while their old handler still runs; timers race the
event they wait for; channels are closed for two different reasons; two loops
share one teardown; `select` with a cancelled context races a verdict.  The
hazards, each at its line, are in `PROJECT.json`.

## 2. Modules

**LaneScheduler** (`scheduler.go`).  `queues`, `waiters`, `bytes`, `active`,
`terminal`, `outer`, `inner` and `controlBurst` are the fields of `Scheduler`;
`notified` is the closed `notify` channel; `ready` and `done` are the one-slot
channels of a request; `pc`, `pump` and `mu` are the program counters of the
callers, of the pump and of the mutex.  A loop that runs under the mutex
(`admitWaitersLocked`, `failQueuedLocked`, the two round-robin scans) is one
action for each iteration with `mu` held, so nothing interleaves with it but what
needs no mutex: a caller whose context is cancelled.  `Send`, `ReceiveReady`,
`ReceiveDone`, `SelectCtx`, `CancelWaiter` and `CancelQueued` are the paths of
`Send`; `PumpControl` to `Deliver` are `pump`, `nextLocked`, `nextDataLocked` and
`peekMediaLocked`; `WriteReturns` is the writer callback's result.  A payload is
its length.

**LaneShare** adds a history variable to LaneScheduler: the media bytes taken
since the present head of the bulk queue became its head.

**RelayRegistry** (`registry.go`, `relay_ws.go`).  One action for each critical
section of `Registry.mu`; the handler of a socket is at `pc`, its two forwarding
loops at `fwd`, its `closeAndFlush` at `flush`.  A frame is counted
(`AddBytes`) before it is written (`WriteFrame`), as in the code; the two loops,
the two closes, `CloseSession` and the bill interleave freely.  A token is valid
while its session has not expired; signatures are not modelled.
`AgentDialsOnce` is an assumption about the agent (`daemon.go:1050-1157` dials
once for each `relay_prepare`): the registry itself would accept a second agent
socket.

**RelayTunnel** is the promise of the relay: a session is offered, paired at most
once and ended; bytes are metered before they are delivered; what is charged was
metered; nothing is metered or delivered before pairing.

**RelayQuota** (`accounting.go`, `checkRelayQuota`).  One action for each
database statement, each of which may fail; time ends a period at any moment.
Bytes are exact integers (the column is a float64 number of gigabytes).
PocketBase's `Save` writes the columns that changed, which is why `Save` leaves
the usage alone when the value it read was zero.  Its specification is
`QuotaSpec` (`QuotaInit`, `QuotaNext`), so that one module can extend it and
RelayRegistry.

**SignalingHub** (`hub.go`, `ownership.go`, `agent_ws.go`, `browser_ws.go`,
`api_keys.go`, `main.go`).  One action for each critical section of `Hub.mu` and
each database statement or transaction.  A handler is named by its socket and
stands at `apc` or `bpc`.  `Accept` is the fence `IsCurrentAgent` at the head of
the message loop: what follows it in the same message happens in later actions.
`Disconnect` is a closed socket as the server sees it, for whatever reason.

**MediaStream** (`transfer/manager.go`, previews and seeks).  `media` holds the
fields under `mediaMu`; a handler is an activation of `HandleMessage` (`hnd`), a
stream the goroutine of one operation (`pc`, `gen`), a producer the goroutine
that copies the backend's body into the stream's pipe (`prod`).
`PreviewRequest` is `handleAssetPreviewRequest` up to its header;
`SeekRequest`, `ProbeFail`, `ProbeAccepted` and `ProbeStale` are
`handleAssetPreviewSeek`, which checks when it arrives and again when the first
byte does; `Top` to `Finish` are the loop of `streamAssetPreviewFromReader`, one
action for each check it makes without the lock.  `told`, `born` and `said` are
histories.  `mediaTransfer` is left out: it is stored and never loaded.

**BulkTransfer** (`transfer/manager.go`, downloads).  `bulk` and `seq` are the
fields under `bulkMu`, `album` and `acks` the batch under `albumMu` and its
one-place channel, `hnd` the handlers, `str` the goroutines of `streamFile`,
`streamAsset` and `streamAlbumDownload`, named by their first operation.  A file
and an asset take the same steps and are one kind.  `head`, `ended`, `positive`,
`repeated` and `counted` are histories.  A failed validation and a request over the limit
change no state here and have no action.  The acknowledgement is the browser's:
any archive whose header it has seen, positive or negative, any number of times
(the repository's own browser acknowledges each archive once, `app.js:1512-1513`).

**GalleryThumbnails** (`transfer/manager.go`, gallery).  `items` to `seen` are
the fields under `galleryMu`; `sender` is `sendGallery`; `timer` is the grace
timer, which once fired can no longer be stopped but still has to take the lock.
A stream is an activation of `sendGalleryThumbnails`, of the legacy fallback or
of a batch; `at` says of each index whether it is queued, with a worker, in the
results channel, accounted for, or given up.  `TakeJob`, `GetThumbnail`,
`Collect`, `Finish` and `Complete` are its workers, its collector, its final
count and the complete message.  `reported` is a history.

**AgentShares** (`daemon.go`, `store.go`, `client.go`).  The goroutines that
create, load, revoke, expire and synchronise shares (`proc`), the table
(`sessions`), the store's memory and file (`mem`, `file`), the registration slot
with the response channels (`slot`, `buf`), `Listen` between reading a message
and putting it into a channel (`lis`), the socket (`up`, `down`), and what the
server knows (`rows`).  `register` to `insert` are the positions in
`RegisterShareWithOptions` and its three callers; `drop` and `tell` those of
`RevokeSession` and `pruneExpiredSessions`; `sweep` to `unmap` those of
`syncImmichShares`.  A write of the file may fail.  `Crash` may happen between
any two steps and loses everything but the file; a lost connection ends the
process as well (`runDaemon`), and messages of the old socket that the server
has not read are dropped by the Hub's fence.  A preferred code is always
granted to the agent that had it; a code another account took in the meantime is
a refusal.  The server does not generate a code twice (`issued`).
Histories: `kept`, the generated codes whose save was written; `gone`, those that
were revoked or expired, whether or not the share had been saved and whether or
not the file could be written; `back`, those of them that their creator saved
afterwards or that were in the file when the process ended because no write had
succeeded since the failed one (`unwritten`); and `handled`.  The poller's removal
of a share whose link is gone ends `kept` but is no `gone`: it names a link's
code, and its next run repeats it.

**SessionChannels** (`daemon.go`, `peer.go`, `relaychannel/channel.go`,
`multilane/lane.go`).  One share's code and the session objects it names one
after the other.  A task is the goroutine of one `join` or `relay_prepare`; its
positions are the critical sections of `createPeer` and `handleRelayPrepare`
(look up, register, close the replaced one, offer or dial, check again).
A nonce is a number that neither another connection nor a join has.
`chan` is the channel the task made: both kinds share the fields, and
`peers` and `relayChannels` are one table because their keys differ.  `Notify`,
`AddOnClose`, `OpenReturns` and `RunListener` are `notifyClosed`, `AddOnClose`
and the callbacks, each run after the lock was given up.  `xfer` is the transfer
session on the channel, from the transport hello to `activateTransferSession`
and its downloads: `TakeCount` reads the session's count under its lock,
`Activate` opens for requests later, `AllowDownload` checks a request against the
manager's own count, and `DownloadComplete` counts it in both when its last frame
was accepted, which may be after the channel has ended.  `shared` is a history: the
channel took its count while another one could serve, or allowed a request while
an earlier one was under way.  A closer is a goroutine in `RevokeSession`,
`pruneExpiredSessions`, `syncImmichShares` or `Stop`.  `SecureRelayChannel.conn`
is written by `Start` and read by `Close` without a lock: until the starting
goroutine has taken a lock after it, a closing one may read nil and close
nothing (`Visible`).

**CloseContract** is what a channel set promises its close listeners.

**LaneSchedulerProofs** (about LaneScheduler and LaneShare), **RelayProofs**
(about RelayRegistry and RelayQuota), **SignalingHubProofs**,
**MediaStreamProofs**, **BulkTransferProofs**, **GalleryThumbnailsProofs**,
**AgentSharesProofs** and **SessionChannelsProofs** hold the theorems; the
`MC*` modules hold constants.

## 3. Runs

| Run | What it asks |
|---|---|
| `scheduler` | Three callers, every class, frames that compete for a cap, two of the callers cancellable, write errors and `Close`: seven safety properties. |
| `scheduler_live` | Callers that send for ever: every `Send` returns (`EverySendReturns`), and the pump ends after `Close` or an error (`PumpEnds`). |
| `relay` | Two browser sockets with one token, one agent socket: invariants (a session pairs once and its proxy has the bound peer, no byte is billed twice), refinement of `RelayTunnel`, and two liveness properties: a session leaves the table if it is never paired, and after either client has left (`SessionsRemoved`, which excepts a frame stuck in the write to a connected client that does not read) and every handler ends (`AllEnd`). |
| `quota` | Three sessions, two periods, failing statements. |
| `hub` | Two sockets of one key and two browsers of one code. |
| `hub_reassign` | Two keys of an account that claim, rotate and remove one code. |
| `media` | Two handlers open and seek a preview while replaced streams still run, backend reads fail and the channel breaks. |
| `bulk` | Two handlers ask for files and albums against one slot and a limit of one download; acknowledgements come early, late, twice, negative or never: an album advances only when saved, a download is counted when complete, and none ends without a word unless the browser acknowledged an archive twice (`DownloadsExact`).  With fairness: the slot is always freed again. |
| `shares` | Two API requests, the poller, the pruner, the loader and `Listen` over one slot, table, store and socket, with cancelled requests, refusals, failing writes and a crash: the slot always has an owner (`SlotHasOwner`), a saved share is in the file until it is removed and a removed one comes back in two ways only (`StoreFaithful`), and a share that exists resolves (`KeptResolves`). |
| `channels` | Two tasks, a closer and two session objects: one nonce admits one join (`NonceOnce`), no transport is left behind (`NoOrphan`), channels that serve in turn keep the download limit together (`LimitHeldInTurn`), entries outlive the callbacks of what they replaced (`EntryStays`), and both channel kinds implement `CloseContract` (`ImplementsContract`). |
| `gallery` | Two batch requests, the grace timer, a close and two workers: one way of sending (`OneStream`), every index accounted for (`ReportsAll`), the batch slot given back (`BatchReleased`). |
| `deregister` | A revoked share stays registered (section 6). |

*Bounds.*  The scheduler's caps of 3 and 4 bytes with frames of 1 to 4 let
frames fit, wait, block smaller ones behind them and need several rounds of
credit; three callers give a writer, a queued and a waiting request at once.  The
relay needs two browsers for a replayed token and one session (sessions share
only the table); three frames let both loops hold one while a third is written.
The quota needs two overlapping rollovers and a third session that opens.  The
hub needs two sockets of a key for a reconnect, two browsers for a late exit, two
keys for a transfer; `hub_reassign` allows two session records so that a code can
be removed and created again.  `FailLimit` is smaller than the code's 3 and 5.
Two handlers and
three media operations let a stream be replaced while its own replacement is
replaced, and let a preview come between the two checks of a seek; with one
generation a seek of a seek is left to the proof.  Three bulk operations hold an
album of two archives and a competing request, or three files against a limit of
one, so that the limit is overshot by the largest amount.  The shares need two
generated codes and one link, three registrations (one that is cancelled, one
that gets its reply, and one that gets the next), one poll and one crash.  The
channels need two tasks and two nonces for a replacement on one connection id
(or on one relay id) and for two joins with one nonce, two objects for a share that
is created anew, and one closer; with `MaxRequests = 1` a channel has
one download under way, and a limit of one is reached and passed; one connection id and one relay id let tasks
collide on a key or not.  Three tasks that replace each other, and several
closers, are left to the proof.  Three indices and two workers
let a batch end with an index sent, one failed and one never fetched.  `MaxFrames`,
`MaxPeriods`, `MaxCalls`, `MaxRows`, `MaxOps`, `MaxGen`, `MaxParts`, `MaxChunks`,
`MaxSyncs`, `MaxCrashes`, `MaxNonces` and `MaxRequests` bound counters.  Deadlock is
not checked, except in `shares`, where links always come and go: the other
systems may become quiet when no client acts.

*Symmetry* is used for interchangeable sessions (`quota`) and for the sockets of
one key and the browsers of one code (`hub`) and for message handlers (`media`), API requests and generated codes (`shares`), tasks and session objects (`channels`), in runs without liveness.

*Fairness.*  Scheduler: strong fairness of the pump and of every caller, because
`sync.Mutex` hands itself to a starving waiter and the Go runtime runs every
goroutine that can run; the writer returns.  What is fair of a caller is
`CallerRuns`, its own steps once it has what it waits for or its context is
cancelled; the cancellation itself (`SelectCtx`) is not in it.  Nobody has to send,
cancel or close.
Relay: weak fairness of the goroutines, of timers, of the passing of time and of
the cron clean-up; clients need not connect, send, read or leave.  In particular a
loop inside `Write` to a client that is connected has no fairness (`Blocked`): the
context of the write is never cancelled (`relay_ws.go:52,165`).  Gallery: weak fairness
of every thumbnail stream, because the backend answers or times out and its
goroutines go on; nobody has to ask for a batch or close the channel.  Transfer manager: weak fairness
of every handler once it has taken a request, of every stream and of every read
of the backend, whose bodies end and whose HTTP client has time-outs; the
acknowledgement timer fires (60 s, `albumAckTimeout`); a send returns because the
lane drains or fails.  The browser need not acknowledge, and nobody has to ask.

## 4. Proofs

All for every value of the constants that satisfies the named assumptions.

* **Scheduler** (`LaneSchedulerProofs`): `TypeCorrect`, `CapsHold`,
  `WakeupsArrive`, `NobodyWaitsNeedlessly`.  The invariant adds to the types what
  each goroutine's locals hold where they are used, who holds the mutex, and that
  a line holds requests of its class that fit its cap.  The no-needless-wait
  argument also needs that the admission loop, whose iterations are separate
  actions, still owes its class a look.
* **Verdicts** (`LaneSchedulerProofs`): `OneVerdictEach`, `VerdictsAreHonest`.
  The invariant says of every caller in which of the places (admission line,
  queue, writer, answered) its request is, that it is in exactly one, and that no
  line holds a caller twice.
* **Bytes** (`LaneSchedulerProofs`): `BytesAreExact`.  Every step puts one request
  into what a class holds, takes one out, or leaves it alone, because a line holds
  no request twice (the verdicts' invariant).  What such a step does to a sum over
  a finite set is shown for the fold that `BytesExact` is written with: its
  equation has one solution, and adding an element adds its length, both by
  taking a minimal counterexample among the subsets.
* **Order** (`LaneSchedulerProofs`): `NobodyOvertakes`, an action property.  Queue
  and admission line of a class are one line; every step either leaves it, appends
  to it, or removes an element, and each of the three keeps the order of what
  stays and puts nothing new before it.
* **Share** (`LaneSchedulerProofs`): `BulkGetsItsShare`.  `CreditIn` bounds the
  credit of the two lanes of the outer round robin, `Turn` says when it is whose
  turn, and `Paid` is the potential: the media bytes served since the present bulk
  head, plus media's credit, minus three times bulk's credit, do not grow.
* **Relay** (`RelayProofs`): `TypeCorrect`, `PairsOnce`, `BilledAtMostOnce`,
  `ImplementsMeteredTunnel`.  `Tokens`: a token has been used by nobody or by one
  browser, and while the session is in the table its id is spent.  `Entries` and
  `Owners`: a slot, once bound, names a socket of its session and role, and of a
  session's sockets one at most waits and proxies, the one that was bound.
  `Proxies` and `Closings`: a proxy has the bound peer, its session is in the
  table exactly until its own `CloseSession`, and both sockets are closed before.
  `Meters` places every frame: read, being added, counted, being written,
  delivered; taken out to be billed; billed.  The refinement takes
  `CreatePendingSession` to the tunnel's offer, the second `Bind` to its pairing,
  `CleanupExpired`, `GiveUp` and `CloseSession` to its end, `AddBytes` to metering,
  `WriteFrame` to delivery and `Bill` to the charge; every other step stutters.
  The assumption is `AgentDialsOnce`.
* **Quota** (`RelayProofs`): `QuotaTypeCorrect`, `QuotaIsSoft` (usage plus what
  the busy sessions may still add stays below limit plus all sessions' maximum),
  `NoIncrementLost`, `BooksBalance` (without a race at most one call rolls over,
  what it read is still the usage, and between its two statements the usage
  counts twice).
* **Hub** (`SignalingHubProofs`): `TypeCorrect`, `KeysStayApart`,
  `ReconnectsStrandNobody`, `NothingHaunts`, `LatestSocketServes`,
  `PairsOutliveOthers`.  The invariant relates the tables: an agent entry names
  an enrolled, running socket of its key; a pair and an owner entry name their
  browser's code, the key it opened and an agent of that key; while a code stays
  with its key, pairs and owners follow the key's present socket.

* **Media** (`MediaStreamProofs`): `TypeCorrect`, `StaleBytesNeverFollow` (an
  action property), `OneActiveStream`, `SeeksContinue`, `NoStreamEndsSilently`.
  `Shape` adds to the types that nothing is ahead of the current operation:
  neither the last control message nor a handler nor a stream.  `CancelHeld`
  (the cancel function the Manager holds is the current operation's, and was
  given up only by calling it) gives `OneActive`; `Births` (the current operation
  has the asset and generation it was begun with) gives `SeekContinues`;
  `FreshHeader`, `GensAgree` (a preview that is no
  video has generation 0, as it is streamed), `Stops` and `Quits` say which streams may stop without a word: those that were replaced
  or whose channel broke.
* **Bulk** (`BulkTransferProofs`): `TypeCorrect`, `OneBulkTransfer`,
  `SlotNeverLeaked`, `DownloadsAreExact` (which allows a silent end only after a repeated
  acknowledgement of an earlier archive), `OvershootIsBounded`.  Every step is one of five kinds for the slot (a handler
  moves on, acquires, or starts a stream; a stream works or returns), and
  `OneBulk` together with `Shape` (who holds the slot has an operation, an album
  advances only before its last archive) is kept by each kind.  `Exact` adds what a
  stream's position says of its past: which archives of its batch were announced,
  ended and acknowledged (`Announced`, `Progress`), what a counted download was
  (`CountedAt`), and that an operation not begun has no history (`Fresh`).  The
  bound counts three disjoint sets: the counted downloads, the handlers with a
  request and the streams not counted yet; a handler that passed the check before
  the slot was taken is what the limit is overshot by.

* **Gallery** (`GalleryThumbnailsProofs`): `TypeCorrect`, `OneWayOfSending`,
  `CompleteReportsAll`.  `Fresh`: nothing is there before the gallery is
  published, and it is published once.  `Owned`: a stream was started in its mode, a
  batch is remembered, and a batch at work has the slot unless its gallery is gone;
  a grace timer that fired before it got the lock therefore finds the mode changed.
  `Accounted`: when a stream comes to its complete message each of its indices is
  sent or failed, unless the gallery is gone and no message follows.
* **Shares** (`AgentSharesProofs`): `TypeCorrect`, `SlotIsOwned`,
  `StoreIsFaithful`, `KeptStaysRegistered`, with any number of requests,
  registrations, polls and crashes.  `SlotInv`: exactly the goroutine between
  claiming and releasing has the slot.  `Loading`: before the agent is up only the
  loader works, and what is under way between it and the server is the one
  registration it waits for, under the code of an entry of the store.  `CodesInv`
  follows each generated code.  From the moment the server makes it until its
  share is saved, it is in one place (`Single`): in one reply on the socket, with
  `Listen`, in a response channel, or with one goroutine, although that need not be
  the one that asked.  Meanwhile nobody else keeps, removes, sweeps or gives it back
  and the table does not have it before `Insert` (`CarriedInv`).  After that,
  `KeptAt` (a kept code is in memory, file and rows, and neither the poller's sweep
  nor an `unregister_share` under way names it) and, for the codes that are `Away`
  (removed, and neither saved nor loaded again since), `GoneAt`; `Leaving` and `Swept`
  are the removals under way, `Late` a creator that has inserted its share and not
  yet saved it.  `Behind` ties file to memory: an entry only the file has is
  `unwritten`, because every write that succeeds writes the whole memory.  That a generated code never comes twice (`issued`) is what
  the argument rests on; without it two shares could share a code.
* **Channels** (`SessionChannelsProofs`): `TypeCorrect`, `OneJoinEach`,
  `NothingLeftBehind`, `LimitHoldsInTurn`, and two action properties, `EntriesStay`
  and `ChannelsKeepContract` (every channel implements `CloseContract`).  `Linked`
  says that a table holds a channel only under its own session and key; `Held`,
  that what a closer or a replacing task holds to close is in no table and will
  never be again; `Whole`, how far a task has come and what its channel is like;
  `Kept` is `NoOrphan`; `Cut` is what makes it inductive: a channel that was
  closed while its transport stayed up, because `Close` read `conn` as nil or
  because it was still to be dialled, is out of its table, so that its own task's
  last check finds it not current and closes it.  `Numbers` (a nonce is
  with one connection or with one join) gives `NonceOnce`.  The limit
  rests on `InTurn`: as long as no channel of a session was `shared`, at most one of
  them can still serve, its manager's count is the session's, it has at most one
  request under way, and the count is below the limit while it has.  The contract
  needs `Heard`: a listener is owed or has had its call only after the end and
  outside the open callback, and the manager listens only once it was installed.

`CapRespected`, `IncrementsExact` and the type invariants are proved and not
repeated in the runs.

Every safety property of the passing runs, invariant, action property or
refinement, is stated by a theorem.  Only model-checked: what needs fairness
(`EverySendReturns`, `PumpEnds`, `SessionsRemoved`, `AllEnd`, `SlotFreed`,
`BatchReleased`), which is out of the prover's reach.

## 5. What the checks show

The scheduler keeps every property stated.  The relay implements a metered
tunnel under the assumption that an agent dials once.  Messages never cross keys,
reconnects rebind every browser whose code stays with its key, and late exits
are harmless.  The quota is soft by a known amount.  A replaced preview never
speaks after its replacement; an album advances and counts only when the browser
has saved it, and ends without a word only if the browser acknowledged one of its
archives twice; the download limit is soft by the number of requests handled at
once (it is checked at `manager.go:779`, before the slot is taken at 799, and
counted at 1105, after the end was sent).  That bound is for one Manager: every
channel of a share has its own, which starts from the count the session had when
it was opened (`daemon.go:831-834`).  Channels that serve one after the other keep
the limit together, however they replaced each other and however late a download
was counted (`LimitHeldInTurn`); channels that serve at the same time exceed it
(`LimitHolds`, section 6).

A share that exists is saved, registered and resolves, over cancelled requests,
failing writes and crashes, and the registration slot is never left without an
owner.  A share that was revoked or has expired comes back in two ways only: its
creator saves it afterwards, or the process restarts after a write that failed and
before one that succeeds.  A channel is never left open behind a session that ends while the channel
is made, although the last look at the table, not a lock, is what ensures it.  A
close listener is called exactly once, whoever closes.  Batches and the legacy
fallback exclude each other, and a thumbnail is never lost without a word.

## 6. Disagreements

Where the code does otherwise than its text, a test or a reader expects.

* `deregister` (a run): a revoked or expired share sends `deregister`, which the
  server does not know; its row and its code stay registered.

The following have a configuration each, kept beside the modules (`tlc -config
<cfg> <module>` prints the counterexample):

* `MCRelayQuotaDouble` (`MCRelayQuota`): two overlapping rollovers archive the
  full usage twice; the comment in `accounting.go` says the second archives zero.
  The same window loses an increment that lands between another call's read and
  its `Save`; `Balanced` is stated for behaviours without that overlap.
* `MCRelayQuotaReset` (`MCRelayQuota`): usage is reset only by the end of a relay
  session, and an account at its limit can open none.
* `MCSignalingRevoke` (`MCSignalingHub`): a `register_share` that passed the fence
  before a revocation registers its code after `CloseAgent` has purged the key.
* `MCMediaLeak` (`MCMediaStream`): a seek reads the backend into a pipe that
  nobody closes when its stream is replaced or cannot send; the reading goroutine
  stays blocked, where the package's test plan expects no goroutine leaks.
* `MCAgentSharesReply` (`MCAgentShares`): replies carry no name, so the reply of a
  cancelled registration is taken for that of the next one (`ReplyIsMine`).
* `MCAgentSharesListen` (`MCAgentShares`): two messages for the one-place channel
  of a call that was cancelled but has not yet cleared the slot block `Listen`,
  the only reader of the socket (`ListenGoesOn`, `client.go:244`).

* `MCAgentSharesReturn` (`MCAgentShares`): a share that is revoked between
  `CreateSession`'s insertion into the table (`daemon.go:450-452`) and its save
  (455) is saved all the same, and is back after the next start
  (`RemovedStaysRemoved`).  A failed write of the removal (554-556, logged only) has
  the same effect until some write succeeds.
* `MCSessionChannelsLimit` (`MCSessionChannels`): two channels of a share, or two
  requests of one channel, exceed its download limit (`LimitHolds`), although
  `MaxDownloads` is a field of the share (`daemon.go:214-236`).
* `MCBulkTransferEcho` (`MCBulkTransfer`): a second positive acknowledgement of an
  archive stays in the one-place channel and ends the album at the next archive,
  where the handler returns without a message (`NoSilentEnd`, `manager.go:403-405`).
* `MCRelayRegistryStalled` (`MCRelayRegistry`): a client that stays connected and
  stops reading keeps the relay session in the table after the other client has
  left (`DepartedRemoved`): the loop that would read the end of that connection is
  inside `Write`, which has no deadline, and the other one waits for a frame of the
  stalled client.

By reading, without a model: an ICE failure calls the close listeners and leaves
the `PeerConnection` open (`peer.go:79`; `NoOrphan` excepts it); a session object
that is overwritten by a registration of the same code keeps its channels, which a
revocation of the new object does not reach (`daemon.go:529`); the standalone
command registers before it listens (`main.go:372`), so its registration waits for
a reply nobody reads; its reconnect delay overflows at the 34th attempt
(`backoff.go:30-40`); the registry accepts a second agent socket for a session
(`registry.go:132`), which the agent never dials.  The fence is checked once for
each message, so a replaced socket can still finish the one it has begun
(`agent_ws.go:94`), and offers are routed by code, so with two browsers on one
code the later one receives what answers the earlier one's join
(`hub.go:184`).  Counting a failed password and closing the browser are two
critical sections, so a reconnect in between keeps the browser open.

## 7. Not modelled, and the plan

Left out for good: user interface, HTTP clients of other services, schema and
configuration, cryptographic primitives, benchmarks and third-party code.
`ForwardToAgent` and the per-connection write mutexes of the Hub change no
routing state.

In the modelled parts: ICE candidates and `password_submit` change no state of
the daemon; the persisted download count is one number, written by the daemon and
read when a session is loaded (its write also brings the file up to date with the
memory, as every other write of the store does, and is left out of `AgentShares`); the standalone command of
`cmd/agent/main.go` with its reconnect delay is an older front end of the same
client; envelopes, frames and encryption are conversions of one message each.
REST handlers, the agent's web administration and the Immich and WebDAV clients
are one statement or one HTTP request at a time.  Noise is a linear exchange that
ends with the first error, and appears as one step that may fail.  The browser is
the environment of every model: it sends any message in any order, with one
exception.  `MediaAssumption`: it puts no generation on a preview that is no video,
as `app.js:2158-2159` never does; `NoSilentEnd` of `MediaStream` rests on it.

Planned:

1. Proofs: the step arguments behind the liveness properties that are safety
   properties themselves (a measure that no step increases, for `AllEnd` and
   `SlotFreed`).
2. The browser's lane scheduler (against `LaneScheduler`) and its download
   pipeline.

The properties checked today are the ones that take several actors to violate.
As modules are added, a run whose question a larger composition answers is
replaced by that composition rather than kept beside it.
