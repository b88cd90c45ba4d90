# A verification model of HeThongPhanTan

The program is a small peer-to-peer chat: peers talk to each other over TCP, a bootstrap server keeps the registry, the groups, an offline queue and the message history, and a dashboard starts and stops peers. This directory holds TLA+ modules that model its core, the TLC runs that check them, and TLAPS proofs of the main results. Paths such as `peerRuntime.js:293` are relative to `src/src/`; `README.md` with a line number is the README of the repository.

## 1. Inventory

| Part | State | Operations | Talks to |
|---|---|---|---|
| `PeerRuntime` (peer/services/peerRuntime.js) | `peers`, `groups`, `messages` (last 300), `seenMessageIds` (at most 1000), `stats`, `churnOffline`, `churnTimer` | `sendDirect`, `forwardMessage`, `sendViaRelay`, `sendGroup`, `broadcast`, `sendFile`, `handleIncomingPayload`, `handleRelay`, `receiveFile`, `consolidatedSync`, `heartbeat`, `registerSelf`, churn, `start`, `shutdown` | TCP client and server, bootstrap over HTTP, browser over socket.io |
| TCP client (peer/tcp/client.js) | one socket, buffer and timer per attempt | `sendTcpPayload`: attempts with back-off; `sendOnce`: first matching ACK, ERROR, timeout or close settles it | another peer's TCP server |
| TCP server (peer/tcp/server.js) | `running`; per socket `buffer`, `pendingFrames`, `processing` | `start`, `stop`, `handleSocket` | `onPayload` of the runtime |
| Protocol (shared/protocol.js) | none | frames: JSON and a newline; `parseFrames` | |
| HTTP client (shared/http.js, bootstrapClient.js) | none | one request, 10 s limit | bootstrap routes |
| Bootstrap store (database/store.js) | peers, groups, direct and group messages, offline records, ACK rows, file rows; in MySQL or in memory | register, unregister, heartbeat, TTL expiry, queue, mark delivered, upserts | |
| Launcher (bootstrap/launcher.js, routes) | `processes`: peer id -> record of a child process | `start`, `stop`, `stopAll`, `exit` events | operating system, store |
| Dashboards (public/app.js, views) | the message list of the page, merged by id and status rank | `mergeMessage`, `upsertMessage`, rendering | REST and socket.io |

What is hard here. A JavaScript function runs without interruption between two awaits, so every await is a point where another request, timer or frame may come in: the sender waits for sockets and for the bootstrap, the receiver for the disk and for the bootstrap, `consolidatedSync` overlaps itself, and churn flips a flag under all of them. ACKs get lost and late answers race with timeouts, so copies of one message reach the target directly, through relays and through the queue. A peer may crash with all of that in memory only, and a bootstrap on the memory store, which it falls back to by default when MySQL cannot be reached (config.js:40-41), forgets everything when it stops: registry, groups, queue, acknowledgements and rows. A peer that was given an introducer depends on that peer to be listed at all.

What makes each part correct, in a sentence: a message is never shown as delivered unless its target has it; a queued message is lost with the store or not at all, and is taken once; the ACK table and counters tell the truth; every send ends; a peer that says it is online is reachable and listed, and a dead one is not; a group is created whole and its messages go to members only; a fan-out accounts for everybody; the list of messages is complete, shows nothing twice and agrees with the page; a connection handles its frames once and in order; the launcher can reach every process it started. `PROJECT.json` lists the hazards, each at its line.

## 2. Modules

| Module | Models | Notes |
|---|---|---|
| `Delivery` | `deliverPayload` and its callers for one target, `sendTcpPayload`, `handleRelay`, `handleIncomingPayload`, `receiveFile`, `consolidatedSync`, the offline, ACK and message rows | the core |
| `MessageFate` | nothing of the code: what delivery promises | abstract specification, implemented by `Delivery` |
| `Groups` | `createGroup`, `addGroupMembers` and `listGroups` of the store, row by row, and the copy a peer keeps | |
| `Fanout` | `sendGroup`, `broadcast`, `resolvePeer` | on top of `Groups`; the promise of `MessageFate` for each target |
| `History` | the list of a peer, `loadMessageHistory`, the rows both ends write, the list of a browser | |
| `Lifecycle` | start, heartbeat, churn, shutdown, crash of one peer; `TcpPeerServer.start/stop`; its registry row; the peer that introduces it; late requests | |
| `Connection` | `handleSocket`, `parseFrames` for one connection | |
| `Launcher` | `PeerLauncher`, its routes, its processes | |
| `DeliveryProofs`, `DeliveryFateProofs`, `DeliveryOnceProofs` | | theorems of `Delivery` |
| `FanoutProofs`, `LauncherProofs`, `LifecycleProofs`, `HistoryProofs`, `ConnectionProofs` | | theorems of the other modules |
| `MC_*` | constants of the runs | |

Operators named `X_Something` next to `X` are plausible wrong versions of `X`. No specification uses them; each stands in for `X` in a mutation test that shows that a property notices the difference.

### Delivery

Each message `m` has its own activation of the sending function, and `stage[m]` says which await it is suspended at: `tcp` (the open attempt of `sendTcpPayload`), `tryRelay` / `viaRelay` (the same through a relay), `queue` (`storeOfflineMessage`), `saveAck`, `save` (`saveDirectMessage`), then `done`. A call of `sendOnce` is a record `Call`; `frames` are calls whose payload has not been read by the other end, `acks` those whose ACK is on its way to a client that still waits (`Waiting`; the client destroys its socket when it gives up, so a later ACK has nobody to go to). A frame may be read long after its sender gave up: this is what makes duplicates. A refused connection, an ERROR frame, a closed socket and the timer all end an attempt in the same way, so `DirectFails`, `TryRelayFails`, `ViaRelayFails`, `InnerRetries` and `InnerGivesUp` are enabled whenever the client waits.

The peer record a sender holds may be stale, so it may think any peer online or offline: `SendDirect` may skip TCP, `DirectFails` may try any subset of relays in any order. The target's handler is split at its awaits: `HandleNew` remembers the id, and for a text decrypts, lists and starts to save; `TextSaved` ends with the ACK; a file is listed only in `FileWritten`. `Faulty` messages are those whose processing throws; the properties about texts speak of the others (`Sound`). The batch of `consolidatedSync` is fetched (`SyncFetch`), worked off record by record (`SyncNew`, `SyncDuplicate`, `SyncSaved`), abandoned on an error (`SyncThrows`) and acknowledged (`SyncAck`). Records are taken in any order; the code takes them in order of arrival, one of the orders explored. A request to the bootstrap is one step with the await it ends, with three outcomes: answered, carried out but not answered, never carried out. The late effect of a timed-out request therefore falls together with the timeout.

`directMessages[m]` is one row with three writers: the sender's verdict (`SaveSent`), the target's receipt (`TextSaved`) and the sync (`SyncSaved`), each over the others. `handled`, `handledCount` and `forgotten` are history variables; no action reads them. `Restart` kills one peer's process and starts it again: everything in memory goes, what was written to sockets may still be read by the other end. `MaxSends` and `MaxRestarts` are bounds on sends and crashes.

`InMemory` says whether the bootstrap runs on a `MemoryStore`, whose tables end with its process; `Wipe` empties them, any number of times. A record that went that way is "lost" and not "none": to the code the two are the same (nothing is pending, nothing can be acknowledged), only properties tell them apart. With a durable store (MySQL) `InMemory` is FALSE and `Wipe` never happens. `NoSilentLoss` thus promises a queued text for ever in a durable store and as long as the store lasts in one in memory, where a restart of the bootstrap loses it although its sender has been told that it is queued (README.md:240). `MessageFate` has the same two cases, `Durable` or with `LoseQueue`.

### Groups and Fanout

`createGroup` of the MySQL store writes the group, its owner and then its members one row at a time without a transaction; `addGroupMembers` may run in between. `CreationFails` leaves what was inserted. The memory store does all of it at once, which is one of the behaviours, and with `InMemory` it loses its groups at any time (`Wipe`): calls under way fail, answers on their way still show what was there, and a peer's copy outlives the group until the next sync. An `addGroupMembers` after that leaves rows without a group. `lost` is a history variable, the members that were wiped; `EverMember` is everybody who is or was in a group. `SyncAnswered` is `/api/peer/sync` computing its answer, `TakeGroups` the moment the answer replaces `this.groups`; answers overtake each other. Only members that the page offers are modelled: a caller of the REST API that names itself no member is not.

`Fanout` reads that copy when `sendGroup` starts and serves the targets one after the other. The peer cache changes at any time, with whatever the bootstrap says of peers that come, go and expire; so what `resolvePeer` finds is chosen when it is called: `Resolve` or `ResolveThrows` (a 404 is an error for `requestJson`, so a peer that neither side knows makes it throw). `Deliver` is the end of `deliverPayload`: "ok" of a message that was taken, "failed" of anything, as `MessageFate` has it per target, which `Delivery` implements. A text whose processing throws at a peer (`Faulty`) is the exception there as in `Delivery`: it is never taken, and its retry is acknowledged as a duplicate, so the sender may be told "ok" of it. The row of a group message is written by its sender and by each target like the row of a direct one, only by more of them.

### History

`messages` is the list of one peer. `loadMessageHistory` replaces it (`HistoryArrives`) with the rows the store answered earlier (`StoreAnswers`), in the order of their timestamps, which clocks make arbitrary (`Orders`). A send keeps a reference to the object that `trackOutgoing` put in the list and writes its verdict through it; `mine` is the set of ids for which that object is still the listed one. `row` is the row of a message in `direct_messages`, or in `file_transfers` for a file; both ends write it. The other end (`remote`) does anything that `Delivery` lets it do. `browser` is the list of the page: events are applied when they are emitted, because Socket.IO keeps their order, and a page that comes back is given a snapshot (`Connect`). Messages of a peer to itself are left out. The store of this module keeps its rows (`Delivery` has the wipe): a history loaded from a wiped store is empty. `MaxAcross` bounds the messages in play around a crash.

### Lifecycle

`task` holds the activations that may overlap (timer ticks and API calls) and what each waits for. The request of a task takes effect when its wait ends, so that requests in flight together take effect in any order. A request nobody waits for any more, because its time limit passed, its process died or it sits with the introducer that forwards it (`/introduce`), is in `stray` and may arrive at any time later, or never. `TcpPeerServer.stop` leaves `running` true until the last connection has closed (`tcpServer = "closing"`), in which `start` does nothing. `introducer` is the peer at `config.peer.introducerUrl`: "none" if none is configured, otherwise "up" or "gone", and it comes and goes as it likes (`IntroducerLeaves`, `IntroducerReturns`). `RegisterSelf` goes through it alone and is refused while it is gone, in `start` as well as from a heartbeat; heartbeats go to the bootstrap directly. `fresh` is "seen within the TTL". A port held by another program is left out.

### Connection

Bytes come in chunks cut anywhere; three bytes make a frame, enough to cut it between characters or inside one. `Decode` is `chunk.toString('utf8')`, which replaces half characters; `Scan` is what `parseFrames` does with one character of its text, and `ParseFrames` applies it from left to right. `running` is the set of payloads being handled; that it never has two members is a result (`EachFrameOnceInOrder`), not an assumption. When the other end has closed the socket the queue is worked off all the same, with nobody to answer; the history variable `ended` has the frames whose `onPayload` has ended, answered or not, and no action reads it. `cut` is another: the frames of whose multi-byte character a chunk held only half. A line that is the JSON value `null` is left out: `payload.messageId` in the catch of the handler (tcp/server.js:62-64) then throws as well, `processQueue` rejects, `processing` stays true and the connection serves nothing more. No peer of this program sends such a line. The peers of this program send one frame per connection, which is what `Delivery` builds on; the server does not rely on it.

### Launcher

A start request is suspended while it waits for `listPeers`, then for the port probes. The route searches the list for the id as typed, `PeerLauncher.start` its map for the normalised one; the third component of `want` says whether the two agree. The two ports of a peer are one here. A child is `starting`, `up`, `mute` (alive without a runtime because its TCP port was taken) or `closing`; its end and the `exit` event are separate steps. One launcher is modelled from its start on: a restart of the bootstrap, which empties `processes` while the detached children live on, is not.

## 3. Runs

All configurations set `CHECK_DEADLOCK FALSE`: messages are finite and may all be done, a process may be dead, a connection closed, all processes of the launcher used. Where something must not get stuck, a liveness property says so.

| Run | Bounds | Shows |
|---|---|---|
| `delivery_one` | peers a, b, c; one send from a to b, of any kind: a text, a text the user sends through a relay, a file, a file whose write may fail; 1 retry on each hop; HTTP faults; churn of b; one sync activation; a memory store that may be wiped; fairness | `TypeOK`, `DeliveredWasHandled`, `LedgerTruthful`, `RowsTruthful`, `DeliveredFileArrives`, `NoSilentLoss`, `SendAdvances`, `SendTerminates`, `QueueDrains`, and the refinement `ImplementsFate` |
| `delivery_overlap` | peers a, b; two texts; two overlapping syncs; a duplicate set of 1 id; a durable store; churn of b; one crash of either; symmetry | `StatsBalance`, `NoSilentLoss`, `AtMostOnce`, `SeenIsBounded` |
| `delivery_ack` | one text that cannot be decrypted, 1 retry | violates `AckMeansHandled` |
| `lifecycle_presence` | two overlapping activations, one of which may be a churn operation; HTTP faults and late requests; one wipe of the registry; with or without an introducer that comes and goes; fairness | `TypeOK`, `OnlineMeansListening`, `PresentPeerIsListed`, `DeadPeerIsDelisted`, `AwayPeerIsDelisted` |
| `lifecycle_stop` | two overlapping churn operations, no faults | violates `StopChurnRestores` |
| `fanout_status` | three peers, one group of b's making that a is named in and c joins, one send of a (to the group or to everybody online), of a text that b cannot process; a memory store that may be wiped; fairness | `TypeOK`, `CreatedIsWhole`, `CopyWithinGroup`, `NoStrangers`, `NobodyForgotten`, `StatusIsTrue`, `AnswersStand`, `CopyCatchesUp` |
| `fanout_unknown` | the same with a durable store and a text everybody can process, without fairness | violates `EachMemberIsServed` |
| `history_load` | a text out, a text in, a file in; a list of 2; one crash, around which two of them are in play | `TypeOK`, `ListIsSound`, `SavedSurvivesRestart`, `VerdictIsShown`, `BrowserKeepsUp`, `FileRowIsBacked` |
| `connection_stream` | five frames, one not JSON, two with a two-byte character; fairness | `TypeOK`, `EachFrameOnceInOrder`, `AlteredOnlyByCut`, `NoFrameLeftWaiting` |
| `connection_split` | two frames, one with a two-byte character | violates `PayloadsArriveIntact` |
| `launcher_seq` | two ids, two ports, three processes, one open start request; symmetry of processes | `TypeOK`, `RecordsTellTheTruth`, `NoOrphans` |
| `launcher_overlap` | one id, two ports, two processes, two open start requests | violates `NoOrphans` |

Why the bounds are enough. Messages meet in two places only: the duplicate set (an eviction needs two ids and a limit of one) and a batch of the queue (two records: one handled, one not); both are in `delivery_overlap`, and one message at a time is enough for the rest, so `delivery_one` has one send of each kind. A third peer is one relay; the relay loop with two is the same step twice. One retry gives two copies of a frame and every race between an old attempt and a new one. One crash separates before from after; it is in `delivery_overlap`, as the state space of `delivery_one` with a crash and fairness is too large, so `SendTerminates` and `QueueDrains` are checked without crashes, and for one message at a time. In `history_load` a list of two with three messages is full and loses entries; an entry is replaced, pushed out, loaded and merged. In `connection_stream` a whole frame lies between the two with a wide character and an unparsable one before them, so that a loss could spread to either side. In `fanout_status` three peers give a copy that is behind by one member, and results of both kinds. The theorems of section 5 hold for all values of these constants, so the bounds only matter for the properties that section lists as model-checked.

Symmetry is used in safety runs only.

### Fairness

`Delivery`: every await of a sender ends, because attempts have timers and requests a limit (`SenderStep`). `consolidatedSync` runs on an interval for ever and its awaits end; a bootstrap that is asked again and again answers some acknowledgement (strong fairness of `SyncAck(p, s, "ok")`). Nothing is assumed of frames, relays, handlers, churn, crashes or wipes; `QueueDrains` supposes that the target stops leaving, and lets a record go with a wiped store. `Lifecycle`: requests end, the heartbeat timer ticks, a bootstrap asked again and again answers a heartbeat, and a registration if the introducer is there each time to forward it, connections end (their clients have timers); time passes for a peer that is dead or away (`Age`), some other peer's sync lists the registry (`ListPeers`), and a request nobody waits for arrives or is lost. Nothing is assumed of the introducer, so `PresentPeerIsListed` speaks of a peer that has none or whose introducer is back for good. `Fanout`: the sync timer ticks, old answers are consumed or fail, and a bootstrap that is asked again and again has an answer arrive. `Connection`: handlers end.

## 4. Where the code departs from what it says

Each is the counterexample of a run, recorded under `findings`.

* `delivery_ack`: `handleIncomingPayload` adds the id before it processes the message (peerRuntime.js:293). When processing throws, a retry is acknowledged as a duplicate: a text that cannot be decrypted (direct, to a group or broadcast), or a file whose write failed, is shown as delivered; a queued record is retired by the second sync. Also, a file is acknowledged through a retry while it is still being written.
* `lifecycle_stop`: `TcpPeerServer.start` during `stop` does nothing, and the stop then completes: online without a listener.
* `fanout_unknown`: one unknown member aborts a group message; the branch for "peer not found" (peerRuntime.js:505) cannot be reached, and the message stays "sending".
* `connection_split`: `chunk.toString("utf8")` destroys a character cut by a chunk boundary (user names and file names travel unencrypted).
* `launcher_overlap`: check and set in `PeerLauncher.start` are two awaits apart.

Smaller ones, met while modelling and not kept as runs:

* `failed_queued` is shown also when the queue was unreachable (peerRuntime.js:383); the acknowledgement row tells the two apart.
* The rows of the message table are truthful (`RowsTruthful`) but may be worse than what happened: the sender's final "failed_queued" overwrites the target's "delivered_from_queue" (peerRuntime.js:810). After a restart a peer may see a message it sent itself as "received", because the target's row came last, where the documentation has "received" for messages from others (README.md:408).
* What arrives while the history is being loaded is dropped from the list if its row was not saved before the store answered, and a send begun before then keeps the status it had in the store (peerRuntime.js:197). `ListIsSound` and `VerdictIsShown` begin after that. A loaded history has no files, and of broadcasts only those the peer sent itself, whose row names it as the sender (store.js:476).
* A register, heartbeat or un-awaited `stopChurn` in flight at `shutdown` lists the peer again until the TTL passes (peerRuntime.js:90).
* A broadcast nobody received is "partial" (peerRuntime.js:557), where the documentation has "some received it, some did not" (README.md:411); its status does not tell whether anybody did, that of a group message does. `StatusIsTrue` says so much and no more.
* `heartbeat` is to re-register a peer when the bootstrap restarted (peerRuntime.js:140), but `registerSelf` asks the configured introducer only (124-131): while that peer is gone, a bootstrap that restarted does not list this one again. `PresentPeerIsListed` excludes that case.
* A restart of a bootstrap on the memory store loses what is queued, also a text whose sender has been told that it waits. The documentation says so (README.md:240, 571).
* `QueueDrains` needs the duplicate set to be larger than the set of ids that keep throwing: with as many poisonous records as `seenMessageIds` holds ids, each sync forgets the one it should skip.
* A group whose creation fails half-way stays, with the members inserted so far.

## 5. Proofs

The theorems have the form `Spec => []P`, `Spec => A` for an action property `A`, or state the refinement. They hold for every value of the constants that the named assumption of the module allows: `ConstantsOK`, `GroupsConstants`, `FanoutConstants`, `LauncherConstants`, `LifecycleConstants`, `HistoryConstants` (which has a finite set of messages), `FramesOK`. These give types, and say which sets are disjoint or finite.

Four theorems have a hypothesis besides, which is the condition under which the code is right:

| Theorem | Hypothesis | Without it |
|---|---|---|
| `NoOrphansOneAtATime` | `OneRequest`: one start request at a time | run `launcher_overlap` |
| `OnlinePeerListens`, `StopChurnRestoresPeer` | `OneChurn`: one churn operation at a time | run `lifecycle_stop` (and `OnlineMeansListening` falls with the same race) |
| `TakenOnceWithinTheLimit` | a peer is sent no more messages than its duplicate set holds | an id is evicted and a late copy is taken again, which `AtMostOnce` of run `delivery_overlap` (a set of one id) allows |

`TypeOK` of `Delivery`, `Launcher`, `Lifecycle` and `History` is inductive (that of `Fanout` and of `Connection` with the invariants below), with one lemma for each actor and one step for each action. The other invariants are not, and the strengthening is what makes each argument:

* **Delivery, `IInv`** (`DeliveredIsTrue`, `QueuedIsNeverLost`, `LedgerIsTrue`). The claim "delivered" travels: from the handler to the ACK frame (`AcksHandled`), across a relay that has an ACK of its inner call, into the result of the sender (`ResultTrue`), from there into the status and into the ACK row; and a duplicate is only acknowledged truthfully because a remembered sound id was handled (`SeenHandled`, `RunsHandled`). For the queue it travels from the batch into the acknowledgement (`SyncHandled`, `RetiredHandled`). A wipe only takes claims away, so none of this needs the store to be durable; `QueuedIsNeverLost` has the wiped record as a case of its own, and with `InMemory` FALSE that case does not exist. `handled` only grows, which the lemma `Frame` turns into "what holds of taken messages goes on to hold".
* **`SendGoesForward`** needs types only. `Progress` orders the awaits of a send; a send that stays at one either drops the relay it asks next from those left (`NextRelayGoesOn`) or opens its next attempt within the limit (`RetryGoesOn`), and no other actor touches it (`OthersSendNothing`). The triple of await, relays left and attempts left goes down at each step, so `SendTerminates` needs fairness only to make the steps happen.
* **`RowsAreTrue`** needs nothing beyond `IInv`: `RowsWritten` shows that each of the three writers knows what it writes.
* **Delivery, `FInv`** (`DeliveryImplementsFate`). A sender that has not finished has said nothing and stored nothing (`NothingSaid`), and what a sync works on has a record (`BatchStored`). Each step then maps to a step of `MessageFate` or leaves `View` unchanged.
* **Delivery, `OInv`** (`TakenOnce`, `DuplicateSetIsBounded`). The duplicate set is a sequence without repetitions, never longer than its limit and full if it ever dropped an id; an id not dropped has been counted at most once, and a file still being written is in the set, has not been counted and has only one run. For `TakenOnceWithinTheLimit`, the ids in the set are those of messages to its peer (`HasRoom`), so that a set that can hold them all has no reason to drop one.
* **Delivery, `CInv`** (`CountersBalance`). The set of messages under way is finite and changes by one element whenever a counter does.
* **Delivery, `DInv`** (`DeliveredFileIsThere`). A file is never queued; its id is remembered by the run that writes it; ACK, result and status of a file each imply that it has arrived, is being written, or that a process has crashed.
* **Fanout, `IInv`** (its invariants, and the action property `EachIsServedOnce`). Of the groups: a call under way has its rows and its group (a wipe ends the calls), every answer on its way is within what the tables hold or held, the rows and the wiped members together only grow, and a wiped group does not come back. Of the loop (`LoopInv`): targets are split into answered, being served and left; an "ok" is of a peer that took the message or where its processing throws; targets of a group message are or were members. The target served next is one of those left, which have no answer.
* **Launcher, `RInv` and `NInv`**. A process has a record exactly when it was born; for `NoOrphans`, what the check of a request found still holds when it spawns (`CheckHolds`), and a born process is in the map, asked to stop, or gone (`Mapped`).
* **Lifecycle, `OInv`** (`OnlinePeerListens`, `StopChurnRestoresPeer`). While the process runs, an online peer has its listener; whoever is leaving is a churn operation and the flag is up; a server that is closing has the operation that waits for it. `stopChurn` needs in addition that a peer is away only while the simulation is on (`AwayByChurn`).
* **History, `BInv`, `LInv`, `VInv`, `PageInv`**. A handler that is suspended has remembered its message (`Handlers`); the list has no id twice and keeps what entered it or is full, while loading included (`Loading`); an entry some send refers to has the verdict of that send (`Told`); the page is behind only while the handler that changed the entry has not emitted it yet (`Pending`).
* **Connection, `IInv`** (`FramesInOrder`, `WaitingFramesAreServed`, `LossIsOfTheCutFrame`). The buffer holds exactly the bytes since the last newline (`BufferIsRest`); a handler runs exactly while `processing` is up, alone, and no frame waits otherwise (`Serial`); frames done, the one at work and the queue are the stream so far (`Order`); the answers are those of the frames done (`Replied`). `OnlyCut` says of every place a payload passes through (buffer, queue, handler, replies) that it is altered only if its own frame is in `cut`, which `LossIsOfTheCutFrame` then states of what is handled: in any stream, with any characters, a loss stays in its frame. `parseFrames` reads a text of any length and the stream has any number of frames, so both need induction. The library states induction for an operator as a parameter, which the provers cannot instantiate; `SetInduction` states it for a set of numbers instead, from the well-foundedness of `<`, and `RecursionExists` gives from it the functions that `ParseFrames` and `Complete` define.

TLC checked the invariants on the instances of the runs before they were proved.

Only model-checked is liveness, which is out of reach of the prover: `SendTerminates`, `QueueDrains`, `PresentPeerIsListed`, `DeadPeerIsDelisted`, `AwayPeerIsDelisted`, `CopyCatchesUp`, `NoFrameLeftWaiting`. Of the first and the last, the part that needs no fairness is proved (`SendGoesForward`, `WaitingFramesAreServed`). Proofs about data that is read recursively use recursive functions only; no module declares a recursive operator.

## 6. Not modelled

* Encryption: a pure library function; that it can fail is `Faulty`.
* The REST routes beyond the runtime methods they call, and `/introduce`: they validate and answer. `invite-peer` starts a process that no launcher keeps a record of.
* The dashboards beyond the message list, logging, the configuration, the process entry points: rendering and plumbing.
* `nextDefaults` of the launcher, which suggests a free id and free ports and changes nothing.
* The scripts: a syntax check, a demo seed and a smoke test run by hand.
* Of the modelled parts: the order of the records in a queue and of the targets of a fan-out, messages of a peer to itself, a TCP port held by another program, the users table, two ports of a process as two, a wiped store under `History`, a restart of the bootstrap under `Launcher`, and a frame that is `null`.

## 7. What could come next

A registry with several peers that list each other, so that the peer cache is derived and not free; `nextDefaults` against a reference definition; the safety halves of the other liveness properties, as `SendGoesForward` is that of `SendTerminates`.
