# A TLA+ model of webhub-server

webhub-server is the hub between the frontends of a chat product and OpenClaw channel plugins. It is one
Node.js process: handlers run to their next `await` without interruption, the tables live in an sql.js
database that is written to disk by every statement (`src/src/db/schema.ts:214-223`), and everything else
(sockets, timers, subscriptions, stream buffers) is memory that a restart loses. What is hard about it is
therefore not data races but *stale callbacks and late requests*: the close event of a socket that was
replaced, the send callback of a frame of an older connection, an acknowledgement that arrives after a
deletion, a browser that reconnects with the id it saw a minute ago, a lookup that was made before an `await` and
is acted on after it.

## The system's parts

| Part (code) | State | Operations | Interaction | Hard behaviour | What makes it correct |
|---|---|---|---|---|---|
| Plugin WebSockets (`ws/pluginWsServer.ts`) | `connections` map, offline timers; column `plugin_status` | connect, replace, close event, 30 s timer, push | writes the channel table, broadcasts status, replays the queues | late closes of replaced sockets, several timers, restart | status and map agree; the newest socket is the one pushed to; a gone plugin ends up offline |
| Queues (`db/queueStore.ts`, `db/offlineQueueStore.ts`) | tables `message_queue`, `offline_queue` | create with eviction, list, update, delete | read on connect, updated by send callbacks | callbacks after a takeover, crash before a callback, capacity | nothing lost but by eviction, nothing resent once taken, order kept |
| SSE (`http/sseManager.ts`, `router/sseRouter.ts`) | id counter, connections, chunk buffers | subscribe, broadcast, heartbeat, replay | used by streaming, plugin status, channel list | reconnects with gaps, expiry, limit, restart | each chunk once and in order, none skipped the buffer had |
| Messages (`http/server.ts`, `http/crossChannelHandler.ts`, `db/messageStore.ts`) | table `messages` | send, webhook, relay, poll, ack, edit, delete | push to the plugin, broadcast to frontends | time-stamped cursor, late and repeated acks | a poll misses nothing, an acked message stays settled |
| Session commands (`http/server.ts`, `db/sessionCommandStore.ts`) | table `session_commands` | reset, switch, poll, ack, list | confirmations are messages | late and repeated acks, racing frontends | one outstanding command per sender; current session is the plugin's |
| Streaming relay (`http/server.ts:1179-1258`) | chunk buffer per reply | chunk, done | stores a message, broadcasts by SSE | repeated done, late, repeated and reordered chunks, failing INSERT, restart | stored text is what was shown, once |
| Duplicate filter (`http/server.ts:819-839`, `http/crossChannelHandler.ts:69-88`) | none of its own (reads the last messages) | filter by `dedupId` | two paths deliver the same message | window of 20 rows and 30 s | one row per message |
| Channel registry (`http/server.ts:234-345, 532-735`, `db/channelStore.ts`) | table `channels`, `connectedChannelId`, rate-limit map | apply, register, connect, disconnect | tokens of every other part | lookup before an `await`, racing connects, names that clash | one channel per key while it lives, active channel not disconnected, sliding limit |
| Database file (`db/schema.ts`, `index.ts`) | the database in memory, the file | start (twice) with migration, a statement and its rewrite of the file | every store | kills and failing rewrites, a start in the middle of it, two initialisations | what was answered is in every whole file; old rows are migrated once |
| Frontend sockets (`ws/broadcaster.ts`) | subscriber sets per channel | subscribe, unsubscribe, broadcast | every handler that changes what a tab shows, the plugin's statuses | tabs that break and come back, failing statements, changes under another URL | no dead subscriber, no hole; an open tab shows the table |
| Reactions and receipts (`db/reactionStore.ts`, `db/readReceiptStore.ts`) | their tables | add, remove, mark | broadcast to the tabs | repeats, other URLs | what a tab was told last is what the table has |
| Legacy stack (`ws/server.ts`, `ws/websocketManager.ts`, `router/messageRouter.ts`, `store/channelStore.ts`) | connections, socket sets, status | connect, close, heartbeat | not reached from `index.ts` | close of a replaced socket | three records of one channel agree |
| Directory, auth, files, transformer, logging, CLI | | | | single statements, pure functions, I/O | |

`PROJECT.json` lists every part with its status, the hazards at their lines, and which property covers each.

## Modules

Every module abstracts data and keeps control: tokens, texts, payloads, logging and requests that are refused
without changing anything are left out. Rows and sockets are numbered in creation order.

**PluginWs** models `handleConnection`, its `close` listener, the offline timer, `cleanupConnection`,
`updatePluginStatus` and `deleteChannel`, plus the process's restart. A socket is the number of its accepted
upgrade. `conn` is the `connections` map and `entryTimer` the timer its entry remembers; `timers` are *all*
armed timers, because a second close overwrites the remembered one and leaves the first armed. A handler that
runs without `await` is one action. Broadcasts of a status always carry the value just written to the column
and are left out here; Frontend has them.

**PluginReplay** extends PluginWs with the two queue tables and `replayPendingQueue`. Connecting writes a
frame per listed row in one step; `outbox[s]` holds the frames whose send callback is outstanding. Callbacks
report success in order while the socket works (`Flushed`), or all of them an error once it does not
(`SendFailed`), also after a newer socket took over. No code of the repository outside its tests calls the two
`create` methods: the model lets rows appear at any time, so the results are about the queue and its
replay once something fills it. `EnqueueOfflineAgain` is `create` for a message that is queued already: `message_id`
is UNIQUE, and the INSERT fails after the eviction has deleted the oldest row.

**SseManager** (checked through TabStream) models one id counter, the connections with the server's side lingering after the client's is
gone, the chunk buffer per reply with its size limit and expiry, heartbeats and replay. The browser's
EventSource is external: in-order frames, loss of what is under way at a break, the last id on reconnect.
**ResumableFeed** is the promise in the abstract (a follower sees each item once, in order, and skips only
what the feed gave up); `FeedSpec` says SseManager implements it, mapping a tab's feed to the chunks broadcast
on its channel.

**MessageDelivery** models the rows of `messages` as they are stored, polled, acknowledged, edited and
deleted. `created_at` is a clock with ties. The plugin is external: it polls from the start or from its
cursor, and acknowledges what it got at any time and as often as it likes. A message of OpenClaw may come with a
`dedupId` on two paths, the plugin's delivery (`forwardToOpenClaw`) and the relay
(`crossChannelHandler.ts`); each skips it when `listByDateRange` shows it already stored. The listing is by
`created_at` and leaves ties open, so `AlreadyStored` holds only when every order of the ties shows the row:
the model stores a duplicate whenever the code may.

**SessionCommands** models the command table, the plugin's inbox and the derived list of sessions. The order
of commands is their `created_at`; two commands of one sender never share it, since the second is refused until
a round trip to the plugin has settled the first.

**ChannelRegistry** models the `channels` table, `connectedChannelId` and the rate limiter. The store's adapter
acts at once and wraps the result in a resolved promise, so what follows an `await` is a microtask, and requests
that were pipelined all reach their first `await` before the first microtask runs. `tasks` is that queue and
`draining` says it is being run; a handler contributes one action per stretch between two awaits
(`RequestStatus`, `RunStatus`, `RunSlot` for connect and disconnect). Applying, registering by key and deleting
change the table before their first `await` and are one action each. `QuickName[k]` is `channel-` and the first
eight characters of the key, so keys may share it. `quickRegisterChannel` has no `try`: when its INSERT fails
(`InsertFails`), Express 4 does not see the rejected promise, and Node ends the process once the microtasks still queued
have run (`RejectionEnds`).

**StreamRelay** models `streamChunkBuffer` with `handleStreamChunk` and `handleStreamDone`. Their one lookup before
the work is in request order, so each is one action. A piece is its place in `log`, the history of requests
and restarts. A `done` that finds no buffer stores an empty message, as the code does; a `done` whose `create`
throws has already given up the buffer. `Result` tells the three cases apart: the row is stored; only its save failed,
and it is in memory until a later save takes it or the process ends; the INSERT itself failed. `saved` is the `done`
up to which the rows are known to be in the file; what other handlers saved since is left open (`RestartStream`).

**TabStream** puts StreamRelay (`INSTANCE`, its `log` renamed) on top of SseManager, whose handlers pass each piece on
in the same synchronous stretch, and adds the page: what it shows of a reply is the pieces by number and, at `done`,
the text it brings. `item[n]` says which request a frame carries. A tab following a channel is in the checked
instance; the module also has tabs on the global stream.

**Frontend** extends PluginWs with the broadcaster, the tabs and the tables whose changes are pushed to them. Each
PluginWs action that writes a status is conjoined with its broadcast (`PluginConnects`, `PluginCloseEvent`,
`PluginTimer`). `StoreMessage` stands for the five handlers that store and broadcast a message; they differ in where
the metrics are updated, which is its argument, as is the statement whose save fails. Edits, deletions, reactions
and receipts name a channel in their URL that nothing compares with the message's: `u` is that channel. The history
variables `failed`, `untold` and `strayFacts` name what the code itself keeps from the tabs. The page is external: it
lists the messages after it subscribed, and a frame on an open socket arrives. `TabLoads` leaves out the listing's
LIMIT, OFFSET and filter on `thread_id` (`messageStore.ts:40-53`): the page is taken to have listed every message of its
channel, and what an older page or a thread would show is not covered.

**Persistence** models `db/schema.ts`: the sql.js database in memory (`mem`, `memRows`), the file, and
`writeFileSync` as an open that truncates (`OpenFile`) and a write (`WriteFile`), between which the process may be
killed (`Crash`) and each of which may fail (`WriteFails`). Start-up calls `initDatabase` twice, from the import and
from `main()`; each `Load` opens the file, migrates and saves. Empty files open as new databases, torn ones do not
(`Unreadable`). A failing save throws into the handler with the statement in force in memory (`SaveThrows`), and
`OnFailure[r]` says what the handler of request `r` makes of it: most answer 500 from a `catch`; `handleStreamDone` logs
it and answers `{ok: true}` (`server.ts:1246-1256`); reactions, receipts, edits, connects and quick registrations have no
`try`, and the rejection ends the process when the microtasks that were due have run (`RejectionEnds`; until then, in
`"ending"`, other handlers may still run statements).

**LegacyWs** models the stack that `index.ts` no longer starts: the manager's one entry per channel, the router's set
of sockets and the store's status, with the two `close` listeners in their order. Heartbeats sent by the manager are
out: they start at an `open` event that an accepted socket does not emit again.

**Sorting** is the one operator behind `ORDER BY` and `Array.sort` where a proof needs the result: the place of an
element is the number of elements before it. PluginReplay and SseManager use it.

The `MC*` modules give the constants their small values; `*Proofs` hold the theorems. PluginWsProofs also has those of
Frontend and PluginReplay, which extend PluginWs; TabStreamProofs has SseManager's and TabStream's.

## What the runs check

| Run | Instance | Shows |
|---|---|---|
| `plugin_ws` | 2 channels, 4 sockets | `OnlineIsLiveOnceFresh`, `OfflineIsUnreachable`, `ReconnectingHasTimer`: column, map and timers agree whichever socket and timer an event is for. `PushGoesToNewest`: the map never goes back. `GoneGoesOffline` (liveness): without sockets a channel ends up offline |
| `frontend` | 1 channel, 2 plugin sockets, 2 tabs (symmetric), 1 message with a reaction, 1 foreign URL | `SubscribersAreLive`, `TabShowsTable`: an open, loaded tab shows the table but for the named exceptions. `StatusShownIsColumn`: the status shown is the column, whichever socket and timer changed it |
| `plugin_replay` | 1 channel, 2 sockets, 3 rows per table, capacity 2 | `OfflineItemNotLost`, `ProcessingWasSent`, `NoResendOnceSent` |
| `tab` | 2 channels, 1 tab, a reply on each channel, 2 numbers, 3 requests or restarts, 5 ids, 2 chunks per buffer | `TabShowsReply`: a tab that followed a reply from its first piece shows it as far as it was sent, a missed `done` included. `FeedSpec`: the event streams implement ResumableFeed |
| `messages` | 1 channel, 3 messages, 2 clock values, page of 1, 1 dedupId, filter of 1 row and the current clock value | `CursorSkipsOnlyTies`, `AckedIsFinal`, `EventuallySettled` (liveness). `DuplicatesAreFar`: two rows of one message lie further apart than the filter looks |
| `sessions` | 1 channel, 2 senders, 4 commands, 2 acks each, page of 1 | `CurrentMatchesPlugin`, `CurrentNeverGoesBack`, `PendingGetsSettled` (liveness) |
| `registry` | 2 keys with one generated name, 2 clients, 2 channels, 2 requests per read, 3 clock values | `SameAnswer`: a key is answered with one channel while it lives. `ActiveNotDisconnected`: the slot of `getActiveChannel` and the status column agree whenever no handler is under way. `RateLimited`: in no window more than the limit |
| `stream` | 2 replies, 2 numbers, 6 requests or restarts | `DoneIsWhatWasShown`: the text of a `done` is the pieces relayed since the last, in order, repeats replaced. `EveryPieceHasOneFate`: kept, in exactly one message, or replaced or lost for a cause |
| `persistence` | 3 requests (a message, 2 statements, error; a streamed reply, 1, ok; a connect, 2, end), 1 old row, 2 kills, 2 failing writes | `AnsweredSurvives`: what was answered ok is in every whole file and every serving process. `DropsOnlyAfterCut`: a start finds it gone only after a rewrite was cut short. `AheadOnlyByFailedSaves`: between statements the memory is ahead of a whole file by failed saves alone. `MigratedOnce`; `ComesBackUnlessTorn` (liveness) |
| `legacy` | 2 channels, 4 sockets | `RecordsAgree`: manager, router and store agree but after a close that came after the newest connection. `BlamedAfterClose`: only such a close gets a valid heartbeat refused |

`messages`, `sessions`, `registry`, `stream`, `tab`, `frontend`, `persistence`, `plugin_replay` and `legacy` check a type
invariant too, `stream` by way of `tab`, and `plugin_ws` by way of the two runs whose modules extend it.

Two runs show where the code departs from what its comments or documents say:

| Run | Departure |
|---|---|
| `plugin_offline` | Connect, reconnect, late close of the first socket, its timer: the channel is 'offline' and its open socket forgotten (`pluginWsServer.ts:192`) |
| `quick_register` | Quick registration of a new key fails, and ends the process, when its generated name is taken (`server.ts:642-643`, `channel-api.en.md:50`) |

Other departures are written into the models, and the properties name them as their exceptions:

* A restart leaves `plugin_status` as it was, 'online' included (`types.ts:59` calls it the "live plugin WebSocket connection status"):
  `OnlineIsLiveOnceFresh` speaks of channels whose plugin connected to the running process.
* A reconnecting tab is replayed the chunks of every channel (`sseManager.ts:244-247`): the feed that
  `FeedSpec` maps to leaves out what is not of the tab's own slot.
* An acknowledgement revives a deleted message and tells no tab (`messageStore.ts:121`): `AckedIsFinal` allows
  'delivered' after 'deleted', and the message is `untold` in Frontend.
* A change under another channel's URL is broadcast there (`server.ts:1072`, `:1097`); a message whose metrics could
  not be saved is stored and pushed to nobody (`server.ts:460`); a streamed reply is not broadcast by WebSocket.
* A rewrite that is cut short leaves an empty or a torn file. The next start takes an empty one for a new database,
  so everything is gone; a torn one cannot be opened, and the service stays down (`schema.ts:22-28`, `:219-222`).
  When the first `initDatabase`'s save fails half-way, the second may read what it left.
* A streamed reply whose own save fails is answered ok all the same (`server.ts:1246-1256`): as long as neither its save
  nor a later one has taken its row it is `Swallowed`, which the three properties of `persistence` except, and
  `EveryPieceHasOneFate` lets its message be gone after a restart (`MayBeLost`).
* The close of a replaced legacy socket removes the newer one's entry; from then on that one's heartbeats throw and
  are answered with a close 4004 'Invalid message format' (`ws/server.ts:92-98`, `:117`).

### Bounds

Bounds are constants named `Max...` that guard the action creating a new number. Four sockets on two channels
are two generations on each channel or four on one, enough for a takeover whose two closes and two timers
are all pending, with a restart in between. Two sockets and three rows let a full queue evict a row that is on
its way on the older socket while the newer is replayed. In `tab`, five ids and three requests give subscribe, piece,
break, piece or `done` and reconnect, with the other channel's pieces between; the buffer of two chunks shifts one
out at the third. In `frontend`, two tabs suffice for one to come or break while the other shows the message, and
two plugin sockets for a takeover; more of either only repeats them, and the theorems cover any number. Two failing
saves and two kills allow both calls of one start to fail, or a kill at the start after a kill; the three requests are
one of each kind of handler, and any one's statement may save another's. Three messages over two clock values have a tie on either side of a page's end. Four commands of two
senders have, for one sender, a finished command acknowledged again beside a new outstanding one.
For the duplicate filter three messages are a row, another one that pushes it out of the listing, and its
duplicate. Two requests per read let a connect and a disconnect, or two registrations of a key, both look before
either writes, while two channels allow one to be deleted and its key registered anew, or two to compete for the
slot; three clock values slide a window of two. The instance is symmetric in keys and clients.
Six requests on two replies allow a piece before, between and after two `done`s, repeated or under another number,
with a restart, a failed INSERT or a failed save in between; replies are symmetric.
Deadlock checking is off because a state in which every bound is used up has no step, and because a hub
nobody talks to may rest.

### Fairness

Only what the event loop or a working plugin does anyway is fair. In PluginWs: pending close events are
delivered and armed timers expire; nothing forces a plugin to connect or leave. In MessageDelivery and
SessionCommands: the plugin keeps polling and acknowledging, which is what the poll loop on the plugin's side
is; the hub itself only answers. In Persistence: the container is started again (`restart: unless-stopped`,
`DOCKER_ENV.md:71`), a process with an unhandled rejection ends, which Node does by default, and synchronous code, a
rewrite included, runs to its end unless the process is killed; kills and
failing writes are bounded there, never requests. The other modules state no liveness.

## What is proved

TLAPS checks these for every value of the constants; the only assumptions are the named ones on constants
(bounds are naturals, limits positive, `NoChannel` is no channel).

* **PluginWsProofs**: `TypeCorrect`, and from the inductive invariant `IInv` the theorems `OnlineLive`,
  `OfflineUnreachable`, `ReconnectingTimed`, `PushNewest`. The four properties are inductive only together and with
  `SocketsNumbered` and `EntriesBelong`: a close of socket *s* must not disturb a channel other than its own,
  for which the map's entries have to belong to their channels, and a restart must start a fresh generation.
* **MessageDeliveryProofs**: `CursorLosesOnlyTies`, `AckedStaysFinal` and `DuplicatesFar`. `CursorSkipsOnlyTies` needs that
  `created_at` grows with the row (`CreatedInOrder`), that the cursor is the `created_at` of a message the
  plugin got (`CursorIsSeen`), and two lemmas: a page has a newest row, and a row the page leaves out comes after
  all of it (a counting argument on `LIMIT`).
* **SessionCommandsProofs**: `OnePending`, `CurrentSession` and the action property `NeverGoesBack`. The key is `PendingIsLatest`: an outstanding
  command is its owner's latest, so what the plugin executes is never older than what it executed before, and
  an acknowledgement, however late, only repeats how the execution ended (`PluginAgrees`).

* **ChannelRegistryProofs**: `SameAnswerHolds`, `ActiveNotDisconnectedHolds` and `RateLimitHolds`, each from an
  invariant of its own. `AnswerInv` says what the lookups waiting in the queue still are worth: one that found a row
  found the key's only live row (`FoundIsCurrent`), one that found none is right until the queue is run
  (`MissingIsCurrent`), and a lookup that found a row is never behind one that found none (`FoundTogether`), so the
  channel created by the head of the queue is not one a later task contradicts. `SlotWillBeFreed` says a channel
  written as disconnected has the step that frees its slot queued behind every step that takes it. `RateInv`
  says the limiter still remembers every request of its window (`WindowKept`).
* **StreamRelayProofs**: `DoneBringsShown` and `PiecesHaveOneFate`. The invariant says what is kept is the latest
  piece of its number since the reply's last end (`KeptIsPiece`, `KeptUntilEnded`), that a row is what its `done`
  inserted (`RowsAreDones`), and that an inserted row is there unless it may be lost (`StoredIsSaved`,
  `InsertedIsThere`). The joined text needs a counting argument of its own: `FullContent` picks the *i*-th number
  as the one with *i* - 1 smaller ones, and such a number exists and is unique in every finite set of numbers.
* **PersistenceProofs**: `AnsweredSurvivesHolds`, `DropsOnlyAfterCutHolds`, `AheadOnlyByFailedSavesHolds`,
  `MigratedOnceHolds`, `DbTypeCorrect` from one invariant, `DbInv`. Its parts say where a save can be under way and
  what the file is meanwhile (`Phases`), that the second call of a start finds what the first wrote (`BootSaved`), and
  that the memory is ahead of a whole file by failed saves and the statement being saved alone (`AheadBySaver`). They
  hold whatever `OnFailure` says of each request; a `Swallowed` request is excepted until a save takes its row.
* Frontend's and PluginReplay's theorems are in **PluginWsProofs** too. `FrontTypeCorrect`, `SubscribersLive`,
  `TabsShowTable`, `StatusShown` rest on `FrontInv`, which adds that a tab whose socket is not open shows nothing, and
  what is true of a tab still loading. `ReplayTypeCorrect`, `OfflineNotLost`, `ProcessingSent` and the action property
  `SentOnce` rest on `ReplayInv`: callbacks are only outstanding for rows that were created (`ItemsCreated`), and what a
  transport has taken is no longer a pending row (`FlushedIsDone`), so the listing behind a new connection leaves
  it out, for which a sorted listing has to have the rows of its set and no others.
* `FrontImplementsPluginWs` and `ReplayImplementsPluginWs`: a step of either module is a step of PluginWs or leaves it
  alone, so PluginWs's invariant holds in both. They refine it without its fairness.
* **TabStreamProofs**: `SseImplementsFeed` and `TabImplementsFeed` (`FeedSpec`), `TabTypeCorrect`, `TabsShowReply`, and
  `TabImplementsRelay`, by which StreamRelayProofs' invariant holds in the composition. The argument has three layers.
  `SseInv` is about ids: chunks and frames are numbered in order (`BufferOK`, `WireOK`), a client lacks between its
  first and its last frame only what was given up (`GotOK`), and what is due to a connected client is on its way or
  given up (`DueIsOn`), which the replay re-establishes because it sends everything newer than the last id, sorted.
  From it every step maps to one of ResumableFeed: a broadcast to `Publish`, also when the heartbeat or the limit
  gives chunks up, a processed frame to `Begin`, `See` or nothing, a restart to `Forget`. `ItemsOK` ties frames to the
  relay's log, later frames to later entries and none to one from before a restart. `ShownOK` is the property without
  its premise that the connection is drained: a tab that can have followed a reply (`Could`) shows the text of the
  entries it has seen (`Seen`). A piece just processed is the latest seen; at `done` all pieces have been seen, and
  what it brings is the latest of each number because no earlier `done` and no restart lies in between.
* **LegacyWsProofs**: `RecordsAgreeHolds` and `BlamedAfterCloseHolds`, inductive once sockets are known to be numbered
  as they are accepted (`SocketsNumbered`).

Every invariant, action property and refinement that a passing run checks is stated by a theorem. Only model-checked:
the four liveness properties (`GoneGoesOffline`, `EventuallySettled`, `PendingGetsSettled`, `ComesBackUnlessTorn`),
which need fairness and ENABLED, and the two departures, which are counterexamples.

The proofs take the models as they are: that a handler is one step, that the browser reconnects with its last id, that
a page shows what it was sent are stated in the models, not proved.

## Not modelled

* Authentication, the directory, files and uploads, `contentTransformer`, logging, the CLI: single statements, pure
  functions and I/O without an interleaving to check.
* Of the modelled parts: history and search reads, `updateStreamingState` (no caller), the retry counters of the
  queues (written, never read), channel metrics beyond the order of their statement, typing frames.
* Of the legacy stack: the heartbeats it sends, `MessageQueue` and the outbound handlers, none of which is reached
  once a server accepted the socket, `stop`, and `plugin.ts`.
* A frontend socket that is half open: a broadcast to it is lost without an error until the TCP connection times out,
  and Frontend's tabs are what they show once they have read what was sent. The answer to a tab's listing and the
  frames pushed meanwhile come over two connections; their order at the page is the page's matter.
* The store is taken to be the adapter of `index.ts`, whose promises are resolved already. With a store that does
  I/O the connection handler at `server.ts:1539` could miss the close of a socket, as no listener is there yet.

Candidates for further work: abstract specifications of the session commands and of the registry's slot, and their
refinement; `contentTransformer` against a reference definition on bounded inputs.
