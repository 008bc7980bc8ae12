# A TLA+ verification of ClawMux

ClawMux (`src/src/`, Python 3.12, asyncio) is a gateway between chat platforms
(Mattermost, Telegram, Bitrix24, Slack, VK Teams, MS Teams) and per-user
OpenClaw agent instances. A platform adapter hands each inbound message to the
router, which finds the user's instance, sends the text over that user's
persistent WebSocket, streams partial answers into a placeholder post and
finally shows the answer; agents may also speak unasked, and those messages go
the other way. This directory holds TLA+ models of the parts of that path where
order, concurrency and failure matter, the TLC configurations that check them,
and proofs of most of the safety properties for every value of the constants.

## 1. Inventory

| Component (source) | State | Operations | Interacts with |
|---|---|---|---|
| `MappingStorage` (`services/mapping.py`, `models.py`) | tables instance, app_user, identity, user_instance, mapping_state; two in-process caches with version and TTL | lookups by identity and external id, `bind_user_instance`, `reload_cache_version`, `invalidate_cache`, `get_channel`, `remember_channel` | router, provisioner, REST API; other replicas through the database |
| `ClawAggregator` (`utils/claw_aggregator.py`) | `_buffers`, `_tasks` per msg_id | `add_event`, `_finalize_later`, `_select_best`, `cancel_all` | the client's `_dispatch` in, `_route_aggregated_message` out |
| `OpenClawClient` (`services/openclaw_client.py`) | socket, `_listen_task`, `_send_lock`, `_active_msg_id`, `_pending_future`, `_timed_out_msg_id`, `_agent_texts` | `connect`, `send_message`, `_listen_loop`/`_dispatch`, `_delayed_fallback`, `close` | gateway (events), aggregator, manager (callbacks) |
| `WSConnectionManager` (`services/ws_manager.py`) | `_clients`, `_user_info`, `_last_active`, `_guardian_tasks`, `_locks`, `_send_locks`, `_shutting_down` | `send_message`, `get_or_create`, `_guardian_loop`, `_cleanup_loop`, `close_connection`, `close_all` | router (calls), clients |
| Router: channel bookkeeping (`router.py`, `api/notify.py`, `api/trigger.py`) | `_user_channels` per replica, table user_channel | `_remember_channel`, `get_or_create_channel`, `handle_proactive`, `trigger_message` | mapping storage, adapters, manager's proactive callback |
| Router: choosing the instance (`router.py`) | the locals of `handle_event` | `handle_event` up to `send_message` | manager's pool, mapping, provisioner, file manager |
| Router: reply delivery (`router.py`) | the locals of `handle_event`, `StreamUpdater` | `handle_event`, `_dify_fallback`, `on_stream` | manager, Dify, adapters |
| `DifyClient` (`services/dify_client.py`) | `_conversations` | `chat` (an SSE stream) | router |
| `InstanceProvisioner` (`services/provisioner.py`) | none of its own | `provision_instance`, `_seed_workspace_template` | mapping storage, an external orchestrator |
| `FileManager` (`services/file_manager.py`) | the workspaces on disk | `download_attachments`, `upload_to_mattermost`, `container_path_to_host` | router, Mattermost |
| Chat adapters, receiving (`services/mattermost.py`, `telegram.py`, `slack.py`, `vk_teams.py`, `utils/tasks.py`) | session, `_last_update_id`, `_last_event_id` | `start`, `_poll_loop`, `_socket_mode_loop`, `_ws_listen_loop`, `_handle_...`, `fire_and_forget`, `stop` | platforms, router |
| Chat adapters, sending; webhooks (`bitrix.py`, `teams.py`) | HTTP clients | `send_reply`, `update_reply`, `get_or_create_dm_channel` | platforms, router |
| REST API, health, metrics, configuration, database engine, crypto, lifespan, scripts | little or none | request handling, file I/O, start and stop | all of the above |

What is hard here, component by component, and what makes it correct:

* **Mapping storage.** Several replicas cache the same rows; an `await` separates
  reading the version, trying the cache, querying the row and storing it, and a
  bind may commit between any two of them. Correct: an entry the version check
  accepts is current; a lookup returns a binding its user had during the call;
  a user and an instance are in one assignment at most; a cache keeps its limit.
* **Aggregator.** The task of a window is cancelled and replaced as events arrive, and
  may be due, or cancelled without knowing it, when that happens. Correct: each window
  has one task that will close it and is closed once, with every message in it; each
  window closes; the message emitted is the best one.
* **Client.** One socket carries the answers of all calls and unasked messages,
  and events name no request. Calls time out and their answers come late; five
  places may resolve a future. Correct: a future is resolved once; a waiting call
  can be reached; a late fallback answers nobody else; each call returns.
* **Manager.** Senders, the guardian, the cleanup loop and shutdown race over the
  dictionaries, and lock objects are dropped from them while in use. Correct: one
  live connection per user, guarded; serial sends; nobody holds a lock for good;
  a lost connection comes back; shutdown ends.
* **Channel bookkeeping.** A cache per replica in front of a table, written by
  concurrent calls; keys of identities and ids of users share one type. Correct:
  nobody gets what is meant for somebody else; a known channel is used.
* **Choosing the instance.** An instance is chosen from a cache entry, a lookup or a
  provisioner, and used several awaits later, perhaps over a connection another call
  has made with another choice, and once more on the retry. Correct: a message and its
  files reach only instances its user has had since the call, or the call that made the
  pool's entry, began; a template is not written into a workspace in use; a rebind takes
  effect in the end; each call ends.
* **Reply delivery.** Edits of one post are in flight while the final edit goes
  out; calls fail at any point. Correct: partial texts do not go backwards, the
  final text stays, the status phrase goes, edits keep their distance; the author
  learns of a failure.
* **Receiving adapters.** A poll's offset confirms everything before it, an envelope
  is acknowledged before it is handled, an update may raise in the middle of an
  answer, sockets and processes end. Correct: messages are dispatched in order,
  none is confirmed without having been dispatched except where the process ends in
  between, and none waits behind a malformed one for good.

`PROJECT.json` lists the hazards line by line, with the property that covers each
or the reason why none does yet.

## 2. Modules

| Module | Models | Composition |
|---|---|---|
| `MappingStorage` | `mapping.py` without channels, `scripts/onboard_user.sql` | refines `BindingRegister` |
| `BindingRegister` | what the lookups promise: a regular register per user | abstract specification |
| `MappingStorageProofs` | the theorems about `MappingStorage` | EXTENDS it and TLAPS |
| `DebounceWindows` | `claw_aggregator.py` as its caller sees it: open windows, the selection | abstract specification, and INSTANCEd by `OpenClawClient` |
| `ClawAggregator` | `claw_aggregator.py` with its tasks and their cancellation | refines `DebounceWindows` |
| `ClawAggregatorProofs` | the theorems about `ClawAggregator` | EXTENDS it and TLAPS |
| `OpenClawClient` | `openclaw_client.py` after the handshake | contains the aggregator, seen as `DebounceWindows` |
| `OpenClawClientProofs` | the theorems about `OpenClawClient` | EXTENDS it and TLAPS |
| `WSConnectionManager` | `ws_manager.py` for one user | a client is abstracted to its connection |
| `WSConnectionManagerProofs` | the theorems about `WSConnectionManager` | EXTENDS it and TLAPS |
| `ChannelRouting` | `_user_channels`, user_channel, proactive and triggered delivery | |
| `ChannelRoutingProofs` | the theorems about `ChannelRouting` | EXTENDS it and TLAPS |
| `MessageRouting` | `handle_event` up to the instance, `provisioner.py`, the send with its retry | composes the mapping, seen as `BindingRegister`, with the pool, seen as an entry per user |
| `MessageRoutingProofs` | the theorems about `MessageRouting` | EXTENDS it and TLAPS |
| `ReplyDelivery` | `handle_event`, `StreamUpdater` and the media of an answer, for one message | the answer is a step that succeeds, is empty or fails |
| `ReplyDeliveryProofs` | the theorems about `ReplyDelivery` | EXTENDS it and TLAPS |
| `ChannelIntake` | the receiving half of an adapter: polling, acknowledging or pushed | ends where `ReplyDelivery` begins, with one call of `handle_event` per message |
| `ChannelIntakeProofs` | the theorems about `ChannelIntake` | EXTENDS it and TLAPS |
| `MC*` | model values, symmetry sets | EXTEND the module they are named after |

**Granularity.** asyncio switches tasks only at an `await` that suspends, so an
action is the code between two such awaits. An uncontended `asyncio.Lock`, a
`Future` that is done and an `ensure_future` do not suspend; database statements,
`sleep`, socket reads, a contended lock and platform calls do. `ws.send` is taken
not to suspend: the frames are small and the library only waits for a full buffer.
In the mapping, replicas run in parallel, and a step is one SQL statement (READ
COMMITTED, the engine's default) or the code between two.

**State and actions.** Variables carry the names of the fields they model, with a
comment where they differ; `PROJECT.json` `map` gives the lines for every
definition. Variables commented *history* record what properties talk about and
guard nothing. *External* marks what the gateway, the network or a platform does.

* `MappingStorage`: `Call`, `ReadVersion`, `CacheHit`/`CacheMiss`, `QueryRow`,
  `NotFound`/`PutRow` are the steps of a lookup; `BindBegin`, `BindReadUser`,
  `BindCommit`/`BindAbort`, `InvalidateCache` those of a bind, where the flush
  and the commit are one step and the database's unique keys decide between
  success and rollback (`InstanceWriteOK`, `UserInstanceWriteOK`). `instance_uuid` is
  the primary key of `user_instance` and a bind changes it, so its UPDATE finds a row by
  the uuid that was read, whoever has it by now (`WrittenRows`). `ReloadRead`
  and `ReloadSweep` are `reload_cache_version`; `Expire` is the TTL; `Restart`
  kills a process with everything in flight. `Home` places each call in a process.
* `ClawAggregator`: `AddEvent` (with `Restart`), `FinalizeLater` and `CancelAll` are the
  methods. A task object is *sleeping*, *ready* once its sleep is over (`SleepEnds`),
  *cancelled* once somebody has called `cancel()` (`Cancelled`), also when it was ready,
  *emitting* while `on_final` runs, and done (`TaskEnds`). `FinalizeLater` pops both
  dictionary entries of its msg_id without looking whose they are, as the code does. The
  window has no length; a sleep may end at any moment, which covers events within a
  window and in two windows. `DebounceWindows` has the same operations with a set of
  open windows in place of the tasks.
* `OpenClawClient`: `Call`/`Refuse`/`Acquire`/`Resume`/`Timeout` are `send_message`;
  `Dispatch...` the branches of `_dispatch`; `FireFallback` is `_delayed_fallback`
  after its sleep; `FinalizeLater` the aggregator's timer with
  `_route_aggregated_message`; `Close`, `CloseSocket`, `ListenerExit` the end. The
  three assignments that make a call active always happen together and are one
  variable. `Timeout` is possible with a resolved future: `asyncio.wait_for` of
  Python 3.12 times out if the deadline passes before the waiter has resumed.
* `WSConnectionManager`: lock dictionaries and lock objects are kept apart (`lk.of`
  against `lk.holder` and `lk.wants`), because `close_connection` pops entries
  whose objects are held. Operators take a lock state to a lock state so that a
  sender that finds both locks free takes them in one step. `Recheck`, `Notice` and
  `Wake` are the waits of the guardian, `Closer...` the cleanup loop with
  `close_connection`, `Shut...` `close_all`. Client, guardian and lock objects are
  collected when nothing refers to them and used again; a step that makes one needs one
  that is free (`HasLock`, `Unused`, a guardian that is done), which bounds their number.
* `ChannelRouting`: a job is one call and its program counter; an identity is a
  pair whose second part may be a pair again, for the callback that passes an
  identity key as a user id.
* `MessageRouting`: a job is one call of `handle_event` and its program counter.
  Its binds (`BindOK`) need no `WrittenRows`: each instance is handed out to one user
  there, so the row that had the old uuid is the user's own or gone.
  `ReceivePooled`/`ReceiveUnpooled` are `get_cached_info`; `Lookup...` the lookup, which
  may answer with any binding its user has had since it began: what
  `MappingRefinesRegister` proves of `MappingStorage`. `Provision`, `Seed` and the three
  `Bind...` steps are `provision_instance`; `ReuseConnection`, `StartConnecting`,
  `Connected`, `ConnectFails` are `get_or_create`; `SendFails` is the retry.
  `GuardianReconnects` and `CloseIdle` change the pool beside the calls. The locks of
  the manager are left out, because the cleanup loop pops them (`MCWSOneLive.cfg`), so
  every interleaving of connects and sends is possible here. External are what the
  orchestrator offers (`Offers`: with `perUser`, a user's own instance again), whether
  an instance accepts a message, and the binds of other replicas.
* `ReplyDelivery`: `OnStream`/`OnLock`/`Edited` are one `on_stream` call each, with
  a clock in ticks for the throttle; the OpenClaw path creates a task per partial
  text, the Dify path awaits each. A text that finds callers waiting for the updater's
  lock waits behind them even when the lock is free at that moment, as `asyncio.Lock` has
  it. `Upload` looks at one file of the answer,
  `ReplyWithFiles` shows the text before files, `PostFiles` is `send_post_with_files` of
  the three kinds of adapter. `Raises` is what leaves `handle_event` before its `try`.
* `ChannelIntake`: updates are numbers in the platform's order, each a message, an
  unwanted event or one whose handling raises. `kind` chooses the loop: `Answered`,
  `PollFails`, `HandleAnswer` are a poll (Telegram, VK Teams); `Acknowledge`,
  `HandleEnvelope` an envelope (Slack), two steps because `ws.send` may suspend; an
  acknowledgement that raises is a socket lost before the envelope was read.
  `HandleFrame` is a frame (Mattermost). What the platform keeps (`held`) is external.

**Fairness.** The client, the manager, the aggregator, the intake and the routing claim
liveness. Weak
fairness goes to steps the event loop owes: a sleep or a timeout ends, a task that
is ready runs, a connect succeeds or fails (both bounded by timeouts). Strong
fairness goes to lock acquisition alone: `asyncio.Lock` wakes its waiters in the
order they came, so a waiter is served although others pass between. Nothing is
assumed of the gateway or the network, with two exceptions: `GatewayBack` (module
`WSConnectionManager`), that reconnections succeed again and again, the premise under
which `Reconnects` is stated; and in `ChannelIntake`, that a platform answers some
polls and delivers what is not acknowledged until an acknowledgement gets through. `WindowCloses` also rests on the bound `MaxBuffer`,
that is, on events that stop extending a window. In `MessageRouting`
every step of a handler is fair (`Fairness`): statements, the webhook, the connect and
the wait for an answer have timeouts. `RebindTakesEffect` has a premise about users, not
about the code: that each of them rests, again and again, until the idle cleanup has
closed the connection.

## 3. Runs

| Run | Question | Instance, and why it is enough |
|---|---|---|
| `mapping_cache` | Are the caches coherent, and do lookups implement the register? | Two lookups on one replica, binds on another, two values for a user, versions up to 3: an old value, its successor and the one after meet in cache, locals and rows. The proofs lift the bounds. |
| `mapping_bind` | Do concurrent binds keep the assignment one to one, and caches bounded? | Two binds of two users and three instances, versions up to 5: an assignment, its move, the assignment of the old instance to the other user, and a late UPDATE by the old instance that still has a third one to go to. A cache of one entry and two keys. Lookups come after binds (`LookupsAfterBinds`): a bind reads nothing they write. |
| `aggregator` | Do the tasks amount to windows, what does a window emit, and does it close? | Three events with the sequence numbers 0 to 2 (an event without one has 0): a best one, a later one and a tie. Three task objects: a live one, one that is cancelled and does not know it, and a third that is either or emits. The windows of two msg_ids are disjoint, so one msg_id. |
| `client_single` | What holds for the one caller the manager admits? | Two requests one after the other, so that what is left of the first (late events, fallback, window) meets the second; two finals in a window; disconnect and close at any moment. |
| `client_queue` | Does everybody get their own answer, and return, when calls queue? | Two callers; runs fall silent once their call returned (`Late` is FALSE), a third run pushes a cron summary. |
| `ws_pool` | Is there one live connection, and does it come back? | Two senders with their retries, three guardian and four client objects, without cleanup. |
| `ws_shutdown` | Does everything end, whatever is in flight when `close_all` begins? | A sender with its retry, guardians, the cleanup loop, three lock objects per dictionary, so that a popped lock, its successor and a third one coexist. |
| `channel_routing` | Does anybody get the messages of somebody else? | Two providers with the same user id, two concurrent calls, restarts and failures. Replicas meet in the table only, and one that restarts covers an empty cache next to a full table. |
| `routing` | Which instances get a message and its files, when is a template written, does a rebind take effect? | One user, two calls, two instances, automatic provisioning and one rebind elsewhere: an old and a new binding, a call that holds the old one while the other connects, two first messages that both provision. Users meet in the database alone, whose keys `mapping_bind` checks. Accepted messages, retries, cleanup and restarts are unbounded. |
| `reply` | What does the author of a message see? | Four partial texts, an interval of two ticks and five ticks: an edit in flight, one that waits, one throttled and one after the interval. Two files, so that one is posted and one is left. |
| `intake` | Which messages reach the router, in which order, and which may be lost? | Three updates of any shape, so that a malformed one has a message before and after it; one restart; one repeated delivery. All three kinds of adapter. |
| `client_stale` | *violated* | see below |

`CHECK_DEADLOCK FALSE` is set for the client and the reply, whose calls and
handlers come to their end, and for the intake, whose adapter stays dead when its
`start` failed; everywhere else TLC also checks that something can
always happen. Symmetry is used in runs without liveness properties only.

In `client_single` the gateway starts no run of its own. The events of a request
whose call has timed out are the same events, attributed by the same code to the
same (or no) call, so what such a run could do is among the behaviours already.

### Disagreements with the documentation

One run has an expected violation, `client_stale`: a `chat.final` is tagged with the call that is active when it
  arrives (`openclaw_client.py:559`). The answer of a call that timed out resolves
the next call's future, against the comment at 326-327. `OwnAnswer` shows the
complement: with a gateway that falls silent in time the answers do not mix.

More configurations reproduce further disagreements and side questions. They are
not part of the standard set and are run by hand
(`tlc -config X.cfg <module>`); all but the one marked *holds* end with a violation:

| Configuration | Property | What it shows |
|---|---|---|
| `MCMappingReload.cfg` | `ReloadBusts` | `reload_cache_version` sweeps entries of another version only, and `scripts/onboard_user.sql` does not bump the version: after the script the reload keeps the stale entry, which `docs/architecture.md:37-38` says it removes. |
| `MCMappingMoves.cfg` | `BindsOwnUser` | A bind that read its user's row before another bind moved it addresses the UPDATE by the old `instance_uuid` (`mapping.py:444`). If that instance has passed to another user, the bind commits and moves *their* row: a third instance is now theirs, and its own user keeps what the other bind gave. `models.py:173-181` asks for DELETE and INSERT instead. |
| `MCClawAggregatorEmpty.cfg` | `EmitsAnyway` | A window of blank texts, with files or without, emits nothing (`claw_aggregator.py:214-229`); the docstring says that the highest seq is taken "anyway (better to send something than nothing)" (201-202). |
| `MCClientLateAnswer.cfg` | `LateAnswerKept` | A future resolved just before the timeout fires is neither returned nor pushed (`openclaw_client.py:365`). |
| `MCClientOrphan.cfg` | `WaiterReachable` | With two callers on one client, the one that queued checks the connection before the wait only (322) and may wait for a listener that has ended. |
| `MCWSOneLive.cfg` | `OneLive` | `close_connection` pops the locks (`ws_manager.py:283`) although a sender may hold or await them. The next caller makes new ones and connects in parallel; two connections of one user are live, and one is in no dictionary ("1 user = 1 persistent WS connection", 32). Without the cleanup loop `OneLive` holds (`ws_pool`). `SendSerial` is lost in the same way; without the cleanup loop it is a theorem. |
| `MCWSShutdownLeaves.cfg` | `ShutdownLeavesNone` | A send whose client `close_all` closed connects anew and outlives it (`ws_manager.py:345`). |
| `MCWSIdle.cfg` | `NeverClosedOnIdle` | The cleanup loop closes idle connections; the module docstring says never. |
| `MCChannelCache.cfg` | `CacheAgrees` | *holds*: one call at a time. |
| `MCChannelStale.cfg` | `CacheAgrees` | Two concurrent messages leave cache and table with different channels (`router.py:372`). |
| `MCChannelProactive.cfg` | `ProactiveKept` | The manager's callback passes an identity key to `handle_proactive`, whose provider is Mattermost unless given (`router.py:559`): the message for a user of another provider is dropped. |
| `MCChannelDM.cfg` | `NoDMWhenKnown` | `get_or_create_channel` opens a DM for a cached channel (`router.py:482`). |
| `ReplyOverwritten.cfg` | `AnswerShown` | On the OpenClaw path an edit still in flight overwrites the final answer. |
| `ReplyStatus.cfg` | `StatusGone` | After an empty answer the status phrase stays (`router.py:351`). |
| `ReplyThrottle.cfg` | `Throttled` | Edits that waited for the updater's lock go out back to back (`router.py:66`). |
| `ReplyEarly.cfg` | `NeverSilentEarly` | When the database fails in the lookup, or the info of an attachment is malformed, the exception leaves `handle_event` and the author gets no reply. |
| `ReplyFiles.cfg` | `TextDespiteFiles` | An upload that raises (a file that cannot be read, a malformed response) costs the author the text of the answer (`file_manager.py:275-283`). |
| `ReplyFilesPosted.cfg` | `FilesPosted` | The router passes `file_ids_or_paths`, which the Mattermost adapter names `file_ids` (`router.py:324`): files never reach Mattermost, and an error reply follows the answer. |
| `RoutingTwice.cfg` | `ProcessedOnce` | A retry may go to another instance than the first attempt, which has not seen the idempotency key: both process the message, against `ws_manager.py:236-238`. It takes a rebind or a second first message, and another call that has connected with the other info. |
| `RoutingFiles.cfg` | `FilesWithMessage` | Attachments are saved for the instance that was looked up, and the message goes over a live connection to another one. |
| `RoutingRebind.cfg` | `RebindSeen` | A connected user's messages go to the old instance after a rebind, whereas `docs/architecture.md:34-36` says that stale entries are reloaded immediately. |
| `RoutingOrphan.cfg` | `NoOrphan` | Two first messages of one user provision two instances and leave one to nobody. |
| `RoutingSeed.cfg` | `SeedOnce` | With an orchestrator that returns a user's instance again, the second of two first messages overwrites the templates of a workspace in use. |

## 4. Theorems

Every theorem holds for all values of the constants that satisfy the assumptions its
component's module names; the runs of section 3 show the same properties on one
instance each.

### `MappingStorageProofs`

From disjoint "none" values, non-empty sets, a home for every call and a positive
cache limit:

* `TypeCorrect`: `Spec => []TypeOK`;
* `CacheIsCoherent`: `Spec => []CacheCoherent`;
* `LookupIsCurrent`: `Spec => []LookupCurrent`;
* `MappingRefinesRegister`: `Spec => RefinesRegister`;
* `AssignmentsOneToOne`: `Spec => []OneToOne`;
* `CachesBounded`: `Spec => []CacheBounded`.

Neither `CacheCoherent` nor `LookupCurrent` is inductive. The first says nothing of
a lookup that holds a row it is about to store, the second nothing of a call that
has not returned. The inductive invariant `MappingInv` adds what the argument needs:
no version anywhere is ahead of the database's (`VersionsPast`), so a bump makes
everything tagged earlier unacceptable; the window of a call in flight contains the
current binding (`WindowOpen`); a row in hand whose version is still the current one
is the current binding (`RowCoherent`), which is where the order *version first, row
second* enters, and it is in the window (`RowInWindow`); an entry whose tag is the
version the call has read is in the window (`EntryInWindow`). Commit is the one
action that disturbs all of them, and the version bump in its transaction is what
repairs them. One lemma per action shows that `MappingInv` is kept; the refinement
maps a commit to the register's write, the end of a lookup to its answer and all
other steps to stutters.

`OneToOne` needs one more fact, `RowKnown`: a bind that has found a row of its
instance, and so may write none, can rely on the row still being there when it
commits. The UPDATE of `user_instance` writes to whoever has the old uuid; by `OneToOne`
itself that is one user at most, and the new uuid is nobody's, so the assignment stays
one to one although the row may not be the bind's own (`BindsOwnUser` is not a theorem). `CacheBounded` is inductive once the caches are known to be finite
(`CachesFinite`): a put adds one entry to a cache that is not full, and leaves one in
a cache that was.

### `MessageRoutingProofs`

From "none" values that are no user and no instance and a bound on the binds of
other replicas that is a number:

* `TypeCorrect`: `Spec => []TypeOK`;
* `ReachesFresh`: `Spec => []FreshOrPooled`;
* `SeedsUnused`: `Spec => SeedBeforeUse`.

Types are kept together with three facts about the control: a call past the mapping
has a user and an instance (`LocalsSet`), a live connection belongs to an entry
(`EntrySet`), and a call that has read a binding commits over one (`Bound`).

`FreshOrPooled` speaks of where a call has sent its message and says nothing of
where the next step will send it. `RoutingInv` adds that: a call in progress knows its
user's present binding (`SinceCurrent`); so does an entry of the pool, and it knows
its own instance (`EntryCurrent`), so a call that takes the entry or reuses its
connection inherits enough; what a bind has read, an instance that has been chosen
and a client that is in use are all in the call's window (`JobFresh`). The binds
disturb the first two and `Observe` restores them; `Connected` hands the window of a
call to the entry, which is why an old binding can outlive the call that found it.

`SeedBeforeUse` rests on `SeedInv`: nobody knows an instance that has not been handed
out, and an instance whose workspace is about to be seeded is known to the call that
provisioned it alone. "Known" (`Published`) covers the windows of calls and entries,
so the induction uses `RoutingInv` where a message is accepted: the client is in the
window.

### `ClawAggregatorProofs`

From sequence numbers and a bound on buffers that are numbers, at least one msg_id and a
"none" that is no task:

* `TasksImplementWindows`: `Spec => RefinesWindows`;
* `BestEmitted`: `Spec => EmitsBest`.

`RefinesWindows` says that what the tasks do to the buffers is what `DebounceWindows`
allows, where a window is open while a live task (sleeping or ready) has it. The mapping
is from task objects to windows, so two live tasks of one window would close it twice,
and a live task missing would leave an event behind. The invariant `TasksInv` ties three
things the code keeps apart: the live tasks are exactly those in `_tasks`, each under the
msg_id it was started for, and a buffer is empty exactly when its msg_id has no task.
It is inductive because `add_event` cancels the task it replaces whether its sleep has
ended or not, and because a task pops the dictionaries in the step in which it stops
being live; a task that is cancelled touches neither. `WindowsStep` maps `FinalizeLater`
of a task to `FinalizeLater` of its window, the ends of sleeps and of tasks to stutters.

`EmitsBest` needs `TasksInv` too (a task that closes a window finds something in it) and
what `_select_best` returns for a sequence of any length (`SelectsBest`), for which the
first message with the highest sequence number must exist (`FirstExists`). The clause
about ties ("of equally late ones the first") is stated for messages like the one
emitted: blank ones are emitted by nobody.

### `OpenClawClientProofs`

From positive bounds and identifiers that do not coincide (msg_ids and run ids are
uuids, none of them "proactive"):

* `TypesKept`: `Spec => []TypeOK`;
* `ActiveCallHoldsLock`: `Spec => []ActiveHoldsLock`;
* `FuturesResolvedOnce`: `Spec => ResolvedOnce`;
* `FallbacksFresh`: `Spec => []FallbackFresh`;
* `WaitersReachable`: with `MaxCallers = 1`, `Spec => []WaiterReachable`;
* `OwnAnswers`: with `Late = FALSE` and `ProEvents \subseteq {"cron"}`,
  `Spec => []OwnAnswer`.

The last two have hypotheses because without them the code does not have the property:
`MCClientOrphan.cfg` and `client_stale` are the counterexamples. `MaxCallers = 1` is what
the manager's send lock gives the client while no lock is popped (`SendsAreSerial`). The hypotheses are those of the runs
`client_single` and `client_queue`.

`ActiveHoldsLock` needs to know that lock and queue agree with the calls (`LockInv`): the
queue has each waiting call once, and the holder is the call that waits for its answer.
`ResolvedOnce` rests on that: each of the five places that resolve a future looks at the
pending one, which is the active call's, and at whether it is done. `FallbackFresh` speaks of a fallback that fires, and becomes inductive
with what is known of one that sleeps (`FreshInv`): its run has not ended before its call
began, because a call that has not got in is unknown to the gateway. `WaitInv` adds that
nobody queues when there is one caller, so the connection that was checked is the one that
is used. `OwnInv` says whose run each future, result, fallback and buffered final is.

### `WSConnectionManagerProofs`

From calls, guardians and the cleanup loop being tasks of their own and a "none" that is
none of the objects:

* `TypesKept`: `Spec => []TypeOK`;
* `LockHoldersRun`: `Spec => []HoldersRun`;
* `ShutdownStopsGuardians`: `Spec => []NoGuardianAfterShutdown`;
* with `~Cleanup /\ ~Shutdown`: `OneConnection` (`Spec => []OneLive`), `LiveIsSpared`
  (`Spec => GuardianSparesLive`), `SendsAreSerial` (`Spec => []SendSerial`) and
  `PooledIsGuarded` (`Spec => []PooledHasGuardian`).

The last four have the hypothesis of `ws_pool`, and need it: `MCWSOneLive.cfg` shows two
live connections with the cleanup loop, and `close_all` takes clients out of the pool
without their locks.

The lock operators are dealt with once: `RequestOk`, `GrantedOk`, `ReleaseOk`, `DropOk` and
`PopLocksOk` say that each takes a lock state to a lock state and changes what one task
holds and awaits (`Local`). The rest speaks of "holds" and "waits" only. `HoldersInv` makes
`HoldersRun` inductive by turning it round: from where a task is follows exactly what it
holds and whether it may wait. `GuardianInv` says that until `close_all` has cancelled it
the guardian in the dictionary is the only one that runs, and afterwards none has noticed
a loss.

`PoolInv` adds that every lock held or awaited is the one in the dictionary (`OneLock`),
which is the fact that popping destroys. With it at most one task connects. Nobody is live
while anybody connects or the guardian is between noticing a loss and its end, whoever is
live is the client in the pool, and the guardian watches that one. A reconnection therefore
finds no live client, and the client it makes is the only live one.

### `ChannelRoutingProofs`

From users that are no pairs of a provider and a user (`UsersAssumption`: one is a string
and the other a key made by the manager) and a "none" that is neither a person nor a
channel:

* `TypesKept`: `Spec => []TypeOK`;
* `OwnChannelsOnly`: `Spec => []OwnChannels`.

`OwnChannels` speaks of what has been sent. `Bookkeeping` says that whatever a cache, the
table or a call in flight knows of a person is a channel that person has written in or was
given; the manager's callback makes a key of a key, and the assumption is what keeps it
from being the key of somebody else.

### `ReplyDeliveryProofs`

From flags that are Booleans and times that are numbers:

* `TypesKept`: `Spec => []TypeOK`;
* `DifyAnswerStays`: `Spec => []DifyAnswerShown`;
* `AuthorIsTold`: `Spec => []NeverSilent`;
* `StreamNeverShrinks`: `Spec => StreamInOrder`.

Three inductive invariants on top of the types. `ShownInv`: without a placeholder nothing
is streamed; on the Dify path no edit is in flight once generation is over, so the final
text is the last. `ToldInv`: at each await of `handle_event`, what can have failed and
what has been written, which is what tells the paths that reach the end silently from
those that do not. `OrderInv`: calls of `on_stream` start in the order of the texts, pass
the updater's lock one by one in that order, and what the placeholder shows is no newer
than any edit unfinished. It is not inductive without the queue of `asyncio.Lock`: a text
that overtook the waiters at a free lock would let an older edit follow it.

### `ChannelIntakeProofs`

From kinds of adapters among the three and bounds that are numbers:

* `TypesKept`: `Spec => []TypeOK`;
* `DispatchedInOrder`: `Spec => []InOrder`;
* `PollSkipsNothing`: `Spec => []NothingSkipped`;
* `OnlyRestartsLose`: `Spec => []LostInRestartOnly`.

Each kind of adapter has its invariant: `PollInv` (what the offset is past has been
dispatched, and an answer in hand has no gap before it), `AckInv` (what is acknowledged
has been dispatched or is in hand, until a restart), `TurnInv` (what is still to come is
newer than all that was dispatched). `Posted` is an interval, which is why an answer in
order is an answer without gaps. That an order of a finite set exists at all
(`OrderExists`) is proved here too.

### How induction over data is proved

The library's induction theorems take an operator as a parameter, and none of the
installed provers can instantiate one. Where a fact about all sequences or all finite sets
is needed it is proved as a least counterexample instead: `LeastNumber` (from
`NatLessThanWellFounded` and `WFMin`) gives every non-empty set of numbers a least
element, and the set is that of the sizes at which the fact fails.

### Model-checked only

* Liveness: `WindowCloses`, `SendReturns` (of the client and of the manager),
  `ShutdownEnds`, `Reconnects`, `Handled`, `RebindTakesEffect` and
  `EveryMessageDispatched`. The installed provers do not treat fairness, nor
  `ENABLED`.
* That the model's bounds are never met: in the runs a client, a guardian and a lock
  object is always free when one is needed (the numbers of states are those without the
  bounds). The theorems hold for every size of these sets.
* Properties that fail in some instance, in the runs of section 3 that show it.

## 5. Not modelled

* The sending half of the adapters, and webhooks: I/O around a library each. Their
  contract (`send_reply` may raise, `update_reply` swallows failures, a DM may not
  exist) is what `ChannelRouting` and `ReplyDelivery` assume.
* `OpenClawClient.connect`: in the manager's model a step that succeeds or fails.
* Health, metrics, configuration, crypto, the engine, migrations: no concurrency of
  their own, or display only.
* Of `FileManager`, the names and sizes of files: which file a path denotes, and the
  window between looking up a free name and opening it (`file_manager.py:209`).
* The typing indicator in `handle_event`.
* What Dify remembers between messages (`_conversation_cache`).
* The length of timeouts, except the throttle's interval.

## 6. Plan

Done: the modules of section 2, in the order of that table, and the theorems of section 4.

1. `DifyConversation`: the conversation cache over several messages and providers
   (`dify_client.py:75`, `router.py:438`).
2. Start and stop order of the application (`main.py:141-165`): adapters close their
   HTTP clients while handlers of messages in flight still reply.
3. The workspace: names of attachments, the template and what an agent writes.
4. Proofs: that `OpenClawClient` does to its buffers what `DebounceWindows` does, step by
   step; and the configurations of section 3 that hold
   and have no theorem yet (`CacheAgrees` for one call at a time).
