# A verification development for vachat-server

TLA+ models of the parts of vachat-server (Rust: poem, tokio, sqlx with SQLite,
sled) in which several requests, tasks and restarts meet, the TLC
configurations that check them, and TLAPS proofs about them. Paths below are
relative to the repository.

`PROJECT.json` lists the components, the runs, what each definition of a module
translates (`map`), the places where this code is hard to test (`hazards`) and
the disagreements met while modelling (`findings`).

## 1. Inventory

### State and locks

One process holds everything.

| State | Where | Protected by |
|---|---|---|
| `State.cache`: users with devices and settings, groups, dynamic configuration | memory (`src/state.rs`) | a tokio `RwLock`; fair, held across awaits |
| SQLite: tables `user`, `device`, `refresh_token`, `group`, `mute`, `pinned_message`, `matrix_*` | disk (`migrations/001_initial.up.sql`) | transactions, where the handler opens one |
| sled: `MSG/`, `UMSG/`, `GMSG/`, `DM/`, `FMSG/`, `SEQUENCE/` | disk, flushed later (`crates/msgdb`) | a batch per operation |
| `Sequence`: next id and end of the lease | memory | a mutex inside `MsgDb` |
| `event_sender` | a broadcast channel of 128 events | none; a slow reader gets `Lagged` |
| `CacheDevice.sender` | the kick channel of one event stream | the lock of `State.cache` |
| `BOT_CACHE` | memory (`src/api/matrix/sync.rs`) | a second `RwLock` |
| bot timers | memory (`src/server.rs`) | a mutex |
| the server's Olm account, one-time keys, Megolm sessions | SQLite (`matrix_*`) | nothing: load, change and save are statements of their own |

Nearly every handler takes the write guard, checks, writes SQLite, changes the
cache and broadcasts. Sending takes the read guard. `GET /user/events` takes
the write guard, registers, reads and then leaves a task, `events_loop`, behind.
A poem request whose client goes away is dropped at its next await, guards
included; what it gave to `spawn_blocking` or `tokio::spawn` runs on.

### Components, what is hard in them, and what makes them correct

1. **Message database** (`crates/msgdb`). Operations: open, release on drop,
   `generate_id` (leases of 32 ids), the batches of `send_to_group` and
   `send_to_dm`, `insert_merged_msg`, `update_merged_msg`,
   `clear_group_messages`, `fetch_user_messages_after`. Hard: a crash loses a
   suffix of the writes, the lease with them. Correct when a mid names one
   message of the store for ever, and a fresh mid is larger than all others.
2. **Message delivery** (`src/api/message.rs`, `src/api/user.rs`). A send
   checks, collects recipients, stores, stores a merged copy, broadcasts; a
   stream subscribes, takes a snapshot and then relays. Hard: the order of
   concurrent sends, the seam of snapshot and subscription, requests dropped in
   the middle, the channel's capacity, resuming after a restart. Correct when a
   stream carries each message once and without a gap, only to those who may
   have it.
3. **Groups** (`src/api/group.rs`). Membership, deletion, clearing, type, pins,
   announcements. Hard: changes against sends under way; two databases that are
   changed one after the other. Correct when no one gets a group's messages
   after being removed, and tables, cache and apps agree.
4. **Devices and event sessions** (`src/api/user.rs`, `src/api/token.rs`,
   `src/state.rs`). Hard: a device has one sender and possibly several streams
   that are ending; handlers drop senders and leave it to the stream to say that
   the user is offline. Correct when the presence that others see is the real
   one, streams end, and a closed stream is told why.
5. **Tokens and login** (`src/api/token.rs`, `crates/token`). Hard: `renew`
   checks and replaces the refresh token in two statements. Correct when a
   logout ends what was logged in before it.
6. **Users and administration** (`src/api/admin_user.rs`, `src/create_user.rs`).
   Hard: apps keep a list that they update from the log. Correct when the list
   is that of the server.
7. **User settings** (`src/api/user.rs`): mutes, pinned chats, contacts, burn
   after reading, read indexes. Correct when cache, tables and what was
   broadcast agree, also after a restart.
8. **Pinned messages and merged edits** (`src/api/group.rs`, `src/server.rs`):
   a background task copies edits into pins. Correct when a pin shows the last
   edit.
9. **Bot presence** (`src/server.rs`): timers against the task that serves
   those that ran out. Correct when no bot stays online for good.
10. **Matrix sync** (`src/api/matrix/sync.rs`): long polling over the message
    database with one `max_mid` for all bots; two locks taken in two orders.
    Correct when a bridge gets each message, once, and its requests return.
11. **Matrix login and rate limiter** (`src/api/matrix/auth.rs`): a device is
    made by several statements. Correct when a device that was logged in works.
12. **Matrix one-time keys** (`src/api/matrix/keys.rs`, `e2ee/device_keys.rs`):
    a key must be claimed once.
13. **To-device messages and Olm account** (`src/api/matrix/to_device.rs`,
    `e2ee/server_olm_account.rs`): load, change, save without a lock. Correct
    when a message with a claimed key can be read.
14. **Matrix rooms**, account data, media (`src/api/matrix/rooms.rs`): room
    keys with a life of their own.
15. **State loading and periodic cleaning** (`src/state.rs`, `src/main.rs`).
16. **Dynamic configuration and system administration** (`src/state.rs`,
    `src/api/admin_system.rs`): row and instance changed one after the other,
    read, merge and write of the common settings.
17. **Webhook forwarder**, **bot and reply API**, **files, resources, archives,
    favourites**, **configuration, start-up, TLS**.

## 2. Modules

    MsgDb ---- Delivery ---- MCDelivery          Sessions ---- MCSessions
      |          |  |  \                               \-- SessionsProofs
      |          |  |   MessageStore (INSTANCE)  Settings ---- MCSettings
      |          |  |       |                          \-- SettingsProofs
    MsgDbProofs -|- DeliveryProofs               MatrixSync, BotPresence
                 |          |                          |   \-- MCMatrixSync
                 +---- StreamProofs                    \-- MatrixSyncProofs

    Groups, Users, Tokens, SystemConfig,         GroupsProofs: Groups
    MatrixKeys, MatrixLogin, MatrixRooms         ServerProofs: the other six, and all
                           \-- MCGroups              seven together (MCGroups)

Handlers that share the guard of `State.cache` for their whole length are
atomic to one another, so what they keep can be modelled in modules of its own;
a module is where steps of several actors meet.

**MsgDb** is the message database. `log` is the sequence of sled's writes,
`flushed` the prefix on the disk; a crash keeps any prefix in between. Each
write carries the value of the `SEQUENCE/` entry after it, so recovery is one
lookup. Messages are records of their mid, conversation and recipients; the
three indexes of a message are written in one batch and are one write here.
**MessageStore** is what it promises: a set of messages, the sets that a crash
may leave, and the mids that are out.

**Delivery** extends `MsgDb` with requests (`task`), the channel (`events`, of
which a stream has read `cursor`), one event stream per user (`sess`) and the
apps that read them (`client`).

| Code | Action |
|---|---|
| `send_message` up to `spawn_blocking` | `Accept` |
| `generate_msg_id`, `apply_batch`, `insert_merged_msg` | `Allocate`, `Store`, `Merge` |
| `event_sender.send`, end of the request | `Broadcast` |
| a request dropped in between; an operation of sled fails | `Abandon`; `SendFails` |
| `events` up to `event_sender.subscribe`; the rest of it | `Subscribe`; `Snapshot` or `SubscribeFails` |
| `events_loop` | `Receive`, `LagBreak`, `Disconnect` |
| `add_members`, `remove_members`, `leave`, `delete`, `clear` | `AddMember`, `RemoveMember`, `Leave`, `DeleteGroup`, `ClearGroup` |
| kill and start; orderly stop and start | `Crash`; `Stop` |

The lock needs no variable: it is read-locked while a task has its `guard` and
write-locked while a stream is `subscribing`; group handlers are one step, for
they wait for nothing that another modelled part does. `odd`, `late` and `seen`
and `cut` of `client` are history that the properties read.

**Sessions** has the devices and users twice, in SQLite (`table`) and in the
cache, the stream that holds each device (`sender`), every call of
`GET /user/events` (`streams`) and what was broadcast last of each user's
presence (`online`). The end of `events_loop` is two steps, `Break` and
`Teardown`, because it awaits the write guard in between. A handler has an
alternative `CutShort`: the request is dropped at the await of its commit, so
that the tables have changed and the cache has not.

**Settings** and **Groups** have the same three layers: `table` (what a start
reads), `cache`, and `mirror`, an app that took a snapshot, subscribed and has
an inbox of broadcasts to apply. A dropped request changes the table only, and
`cut` remembers where; `untold` are the things an open app is not told of. Users
of `Groups` may be guests, who see public groups, may be members and own groups,
and whom some handlers pass over. `ClearGroup` and `Clear` are the two halves of
one handler, `clear`: of users' settings and of what the group itself has.

| Code | Action |
|---|---|
| `mute`, `pin_chat`, `unpin_chat`, `update_burn_after_reading`, `update_read_index` | `Mute`, `Unmute`, `PinChat`, `UnpinChat`, `UpdateBurnAfterReading`, `UpdateReadIndex` |
| `update_contact_status`, blocks | `AddContact`, `RemoveContact`, `UnblockContact` |
| `clean_mute` | `CleanTable`, `CleanCache` |
| deletion of users and groups, with the cascades | `DeleteUser`, `DeleteGroup` |
| `clear` of a group, as to the settings about it | `ClearGroup` of `Settings` |
| `create`, `update`, `change_type`, `delete`, `clear` of a group | `Create`, `UpdateOwner`, `MakePrivate`, `MakePublic`, `Delete`, `Clear` |
| `add_members`, `remove_members`, `leave` | `AddMembers`, `RemoveMembers`, `Leave` |
| `pin_message`, `unpin_message`; announcements | `PinMessage`, `UnpinMessage`; `Announce`, `DeleteAnnouncement` |
| an edit; `process_msg_updated` | `Edit`; `ReadMerged`, `CopyMerged` |
| `events`; `events_loop`; the end of it | `Subscribe`; `Receive`; `Leave` of `Settings`, `EndStream` of `Groups` |
| a handler of groups dropped at its last statement or its commit | an alternative of each: of `Serve`, `Clear`, `DeleteUser` |
| `load_users_cache`, `load_groups_cache` | `Restart` |

**MatrixSync** has both locks, held over an await only by `Begin`/`Build` and
by the administrators; `hist` remembers messages that came late, got too old or
went to a bot that came or went.

| Code | Action |
|---|---|
| `sync`: `init_bot_cache`, the snapshot, a round of the poll, `max_mid`, the timeout | `Begin`, `Lock`, `Build`; `Snap`; `Fetch`; `Record`; `Timeout` |
| `create` of a bot, `create_bot_api_key` and `delete_bot_api_key`, `delete`, `update` | `CreateBot`, `ChangeKey`, `DeleteBot`, `Retype` |
| `invalidate_bot_cache` | `Invalidate` |
| a client or an administrator goes away; a message is stored | `DropSync`, `DropAdmin`; `Send` |

**The other modules**, each small:

| Module | Code | Actions |
|---|---|---|
| `BotPresence` | `process_bot_online_state`, both tasks | `Call`, `SetOnline`, `StartTimer`; `Expire`, `Check`, `SetOffline`; `Turn`, `Remove` |
| `Users` | `State::create_user`, `update_user`, `admin_user.rs` `update`, `State::delete_user`, `fetch_user_log` | `CreateUser`, `UpdateUser`, `UpdateUnlogged`, `AdminUpdate`, `RemoveUser`, `Connect`, `ReadRow` |
| `Tokens` | `do_login`, `renew`, `logout`, `delete_user` | `Login`, `CheckToken` and `Renew`, `Logout`, `DeleteAccount`, `SetStatus`; `Share` between the tabs of an app |
| `SystemConfig` | `set_dynamic_config`, `update_common_config`, `initialize_dynamic_config` | `StoreConfig`, `CacheConfig`; `ReadCommon`, `WriteCommon`; `RestartConfig` |
| `MatrixKeys` | `ensure_account`, `keys_upload`, `keys_claim`, `process_olm_to_device_message` | `Ensure`, `StoreDevice`, `StoreOtk`; `Upload`; `Select`, `Claim`; `Load`, `Save` |
| `MatrixLogin` | `login` and what it calls, `create_bot_api_key`, `delete_bot_api_key` | `StartLogin`, `UpdateDevice`, `CreateDevice`, `StorePart`, `StoreFails`; `CreateBotApiKey`, `DeleteBotApiKey` |
| `MatrixRooms` | `handle_send_encrypted_message`, `handle_room_key_event`, `clean_sessions` | `WriteLetter`, `FindKey`, `ReadLetter`, `StoreLetter`; `ShareKey`, `StoreKey`; `CleanSessions` |

A definition whose comment starts with "Mutant of" is a plausible bug of the
code and is used by no specification; it shows that a property can fail.

## 3. Runs

| Run | Instance | Shows |
|---|---|---|
| `streams` | a group, two users, two requests, two sends, one stream, channel of 2, snapshot of 1, an abandoned send, a failure, two changes of the group | `TypeOK`, `TargetsCurrent`, `PushedOnce`, `StreamHasNoGap`, `NothingAfterKick` (1.5 million states) |
| `restarts` | two sends, a clearing, leases of 1, two crashes or stops | `StoreIdsUnique`, `FreshMidIsLargest`, `MissedIsExplained`, and `StoreKeepsPromise`, the refinement of `MessageStore` (309 thousand) |
| `live` | two sends, channel of 1, a crash, fairness | `EverySendArrives`, `EveryStreamCatchesUp` (90 thousand) |
| `reconnect` | two sends, no fault of any kind | `ReconnectMissesNothing` fails |
| `sessions` | a user, two devices, three streams, a failed subscription, a request cut short | `OnlineAsTold`, `ClosedAfterKick`, `DirectoryAgrees` (1.3 million) |
| `sessions_live` | two streams, a failed subscription, a restart, fairness | `StreamsEnd`, `UnattendedGoesOffline` (22 thousand) |
| `ghost` | two streams, a failed subscription | `OnlineHasStream` fails |
| `robbed` | two streams, no fault | `ClosedOnlyByKick` fails |
| `settings` | a user with a device, another user, a group, three requests of one kind (deletions and clearings among them), and a dropped request, a fault or a restart, with a restart after it | `CacheAgrees`, `MirrorAgrees`, `ReadIndexNeverBack` (622 thousand) |
| `groups` | seven parts that share no state: groups (two users, two groups, a message, two edits, three requests), once more with a guest and two requests, users, tokens, settings of the server, one-time keys, logins, rooms | `AllTypesOK` and for each part its properties: `CacheAgrees`, `MirrorAgrees`, `PinsFresh`; `ListAgrees`; `LogoutIsFinal`, `TokenIsHeld`; `InstanceAgrees`, `CommonKept`; `ClaimedOnce`, `FirstMessageIsRead`; `DeviceWorks`; `KeyedIsRead` (1.1 million) |
| `sync` | two bridges, two messages of people or bots, batches of one, four syncs, a change of the bots, two troubles (dropped requests, lost answers, restarts); beside it two callers and their timers | `SyncHasNoGap`, `NoneTwice`, `BotsKnown`; `OnlineHasTimer` (2.0 million) |
| `deadlock` | one bridge, one administrator, no fault, fairness | `SyncsReturn` fails |

In `groups` a variable `part` says which of the seven a behaviour is of; the
others stay at their initial states. `guests` is the part of `Groups` with an
administrator and a guest whose apps both listen; in the other only one app
does. The product of the parts would show nothing more, for
they read and write nothing in common. `sync` and `BotPresence` are put side by
side in the same way.

**Bounds.** `MaxSends`, `MaxAbandons`, `MaxFaults`, `MaxRestarts`, `MaxAdmin`,
`MaxEvents`, `MaxStreams`, `MaxCuts`, `MaxRequests`, `MaxTroubles` and their
like bound how often the environment acts, never what the server does. They are
the least at which the cases meet. Two sends can overtake one another; two with
leases of 1 cross a lease and leave one to a restart, and a second restart can
lose one lease after another; a channel of 2 overflows with two sends and one
notice; a snapshot of 1 is cut by the second message. Three streams of two
devices let one be robbed while another ends on the other device. Three requests
about a setting are one to set it, one to set it again and one to take it away,
with a clean-up or a restart between any two; the second trouble of `settings`,
as of the groups and the users of `groups`, is a restart, which shows what the
first one left. Two groups are needed for a message that is pinned twice. Four
syncs of two bridges let one pass the other and come back, and a restart fall
between; two messages are enough for one to come late and, with batches of one,
for one to be left to the next sync. Four refresh tokens are two logins, two renewals and any of them lost. Three peers
and four keys let two claims select the same key while a third writes. Deadlock
is not checked by TLC: once the bounds are spent the system may stop, as a
server without requests does; the deadlock of locks is a question of liveness
here and has a run of its own. `MaxEvents` bounds the notices of group handlers,
not chats.

The type invariants of `Sessions`, `Settings` and `MatrixSync` are used while
working on those modules and are not part of a run.

**Fairness.** The steps of a blocking task and of a stream's task are weakly
fair: tokio runs its tasks, and nothing they do can wait for ever but the lock.
The teardown of a stream waits for the write guard and others ask for it again
and again, so it needs strong fairness; tokio's `RwLock` is fair and serves its
waiters in order. The same holds for both locks of `MatrixSync`, so `SyncStep`
and `Invalidate` are strongly fair. The await of a subscription is weakly fair
to end one way or the other. The heartbeat, every 15 seconds, is why a stream
notices that its client is gone. Clients, administrators and crashes owe
nothing.

### What the failing runs show

* `reconnect`: two sends hold the read guard together; the mid is drawn in
  `send_to_group`, the broadcast comes later. When the second overtakes the
  first, an app that has read the larger mid and reconnects with it as
  `after_mid` never gets the smaller. `MissedIsExplained` is the property that
  does hold: an app misses a message only when its send was abandoned or failed
  half way, a larger mid was broadcast first, a crash cut it or reissued its
  mid, or a snapshot was cut at `MAX_NEWEST_MESSAGES`.
* `ghost`: `create_user_event_receiver` registers the sender and announces the
  user; when `fetch_user_log` then fails, or the client goes away during it, no
  loop will ever take the sender back, and the user stays online.
* `robbed`: the end of `events_loop` sets `device.sender = None` without asking
  whose it is. When a device subscribes again, the teardown of the kicked
  stream closes the new one, silently.
* `deadlock`: `init_bot_cache` holds `BOT_CACHE` and waits for `State.cache`
  (`sync.rs:124-130`); `create`, `create_bot_api_key` and `delete_bot_api_key`
  hold `State.cache` and wait for `BOT_CACHE`. Neither ends, and every request
  that needs `State.cache` waits behind them. `delete` and `update` are not part
  of it: the one gives the guard back first, the other never invalidates.

The properties that hold state these exceptions by name (`late`, `failed`,
`robbed` and the like), so that nothing else hides behind them.

### Exceptions that deserve a reader's attention

A property that holds "but for" something names a place where the code keeps
less than one would expect:

* `PushedOnce`, `StreamHasNoGap`, `NothingAfterKick` exempt abandoned sends
  (`odd`). An abandoned send has lost its guard, so a subscription or a removal
  may come between its batch and its broadcast.
* `MissedIsExplained`: a crash can take back a clearing of a group, so that
  messages that were cleared are there again.
* `CacheAgrees` of `Groups`: the query of the pins in `load_groups_cache` lacks
  the binding of `gid`, so a restart hides them (`lost`). `delete_user` takes
  the private groups of an owner out of the cache only (`state.rs:1055-1067`);
  they are loaded again without an owner that exists. `clear` empties sled and
  then changes SQLite; when that fails the rows of pins stay. A request that is
  dropped at its last statement leaves the tables ahead of the cache until a
  restart (`cut`).
* `MirrorAgrees` of `Groups`: `change_type` to private names the group's id as
  owner (`group.rs:722`) and does not tell those who lose the group. To public,
  it leaves guests out of those who are told (`group.rs:730`), though they see
  public groups. Deleting a guest tells nobody (`state.rs:1094`): others in its
  groups go on showing it, or a group of the guest's that is gone. In all three cases
  the apps that were open then are exempt, as to that group and until they
  reconnect (`untold`).
* `PinsFresh`: `process_msg_updated` stops at the first group with the message
  (`shared`). Outside of the property: nothing calls `remove_merged_msg`, and
  deleting a message posts nothing to the task (`message.rs:751-752`), so a
  deleted message stays pinned; `server.rs:343-367` and the end of the test
  `received_pinned_message_updated_private_group` (`group.rs:2252-2261`) expect
  otherwise.
* `MirrorAgrees` of `Settings`: `clear` of a group takes the read indexes, burn
  settings and pinned chats about it from every user (`group.rs:439-455,
  464-468`) and sends no `UserSettingsChanged`, so devices that were open then
  go on showing them (`untold`) until the setting is changed again or they
  reconnect. For the same reason `ReadIndexNeverBack` allows an index to go back
  to nothing when its group is cleared, at once, or after the request was
  dropped at its commit with the restart that follows (`wiped`).
* Mutes: `get_user_settings_msg` leaves out those that expired (`user.rs:1845`,
  `1858`), so the comparisons are of mutes as far as they last. Outside of the
  properties: `is_user_muted` and `is_group_muted` (`state.rs:213-230`) compare
  the expiry the wrong way round; both are used for push notifications
  (`message.rs:855, 937`), which are not modelled.
* `SyncHasNoGap`, `NoneTwice`: one `max_mid` for all bots passes over a message
  that is stored late, and `init_bot_cache` sets it back to the newest *direct*
  message, so a message of a group may come twice; the comment at `sync.rs:111`
  says otherwise.
* `BotsKnown`: `update` can change `is_bot` and does not invalidate `BOT_CACHE`
  (`unsaid`).
* `OnlineHasTimer`: a timer that was started while the checking task served its
  snapshot is dropped with the old one, so a bot that syncs may be shown
  offline; a user that is no bot at that moment keeps `bot_online` for good
  (`stuck`).
* `LogoutIsFinal`, `TokenIsHeld`: two renewals of one token can both succeed and
  then only the last is stored; a renewal that checked before a logout and wrote
  after the login that followed (`crossed`) takes the place of the latter's
  token; an answer can be lost. `renew` does not ask whether the user is frozen.
* `InstanceAgrees`, `CommonKept`: sets that overlap (`unsettled`, `overlaid`).
* `ClaimedOnce`: two claims that selected the same key, a key that could not be
  marked, one that was uploaded again (`blurredKeys`). A message that overtakes
  another's save brings a key back into the account; it is never claimed again,
  but a message that is sent again with it may be read twice.
* `DeviceWorks`: a device whose making was cut in the middle has a key without
  an account, and no later login completes it; a dropped `INSERT` leaves a row
  whose name blocks the device until a restart; keys that an administrator
  makes never have an account.
* `KeyedIsRead`: a room key that cannot be read is answered 200; when the bridge
  sends it again, its one-time key is gone. A key that is shared again replaces
  the older, and a message from before it that is still on its way is refused
  with 400; the property forbids only that one is dropped with a 200.
  `clean_sessions` compares times as text and may delete a row up to a day
  early.

## 4. Refinement and proofs

`StoreKeepsPromise` says that `Delivery` implements `MessageStore`. The mapping:
`messages` is what the log holds (`Contents(log)`), `survivors` what each prefix
of the log from `flushed` on holds, `drawn` the mids of requests that have drawn
one and not stored it. `Allocate` is a `Draw` and `Store` a `Put`; a failure or
a crash gives the mid up, `ClearGroup` is a `Clear`, a flush and an orderly stop
are `ReachDisk`, and a crash is the choice of a survivor. Leases, merged copies
and everything about streams are stutters. The run checks it, the proof holds
for every instance.

Eight modules hold proofs. They assume only the named assumptions of the
modules: leases, batches, the channel and the snapshot hold at least one entry,
users and groups are different, the posts are of those users and groups, there
is a user and a device, no guest is an administrator, there may be a group, a
fetch finds at least one message, the messages of groups are finitely many and
each is of one group, the bounds of counters are numbers. They hold for any sets
of users, devices, groups, apps, tabs, bridges and requests otherwise, and for
any bounds.

| Module | Theorem | Says |
|---|---|---|
| `DeliveryProofs` | `Invariance` | `Spec => []Inv` |
| | `TypeCorrect`, `MidsUnique`, `RecipientsCurrent` | `Spec => []TypeOK`, `[]StoreIdsUnique`, `[]TargetsCurrent` |
| | `FreshIsLargest` | `Spec => FreshMidIsLargest` |
| | `DeliveryKeepsPromise` | `Spec => StoreKeepsPromise` |
| `StreamProofs` | `StreamInvariance` | `Spec => []StreamsInv` |
| | `CarriedOnce`, `StreamIsWhole` | `Spec => []PushedOnce`, `[]StreamHasNoGap` |
| | `MissesExplained`, `KickIsLast` | `Spec => []MissedIsExplained`, `[]NothingAfterKick` |
| | `ResumeInTurn` | `Spec /\ []TurnByTurn /\ [][~Crash]_vars => []ResumeIsComplete` |
| | `CarriesOwnWrites` | `Spec => []PushedWasWritten` |
| `SessionsProofs` | `ClosedKicked`, `OnlineHeld`, `DirectoryHeld` | `Spec => []ClosedAfterKick`, `[]OnlineAsTold`, `[]DirectoryAgrees` |
| | `GhostsExplained` | `Spec => []GhostIsFailed` |
| | `NoGhost` | `Spec /\ [][NoSubscriptionFails]_vars => []OnlineHasStream` |
| | `NoRobbery` | `Spec /\ [][OneStreamAtATime]_vars => []ClosedOnlyByKick` |
| `SettingsProofs` | `SettingsSurviveRestart`, `DevicesFollow` | `Spec => []CacheAgrees`, `[]MirrorAgrees` |
| | `ReadIndexForward` | `Spec => ReadIndexNeverBack` |
| `GroupsProofs` | `GroupsInvariance` | `Spec => []GroupsInv` |
| | `GroupsCacheAgrees`, `GroupsMirrorAgrees`, `GroupsPinsFresh` | `Spec => []CacheAgrees`, `[]MirrorAgrees`, `[]PinsFresh` |
| `MatrixSyncProofs` | `NoGap`, `NotTwice`, `CacheKnows` | `Spec => []SyncHasNoGap`, `[]NoneTwice`, `[]BotsKnown` |
| | `DeadlockIsFinal` | `Spec => [][Deadlocked => Rescue \/ StandStill]_vars` |
| | `OnlineTimed` | `PresenceSpec => []OnlineHasTimer` |
| `ServerProofs` | `TokensInvariance`, `LogoutFinal`, `TokenHeld` | `TokensSpec => []TokensInv`, `[]LogoutIsFinal`, `[]TokenIsHeld` |
| | `InstanceHeld`, `CommonHeld` | `ConfigSpec => []InstanceAgrees`, `[]CommonKept` |
| | `KeyHandedOnce`, `FirstMessageRead` | `KeysSpec => []ClaimedOnce`, `[]FirstMessageIsRead` |
| | `DeviceReady` | `LoginSpec => []DeviceWorks` |
| | `KeyedRead` | `RoomsSpec => []KeyedIsRead` |
| | `UsersInvariance`, `UsersListAgrees` | `UsersSpec => []UsersInv`, `[]ListAgrees` |
| | `UsersFollowHistory`, `UsersMoveForward` | `UsersSpec => []AppsFollowHistory`, `AppsMoveForward` |
| | `PartsTyped` | `MCSpec => []AllTypesOK` |

**Delivery.** `Inv` is `TypeOK /\ MidInv /\ TargetsCurrent`. Uniqueness of mids
is not inductive: a crash moves the store back, and the ids that follow come
from the `SEQUENCE/` entry of the prefix that survived. `IdInv` (in
`MsgDbProofs`) therefore says of the log that each message is below the entry of
every later write (`LogOK`), so it is true of each prefix, that the entry is the
lease's end, and that every message is below `next`. `MidInv` adds the requests:
a mid that was drawn is below `next`, is not in the store while it is only
drawn, and no two requests have drawn the same; and every mid that was broadcast
is below `next`. `FreshMidIsLargest` follows since the fresh mid is `next`: a
spent lease is read back as the same number. `TargetsCurrent` is inductive with
the types: the group handlers ask for a free lock, and a task with its guard is
one that holds it. The refinement rests on `Inv` and on lemmas about `Contents`:
what an appended write does to the contents of a log, and that the prefixes of a
prefix are prefixes.

**Tokens.** `LogoutIsFinal` is not inductive, since a renewal under way will
write. `LoginsKnown` says that each token goes back to a login made before it,
`RenewalsCurrent` that the login of a renewal under way is not ended, unless
nothing is stored that it could replace or it is known to cross a later login.

**One-time keys.** `ClaimedOnce` needs that a key that was handed out is not
unused in the table, that no two claims stand between their statements with one
key, and that the server's keys that are still to be stored are in nobody's
hands. `FirstMessageIsRead` needs that a key whose message is still to come is
in the account and in every loaded copy that is about to overwrite it: that is
why the missing lock over load and save loses a *removal* of a key and never a
key.

**Settings of the server.** `CommonKept` needs the same of what a request has
read and will write back (`ReadersCurrent`). **Bot presence**: the property is
inductive with its types.

**Streams.** `StreamsInv` is `Inv` with three parts. `SendsInv`: the mids of
requests under way and of the channel differ (`SendsApart`, `ChatsApart`), one
that is broadcast behind a larger one is `late`, and what a request stored has
the recipients that it will be broadcast to. `KicksInv`: who reads a group after
a kick from it came back after it. `UserInv`, for each user, has the stream
(`StreamInv`: what is ahead of the cursor is newer than the snapshot, what was
pushed was in the channel and in its order, and each message of the store that
the user may read is behind `after_mid`, cut off, on the stream, on its way or
ahead in the channel) and the app (`ClientInv`: what it has read up to its last
mid, that a mid which is drawn is larger than that or was overtaken, and that an
id which a crash makes fresh again is `late`). `PushedOnce`, `StreamHasNoGap`
and `MissedIsExplained` are what is left of this when nothing is on its way.

**Sessions.** `HoldersStand` and `SubscribersHold` say which stream may hold a
device; `KickOnItsWay` that a stream which lost its device has a `Kick`, had one
or was robbed, which is `ClosedAfterKick` before the stream has ended;
`OnlineTold` and `OfflineToBeTold` that who is shown online and is not has a
stream whose end will say so.

**Settings.** `CleaningBehind` keeps `clean_mute` behind the clock between its
two steps, `AllAgreed` allows a mute that expired to be gone from one side, and
`ReadStored` keeps the table in front of the cache, but where a clearing has
`wiped` it. `MirrorFollows` is
`MirrorAgrees` before the inbox is empty: the last change in it about a setting
makes the value that the server holds, or none is and the app has it, or it is
`untold`: what is announced again is told again.

**Groups.** `GroupsInv` has the same layers for rows with many fields.
`StoresStand` is what foreign keys and the announcements keep of a row,
`RowsAgree` is `CacheAgrees` field by field, and `PinsStand` says that a pin
which is behind the merged message has its copy in the queue or in the hands of
`process_msg_updated`, whose own copy, if it is old, is followed by another. The
apps need an invariant over sequences of posts that do not commute: `AppsFollow`
says that there is a path of rows, from what the app shows or from a `joined`
post that it will read, along the posts of its inbox to the row of the cache
(`Leads`), or that the last it will read of a group it is not in is that it is
out (`Forgets`). Of the groups that a user is not told all about (`untold`) it
says nothing. A handler is proved by what its posts make of any row that is
like the one before (`Tells`), once for all readers; `HandleKeeps` does the
rest.

**Matrix sync.** A mid is `Reached` when a message is stored at or after it:
what is stored behind it later is `late`. `RequestInv` says that a request has
found all between where it started and what it holds, `ReadInv` the same of what
a bridge got up to its token, and `CacheInv` that `max_mid` is reached and
`BOT_CACHE` names the bots. Steps that only add messages or change bots keep
them by two facts, `WorldMoves` and `MaxMoves`.

**Matrix logins.** `DeviceInv` says of a device how far whoever makes its
account has come, and `BridgeInv` which of the keys a bridge holds or is about
to be told is the valid one. **Rooms.** `KeysLive` says that a key which a
bridge thinks it has shared is in the cache for as long as the bridge may use
it, `LetterInv` what each step of a request that reads a message has in hand.

**Users.** `ListAgrees` speaks of apps that have read all, and says nothing of
those on their way. `UsersInv` says more: for every user who is not `blurred`
there is one history (`OneHistory`), a function from the positions of `user_log`
to what is shown there, which starts with nothing and takes each row for what it
makes of the user; the cache is at its end, and every app, also one that is
away, is in it at the place of its version. That is `UsersFollowHistory`: an app
is late, never wrong. As a function it needs no recursion over the log: a new
row lengthens it (`HistoryOneMore`), an app that reads a row goes on in it
(`HistoryNext`, `HistoryGoesOn`), and where no row is about the user it does not
change (`HistoryStill`), from which `ListAgrees` follows. `InboxOf` says which
rows an app is sent: all after its version in their order, but for those of a
dropped request; so no app goes back (`UsersMoveForward`). Table and cache agree
on the same users, so a restart changes nothing that is shown.

**All parts.** A step of one part of `MCGroups` is a stutter of the others, so
each part behaves as its own specification (`PartsAreTheirSpecs`), and every
invariant above holds in the run as well; `PartsTyped` states this for
`AllTypesOK`.

**Where the refuted claims hold.** Four runs refute a claim. The proofs draw the
line between the steps that break it and those that cannot:

* `reconnect`: `TurnByTurn` says that one send at a time is between
  `generate_msg_id` and its broadcast, as if a lock were held in between. Then
  mids are broadcast in their order (`InOrder`), nothing is ever `late`, and an
  app that resumes misses only what the snapshot cut off or a failed send left
  half done (`ResumeInTurn`). A crash is excluded, too: it makes mids fresh
  again that an app may have read past. So two sends that cross are the only
  cause besides a crash.
* `ghost`: a user who is shown online without a stream has a subscription that
  failed (`GhostsExplained`); without such failures there is no ghost
  (`NoGhost`), whatever kicks, ends, deletions and restarts cross.
* `robbed`: a device that subscribes only when its older streams have ended is
  never closed silently (`NoRobbery`).
* `deadlock`: `SyncsReturn` is a liveness property, and what refutes it is a
  state that nothing leaves. `DeadlockIsFinal` proves that of any number of
  bridges and administrators: with both guards held no guard is released, no
  administrator is answered and no sync in need of a lock goes on; only a client
  that goes away, or the end of the process, changes that.

Each hypothesis leaves out one fault (`~Crash`, a subscription that fails) or
one overlap (two sends, two streams of a device) and no other step.

`CarriesOwnWrites` is the other direction of `StreamIsWhole`: a stream carries
no message but those that were written to the database for its user, also while
sends are between their steps.

**Only model-checked.** The liveness properties (`EverySendArrives`,
`EveryStreamCatchesUp`, `StreamsEnd`, `UnattendedGoesOffline`), which rest on
fairness and ENABLED, out of the prover's reach; and the four refutations, which
are counterexamples. Every invariant and every action property of the passing
runs is a theorem. No module declares a RECURSIVE operator or a recursive
function.

## 5. Abstractions

* Content, properties, mentions, push notifications and file messages are left
  out. A reply behaves as a normal message; likes and deletions have no merged
  copy. An edit is in `Groups`, with its merged copy and the pins.
* Requests that the checks of a handler refuse change nothing and are no steps.
  This covers blocked contacts.
* An app reads a prefix of what its stream carries and resumes with the last
  mid it read. When the process stops it has read all that was pushed; an app
  that had not is one that disconnected first.
* In `Delivery` public groups have their members fixed, the users that exist;
  creation and deletion of users are in `Users` and `Groups`. A group is deleted
  there when it has no members; the owner of a private group cannot be removed,
  so a group that exists has one.
* `Sessions` has no bots and no guests (whose presence is not broadcast), and
  the users exist at the start. `Groups` has guests. Freezing does not end what
  a device may do with the token it has, and a device whose user is frozen may
  subscribe, as the code has it.
* A handler's await on SQLite is a point where a request can be dropped, not
  one where others run, as long as it holds the write guard. Where it holds no
  guard (`Tokens`, `SystemConfig`, `MatrixKeys`, `MatrixLogin`, `MatrixRooms`)
  each statement is a step.
* Time is a counter: an expiry of `Settings` is 1 or 2, and a tick of
  `MatrixRooms` is a good part of the 90 days. In `SystemConfig` a setting that
  is disabled is one of `Values`.
* What Olm and Megolm decrypt is external: a key opens what was encrypted with
  it. Tokens are numbers; that nobody forges one is not a question here.

### Not modelled

`components` in `PROJECT.json` has each part with the reason. In short: the
webhook forwarder (it reads the channel, ends at its first `Lagged`, and what it
calls is outside); the bot and reply API (they check and call `send_message`);
files, resources, archives and favourites (each under a fresh name); start-up
and TLS (read once). Within the modelled parts: remarks, avatars and other
fields that are set like those modelled; the ways to prove who one is at login;
`create_admin`, which checks and then creates (`admin_system.rs:218`); the
login's rate limiter; queries that read; `upload_avatar` and the check of a
webhook, which hold the write guard of `State.cache` while they wait for a
client or a server outside, so that everyone waits with them.

## 6. Plan

Done: all modules above with their runs; the proofs of section 4. What a
continuation would take up:

1. A directory that apps follow (a map, its changes, and readers that take a
   snapshot and then the changes), as an abstract specification that `Settings`
   and `Users` implement; for `Users` the refinement is in substance
   `UsersFollowHistory` and `UsersMoveForward`.
2. A mailbox that appends messages and lets readers resume, implemented by
   `Delivery` under `TurnByTurn`.
3. The login's rate limiter against a count of the last minute, and the webhook
   forwarder as a second kind of reader of the channel.

The runs stay at one per question, at most twelve.
