# Algedi in TLA+

Algedi keeps a local folder and a folder of Google Drive or OneDrive the same.
This directory holds TLA+ modules of its synchronization, configurations that
model-check them with TLC, and theorems about them that the TLA+ proof system
checks for every value of the constants. Paths below are relative to
`src/crates/` unless they say otherwise.

## Inventory

| part | state | operations |
|---|---|---|
| `algedi-core/sync_engine.rs` | none between calls (one engine per cycle or event) | `run_cycle`, `local_action`, `classify`, `apply` and its five branches |
| `algedi-core/state_db.rs` | SQLite: pairs with paused flag and change cursor, a row per file (remote id, local hash, remote hash, status), conflicts | one statement per method, behind a mutex |
| `algedi-core/watcher.rs` | paths reported by inotify with the time of the last report | record, hand out what has been still for 500 ms |
| `algedi-core/conflict.rs`, `hash.rs` | none | name of a conflict copy, digest of a file |
| `algedid/scheduler.rs` | a watcher per due pair, the next poll time | one loop: watchers, local events, poll |
| `algedid/account_manager.rs` | accounts with tokens and pairs (memory), requested syncs | add/remove account and pair, pause, SyncNow, token refresh, path resolution |
| `algedid/dbus_service.rs`, `main.rs` | none | one account manager call per D-Bus method, under one async lock |
| `algedid/secrets.rs`, `provider_config.rs` | none of their own | Secret Service, configuration file |
| `algedi-provider-trait` | none | the provider interface; `resolve_relative_path` walks the parents of an item |
| `algedi-provider-gdrive`, `-onedrive` | access token | list, upload, update, create folder, download; OAuth |
| `src/nautilus-extension` | status cache with a lifetime | emblems and menu, over D-Bus |

How they interact. The scheduler's loop is one task. Every 100 ms it asks the
account manager for the pairs that are due (not paused, provider live), makes
and drops watchers accordingly, and drains each watcher: for each event it
builds a `SyncEngine`, asks `local_action` and applies the answer. When the
poll timer has elapsed, or SyncNow was called, it refreshes tokens, clones the
due pairs once, and for each pair runs `run_cycle` (list changes since the
cursor, find the path of each, decide, save the cursor) and then applies the
decided actions one by one. An action that fails is logged and forgotten. Each
watcher has a thread of its own, which notes what inotify reports and passes on
what has been silent for long enough.

What is hard here. The task is alone, but between any two of its awaits and
file operations the user edits the folder and other clients edit the drive:
verdicts are about files that may have changed when they are applied. The
cursor is saved before the actions are applied. All the changes of a listing
are judged before any is applied. A large file is read piece by piece while its
owner may be saving it. Calls fail, or succeed and lose their answer. Watchers
come and go with the paused flag, and a pair can be removed under its running
cycle. Tokens expire by a clock the daemon only estimates, and are looked at
only when a poll begins. What each component must guarantee: the engine, that
no edit of either side disappears (silently), that nothing is sent back that
came from the other side, and that both sides agree in the end; the database,
that a row is what was last agreed; the scheduler, that every event and every
listed change is acted on; the account manager, that pairs that come and go
leave nothing behind and that requests carry a token that is accepted; the
watcher, that no path is forgotten and folders come before their files; the
adapters, that a listing misses no change and an upload stores one version.
`PROJECT.json` lists the components under `components` and what is hard to
test, line by line, under `hazards`.

## Modules

`SyncTypes` (vocabulary) is extended by three modules of state, which
`SyncEngine` joins with the actions; `SaveAndSend` does the same with `Watcher`
and `UploadSession`:

| module | models | state |
|---|---|---|
| `Cloud` | the drive through the two adapters: items, the change feed, what each call does | `cloud`, `clock` |
| `StateDb` | the row, cursor, files and conflicts of one pair | `present`, `row`, `cursor`, `conflicts` |
| `LocalFolder` | the folder on disk, conflict copies, the watcher's pending paths | `local`, `copies`, `events`, `watching`, `now` |
| `SyncEngine` | the engine and the scheduler's loop for one pair, the user, other clients, pausing and removal | `phase`, `batch`, `todo`, `got`, `newCursor`, `paused`, `faults`, `ledger` |
| `Mirror` | the abstract specification: what becomes of the files here, without cursors, rows, events or calls | `here`, `kept`, `known`, `window`, `plan` |
| `SyncProperties` | what is promised, the refinement of `Mirror`, the fairness, and what the repository says but the code does not keep | |
| `SyncInvariant` | the inductive invariants: `TypeInv`, `SurvivalInv`, `AccountInv`, `EchoInv`, `QuietInv`, each a conjunct of the next | |
| `MCSyncEngine` | instances for TLC: one file, or a folder and a file in it | |
| `SyncSurvivalProofs` | theorems about `SyncEngine`: types, survival of local edits | |
| `MirrorProofs` | the engine implements `Mirror` | |
| `SyncAccountProofs` | every edit of either side is accounted for | |
| `SyncEchoProofs` | nothing is sent twice, copies are of unsent edits | |
| `SyncQuietProofs` | when it is quiet both sides agree | |
| `AccountManager` | accounts and pairs that come and go, pausing, SyncNow, the one lock, the D-Bus calls and the scheduler's loop around it | `handles`, `pairs`, `stored`, `pendingSyncs`, `holders`, `queue`, `calls`, `pc`, `requested`, `due`, `running`, `issued`, `ledger` |
| `AccountProofs` | theorems about `AccountManager` | |
| `Watcher` | the thread of a `FolderWatcher`: debounce and order | `raw`, `pending`, `rx` |
| `UploadSession` | `upload_item` and `update_item` of OneDrive, chunk by chunk | `stage`, `size`, `offset`, `body` |
| `SaveAndSend` | a user who saves a file piece by piece, the watcher, the scheduler's drain, the upload | `folder`, `file`, `writing`, `inView`, `rowOfFolder`, `rowOfFile`, `remote`, and history |
| `MCSaveAndSend`, `SaveProofs` | its instance and theorems | |
| `TokenRefresh` | an account's tokens from sign-in over refreshes to revocation, against the poll timer and the lock | `handles`, `access`, `left`, `held`, `keyring`, `accepted`, `pc`, `nextPoll`, `toRefresh`, `answer`, `signup`, and the histories `unseen`, `late`, `lapse`, `stranded` |
| `TokenProofs` | theorems about `TokenRefresh` | |

The four systems look at one program from four sides. They meet in the
scheduler: `AccountManager` has many pairs and no files, `BeginCycle` and
`EndCycle` standing for a whole cycle of a pair; `SyncEngine` has one pair's
cycles and files, and of the account manager the paused flag and whether the
pair is there; `SaveAndSend` opens up what `SyncEngine` has as one step, a
save, an event and a transfer; `TokenRefresh` opens up the time that passes in
the loop, in its calls and in a sign-in, and what requests are allowed by then.

### From code to actions

`phase` is where the scheduler's task is. A step is the code from one await or
file operation to the next, because nothing else can see what lies between:

| code | actions of `SyncEngine` |
|---|---|
| `run_forever`, watcher map | `RefreshWatchers` |
| `run_forever`, local events, with `local_action` | `IgnoreEvent`, `LoseEvent`, `TakeEvent` |
| `run_forever`, the snapshot of due pairs (`due_syncs`) | `BeginPoll`, guarded by `Due` |
| `run_cycle` | `List`, `ClassifyChange` per change, `CommitCursor`; `CycleFails` for `?` |
| `apply_download` | `MakeFolder` (folders), or `Fetch`, `Install`, `Record` |
| `apply_upload` | `CreateFolder` (folders), or `Send`, `Record` |
| `apply_update` | `Send`, `Record` |
| `apply_conflict` | `MoveAside` (if something is there), then as a download |
| `apply_delete_local` | `DeleteLocal` |
| an error out of `apply` | `ActionFails`, or the failing branch of the action whose effect took place |
| `AccountManager::set_paused` | `SetPaused` |
| `AccountManager::remove_folder_pair`, with the cascade | `RemovePair` |

Some guards are worth a word. `Verdict` is `classify` case by case; a `NoOp` is
not put into `todo` because `apply` returns at once. `Install` is the
`rename` at the end of both adapters' download. `Record` hashes what the path
holds by then, as `hash_file` does after the await. `Targets` says where a file
sent ends up: `update` replaces the item; `upload` makes one, except that
OneDrive's simple PUT replaces an item of the same name and its upload
session and `children` calls ask for a rename on a clash. `RelativePathsForRemoteId`
is a set because the query has no order and two rows may have one id after a
remote rename. `CycleFails` with an unresolvable change is the `?` in the
loop of `run_cycle`. Once the pair's row is gone (`present` is false) the
statements that record fail on the foreign key, those that update or delete
change nothing, and what was decided before goes on being applied: `DbFails`
and the disjuncts with `~present` say which is which.

`ledger` is history, read by no step of the system: what became of each content. Every
save, here or elsewhere, uses a content never used before, so a content is an
edit and its marks are its story: `sent`, `fetched`, `lost` (destroyed here,
never in the cloud), `overwritten` (destroyed there, never here), and the
reasons the code has for forgetting one: `racy`, `blind`, `dropped`, `missed`,
`skipped`.

`AtStake` is the window: a download or deletion of the path is decided and not
finished, or the action under way is past the point where it looked at the
file and will record in the row what the path holds by then. An edit saved
there is `racy`. An upload that is only decided puts nothing at stake.

In `AccountManager` a step is the code from one await to the next:

| code | actions of `AccountManager` |
|---|---|
| a D-Bus method is called | `Ask`: the call joins `queue` |
| `set_paused`, `trigger_sync`, `remove_folder_pair` (no await inside) | `SetPaused`, `TriggerSync`, `RemoveFolderPair`, each a visit to the lock |
| `add_account`, `add_folder_pair`, `remove_account` (network, browser, secret store) | `Await` takes the lock and keeps it; `AddAccount`, `AddFolderPair`, `RemoveAccount` or `GiveUp` end the call; `Refuse` ends it at once |
| `run_forever` | `Tick`, `TakeSyncRequests`, `RefreshExpiringTokens` with `TakeSnapshot` under one guard, then `BeginCycle` and `EndCycle` without it |
| `AccountManager::new` after a restart | `Restart` |

In `SaveAndSend` a step is one system call on the file, one turn of the
watcher's thread, or one request of the upload:

| code | actions of `SaveAndSend` |
|---|---|
| `open` with truncation, `write`, `mkdir`, and what inotify reports of them | `BeginSave`, `WriteOn`, `MakeDir`, `TouchDir` |
| `RecursiveMode::Recursive`: notify comes to watch the new folder | `WatchDir`; before it, `BeginSave` and `WriteOn` raise no event |
| the loop in `FolderWatcher::watch`, `PendingChanges` | `Receive`, `TimeOut` (a turn with and without an event); `Tick` ages what is pending |
| `try_recv` in `run_forever`, with `local_action` | `TakeFolder`, `IgnoreFile`, `LoseFile`, `TakeFile` |
| `upload_item`, `update_item` of OneDrive: the size, the simple PUT, the chunk loop | `Metadata`, `SimplePut`, `PutChunk` |
| `hash_file` and `record_synced` after the answer | `Record` |
| an error out of the upload | `Fail` |

`TokenRefresh` counts in ticks, any number of which may pass before any other
step. `access` is what is left of the token at the provider, `left` what
`expires_at` says, `None` if the provider did not say when the token expires:

| code | actions of `TokenRefresh` |
|---|---|
| `run_forever` | `BeginDrain`, `EndDrain`, `CheckTimer`, `BeginRefresh`, `EndRefresh`, `EndCycle` |
| `accounts_due_for_refresh`, `TOKEN_REFRESH_MARGIN`, with its `expires_at.is_some_and` | `AccountsDueForRefresh` |
| `refresh` of both OAuth flows, with their `or_else` | `Exchange`, `Refused` |
| `store_tokens`, `set_access_token`, the handle's fields | `Store`, `StoreFails`; `SetExpiry` for `expires_at`, here and in `SignedIn` |
| `authorize`, `capture_redirect`, `add_account` | `OpenBrowser`, `Granted`, `NotGranted`, `SignedIn`, `GrantDropped` |
| `remove_account`: `load_tokens`, `revoke`, `delete_tokens` | `RemoveAccount` |

### The refinement

`Mirror` says what a pair promises about the files at this computer: a file is
replaced or deleted only where a decision stands, a decision may be taken only
about a file whose content the cloud has had or that was saved where a decision
stood before, and whatever else is in the way is moved aside and kept. It knows nothing of cursors,
rows, events, calls or failures. `SyncProperties` instantiates it as `M`:

| `Mirror` | in `SyncEngine` |
|---|---|
| `here` | `local` |
| `kept` | the contents of `copies` |
| `known` | `InCloudOnce`: stored in the cloud by the daemon or another client |
| `window` | the contents tagged `racy` |
| `plan` | the paths `AtStake` |

`ImplementsMirror` is `M!Spec`. `Install` is a `Replace`, `DeleteLocal` a
`Delete`, `MoveAside` a `SetAside`, `Send` a `Send`, and `ClassifyChange` a
`Decide` whose guard, `Vouched`, the row's hash has to justify. That is the hard
part, and what the mapping of the rest rests on: the row is written from what a
path holds after an await.

### Abstractions

Of `SyncEngine`:

- Contents are their own digests. Local SHA-256 and remote checksums are never
  compared with each other by the code, each only with an earlier one of its kind.
- A listing is one step; pages arrive before anything is decided. An upload or
  download of a file reads it in one step (`SaveAndSend` has the pieces).
- The parent walk of `resolve_relative_path` is one step: a live folder sits
  in live folders, since a folder is emptied before it is deleted.
- On the remote side only files move. `trashed` is no removal here, as it is
  none in the fields the Drive adapter asks for.
- On Drive other clients stand for installations of the same program, which
  the `drive.file` scope can see, and for what the user does with those files
  in the browser.
- Every live file has a digest. In the adapters `content_hash` is an `Option`,
  and a file listed without one compares equal to a path without a row: the
  verdict is `NoOp` and it is never downloaded. That is a hazard no model has.
- Every change below a watched folder raises its event. A file written in a new
  folder before notify watches that folder raises none; `SaveAndSend` has that.
- Conflict copies stay where they are made; their own upload, as new files, is
  not followed. Their number is bounded by that of the contents.
- SQLite fails only where the code has done something before it that matters
  (`MoveAside`, and generally an action that fails in any phase), and where the
  pair's row is gone. Unreadable files fail in `LoseEvent`, not in `classify`,
  whose `.ok()` treats them as absent.
- A removed pair does not come back: adding the folder again draws a new id.
- `SyncEngine` does not restart: `AccountManager::new` loads no accounts, so after
  a restart no pair is due, and an added one gets a new id and no rows
  (`Restart` in `AccountManager`).

Of `AccountManager`: tokio's lock is granted in the order it was asked for. Ids
are UUIDs: `issued` keeps them from being drawn twice. The token refresh is the
time it keeps the lock; what it does to the tokens is in `TokenRefresh`.

Of `SaveAndSend`:

- One folder and one file in it, in OneDrive. The file is saved in place,
  truncated and filled; a save that renames a finished file over the old one
  is what `SyncEngine` has as one step.
- Ages stand for the `Instant`s of `PendingChanges`; beyond the debounce they
  all mean the same, so time needs no bound. The thread may be late: events
  queue in `raw` while time passes.
- The simple PUT reads the file in one step, as `tokio::fs::read` of a small
  file does up to scheduling; a session reads each chunk when it is sent. The
  server answers 202 until it has the last byte of the size announced.
- An answer that is lost after the file was stored is in `SyncEngine` (`Send`).

Of `TokenRefresh`:

- Nothing is assumed about how long anything takes. The HTTP clients set no
  timeout, a drain or a cycle goes through any number of events and actions,
  `poll_interval` has a minimum and no maximum, a sign-in may keep the lock for
  300 s in the browser alone: `Tick` is possible in every state, before any
  other step. `TokenAssumption` only says that the constants are numbers and
  that `None` is none of the values.
- So a token can run out while the loop uses it, although the comment at
  `account_manager.rs:14-16` says that a cycle never starts a request with such
  a token. That holds while the account is `Watched`: the provider said when
  the token expires, and the ticks since the last poll looked at the tokens
  (`unseen`), with those by which `expires_at` is late (`late`), are within the
  margin, and fewer than a whole life. A provider that does not say so gives an
  account that is never refreshed (`account_manager.rs:44-46`); any answer, of a
  sign-in or of a refresh, may be such an answer.
- `late` is what `expires_at` lags behind the token's end: `Instant::now()` is
  taken after the exchange and after the keyring, and an `Instant` stands still
  while the machine is suspended, which a `Suspend` may do at any point,
  during a call as well.
- The old access token goes on being accepted after a refresh until its own
  end. The provider refuses an expired one for revocation. A failing keyring
  changes nothing.
- Removal is one step, though it keeps the lock across three awaits; nothing
  else can read the account meanwhile, and the wait it imposes on the loop is that
  of a short sign-in.
- There is no restart: it leaves no accounts in memory (`AccountManager`).

## Runs

`accounts` checks `AccountManager`, `save_and_send` `MCSaveAndSend`, `tokens`
`TokenRefresh`, all others are instances of `MCSyncEngine`. Every passing run is
exhaustive within its bounds. Deadlock is checked but in two runs: in
`gdrive_file` the loop has nothing more to do for a pair that was removed, and
`save_and_send` comes to rest when the versions are used up and time no longer
changes an age.

| run | shows |
|---|---|
| `gdrive_file` | one path on Drive, up to three items of one name, renames, items no local name fits, a failing call, and the pair removed at any moment: `EditsOutsideWindowSurvive`, `EveryLocalEditAccounted`, `EveryRemoteEditAccounted`, their inductive invariant `AccountInv`, and that the engine implements `Mirror` |
| `onedrive_tree` | a folder and a file in it, created, removed and replaced on both sides, two failing calls anywhere, lost answers included: `SurvivalInv` and both accounting properties |
| `quiet_onedrive` | nothing deleted, pausing and spurious events: when all is quiet a known file is what its item is; an edit is forgotten only while nothing watches; copies are made only of unsent edits; nothing comes back as an upload (`NoEcho`); the invariants behind them, `EchoInv` and `QuietInv` |
| `settles_gdrive` | under fairness and with one failing call the daemon comes to rest with everything listed, drained and acted on |
| `accounts` | two D-Bus calls at a time against the loop, a failing statement, a restart: `MemoryIsStored`, `StoredIsKnown`, `PairsHaveAccounts`, `RequestsAreLive`, `RequestServed` |
| `save_and_send` | a folder made, to which notify may come late, and a file saved in it twice, with a failing step: `RangesPartitionFile`, `FileFollowsFolder`, `CloudFileWhole`, `ForgottenOnlyInRaces` and its invariant `ForgetInv`, `SavesArrive` |
| `tokens` | two accounts that sign in, are refreshed and removed, some with tokens whose expiry nobody told, while time passes anywhere, with one failing call and one tick of sleep: `RequestsAuthorized`, `RefreshTokensAgree`, `RemovedIsRevoked`, `ExpiredIsReplaced` |
| `edit_in_window` | violated: a file saved between `classify` and the rename in `download` is replaced and lost |
| `unseen_remote_edit` | violated: an unlisted remote edit is replaced by `update` |
| `same_second_copies` | violated: two conflict copies of one second share a name |
| `first_listing` | violated: Drive's first listing starts from now, not "from the start" |
| `awkward_name` | violated: an item whose name has a slash, outside the pair's folder, makes every later cycle fail |

What the properties say.

`EditsOutsideWindowSurvive`: the daemon destroys no
local edit that never reached the cloud, save one made in the window of an
action for its path. `EveryLocalEditAccounted`: an edit that is still
in the folder was sent, or its event is waiting, or one of four named things
happened to it. `EveryRemoteEditAccounted`: the same for the drive; moving
the cursor early costs exactly the actions that failed. The exemptions are what the code really does: an edit made
while paused is `blind`; one whose upload failed, or whose folder had no remote
id when its event came, is `dropped`; a listed change whose action failed is `missed`.

`NoEcho`: as long as no call has failed and the pair is there, OneDrive is never
sent a content it has had, and neither is Drive for a local event. What is
exempt is an upload on Drive that `classify` decides: several items may share a
name there, all are judged against one row, and one of them may put back what
another has just replaced. `CopiesHoldUnsentEdits`: on OneDrive, under the same
condition and while nothing was deleted and nothing is a folder, each copy holds
an edit that exists nowhere else. A deletion conflicts with a file whose row was
not written, a folder with any file in its way; neither looks at whether
the file has been sent.

`QuietRowsInSync`: when no event waits, the cursor is at the end of the feed and
no call has failed, a file whose item is where its row is about holds what the
item holds, except for edits that are `racy`, `blind` or `dropped` and versions
that are `missed` or `skipped`. A missing file is allowed where the user may
remove files, since removals are never sent, and where folders or deletions are
about, since a conflict with one leaves the path empty and the row as it was.

`MemoryIsStored`: the paused flags the scheduler goes by are those of the table,
whichever statement fails. `PairsHaveAccounts`: the account that `add_folder_pair`
looks up before asking the provider is still there when it unwraps it.
`StoredIsKnown` and `RequestsAreLive` name the leftovers the code has: rows
nobody loads after a restart, rows `remove_account` could not delete (`orphan`),
requests of pairs that went with their account (`left`). `RequestServed`: an
accepted SyncNow is followed by a cycle of its pair, whatever comes between
taking the request and taking the snapshot; a removal that fails after it
dropped the request is the exception (`cancelled`). What does not hold is that a
paused pair is left alone: the loop goes through a snapshot, so a cycle of a
pair may begin after it was paused or removed.

`RangesPartitionFile`: the `Content-Range`s are non-empty and adjacent and end
with the size announced. `CloudFileWhole`: the drive holds one version from its
first piece to its last, unless the file was written while it was sent, in
which case it may hold a mixture. `FileFollowsFolder`: a new file is dropped
for want of its folder's id only when the folder was reported once more and so
settled later than the file, or could not be made; depth order alone does not
give that, since it orders one turn's paths only. `ForgottenOnlyInRaces` and
`SavesArrive`: there are two ways to forget a save silently. The digest is
recorded after the transfer, which makes the last save's own event look
settled; and a file written in a new folder that notify does not watch yet
raises no event, while `local_action`, given the folder's, does not look at what
the folder holds. Otherwise the drive holds the last save in the end, or its
event came to nothing.

`RequestsAuthorized`: the requests of a drain or a cycle for an account that is
`Watched` go out with a token that is accepted, although nobody looks at the
tokens in between, unless a refresh of it failed or it has no refresh token.
That is what the margin buys and no more: a drain, a cycle, a wait for the lock or
a poll interval that is longer leaves the account unwatched, and so does a
provider that does not say when the token expires.
`RefreshTokensAgree`: memory, keyring and provider hold the same refresh token,
unless a failure came between the provider's replacing it and the keyring.
`RemovedIsRevoked`: a removed account leaves neither secret nor grant, unless a
call failed, or its access token, which is what revokes, ran out while it was
not watched. `ExpiredIsReplaced`: a token that ran out is replaced, whatever let
it run out, if the provider said when it would; unless the account is removed,
its refresh token is lost, or the answer takes so long that the new token has
run out as well.

### Bounds

| bound | values | why enough |
|---|---|---|
| `Content` | 2 or 3 edits | the shortest stories of loss need one edit on each side; the third is the edit made in a window or a later save |
| `Ids` | 2 or 3 items | a file and a second one of its name; a third where a tree or a clash needs it |
| `MaxClock` | 2 or 3 changes by other clients | creation, edit, removal; the daemon's own uploads are not bounded by it |
| `MaxFaults` | 0 to 2 | a failure and one in what follows it |
| `MaxSecond` | 0 or 1 | copies of one second and of two |
| `Accounts`, `Pairs`, `Callers` | 2, 1, 2 | two calls and the loop are all that can disagree about one pair; two accounts so that a removal concerns another one; the invariants are proved for any number |
| `MaxRestarts` | 1 | after a restart nothing in memory is left to tell a second from a first |
| `Env` | what the surroundings do | each run leaves out activity other runs have |
| paths | one, or a folder and a file in it | rows of different paths meet only through parents and shared ids |
| `Debounce` | 2 ticks | one tick in which a path is pending and not settled, so that two paths can be at different ages |
| `SIMPLE_UPLOAD_LIMIT`, `UPLOAD_CHUNK_SIZE`, `Full`, `Buffer` | 2, 2, 3 and 4, 2 pieces | a file in the middle of its save is small, a finished one large; one version leaves a short last chunk, the other fills its chunks; a save has two writes, so that it is met half done |
| `Versions`, `MaxFailures`, `MaxRaw` | 2, 1, 2 | a save and one that disturbs its transfer; one failing step; two events not taken yet. A save waits for room in `raw`, as if the thread had caught up |
| `Accounts`, `Tokens` of `TokenRefresh` | 2, 2 | one account that signs in, with the lock, while another needs a refresh; a refresh token and its replacement |
| `Life`, `Margin`, `Interval` of `TokenRefresh` | 2, 1, 1 | a token is fresh, within the margin, or run out, at the provider and in `expires_at` apart; since any number of ticks passes anywhere, a longer interval adds waiting and no new order of events; the theorems have any values |
| `MaxFailures`, `MaxSleeps` of `TokenRefresh` | 1, 1 | a failure, and a tick asleep, which with these numbers is as much as the margin covers, at any point, one after the other |

Ids and contents are symmetric and exchanged freely in the runs without
liveness.

### Fairness

`FairSpec` asks three things. The task goes on (weak fairness of the cycle and
of `apply`): a call that was made returns, with an answer or an error. That is
an assumption, since the HTTP clients set no timeout. The watcher map is
refreshed every tick. And strong fairness of each pending event and of the poll:
the loop drains the watcher in every tick and the timer elapses again and
again, but both are disabled while an action is applied, so weak fairness would
promise nothing. Nothing is asked of the user or of other clients, whose
activity ends because contents and `MaxClock` do.

In `AccountManager`, `FairSpec` asks that the loop goes on and that a call that
was made is served. The lock is first come, first served; the browser is given
300 s, and for the other requests it is the same assumption as above. Nothing
is asked of the poll timer: a SyncNow does not need it.

In `SaveAndSend` the watcher's thread, the scheduler and time go on, and a save
that was begun comes to its end. In `TokenRefresh` the loop and a sign-in go on
(weak fairness), so every call returns in the end, however late; and time
passes (weak fairness of `Tick`): the poll timer elapses however often the loop
goes round.

### Mutated forms

Beside some definitions stands a variant that a plausible bug would make of
it, for one check per property that the property notices:

- engine: `LocalChangedSinceRow` and `RemoteChangedSinceRow` (a path without a
  row never counts as changed), `KnownIsEnough` and `ContentNotCompared`
  (`local_action` does not look at, or does not compare, the content),
  `ConflictIfBothExist`, `ResolvesByParent` (a deletion without a parent is an
  error), `PathOnly` (the name of the copy is not recorded);
- `AccountManager`: `NextInLine` (a lock that does not exclude), `MemoryFirst`
  (the pair changed before its row), `RequestsKept` (pausing keeps the
  request), `RowsForgotten` (rows of a removed account stay), `StillPending`
  and `DueAccounts` (a wrong snapshot);
- `SaveAndSend`: `AnyOrder` (settled paths in the order of the map),
  `SettledLater` (`>` for `>=`, so that a path never settles), `FullChunks` and
  `PutChunkFromEnd` (a last chunk that is too long, a chunk that starts a byte
  early), `TakeFolderEarly` (the row before the answer), `IgnoreKnownFile`;
- `TokenRefresh`: `AfterTickPlain` (durations that do not saturate),
  `DueOnExpiry` (no margin), `DueBeforeExpiry` (a token that has expired is not
  refreshed any more), `OnlyReturned` (no `or_else`), `ForgetAccount` (the
  tokens deleted before they are loaded for revocation).

## Proofs

Checked by TLAPS with the assumptions of the modules of state: `SyncAssumption` (providers,
ancestors closed and irreflexive, distinct special values), `BoundAssumption`,
`AccountAssumption`, `WatcherAssumption`, `UploadAssumption`, `SaveAssumption`
and `TokenAssumption`; each is evaluated by TLC in the run of its module.

- `TypeCorrect`: `Spec => []TypeOK`. Types alone are not inductive:
  `Head(todo)` has a type only where `todo` is not empty, and a download puts
  into the folder what the item holds. `TypeInv` adds both (`TaskInv`,
  `ContentInv`).
- `SurvivalInvariant` and `EditsSurvive`: `Spec => []EditsOutsideWindowSurvive`,
  for any set of paths, items, contents, any surroundings and any number of
  failures. `SurvivalInv` adds to `TypeInv` that everything in the cloud was
  sent or written there (`CloudCovered`); that the local hash of a row, all that
  `classify` compares a file with, is the digest of something the cloud has had
  or that was saved in a window (`RowsCovered`); so that a decision to
  overwrite or delete concerns such a file and stays so while it is queued and
  applied (`DecisionsSafe`, `StepSafe`): a save while it is queued falls into the
  window. `RowsCovered` needs `StepSafe` in turn, since `Record` hashes whatever
  the path holds by then. `SurvivalInv` is also an invariant of `onedrive_tree`.
- `AccountInvariant` of `SyncAccountProofs`, `LocalEditsAccounted` and
  `RemoteEditsAccounted`: `AccountInv` adds two accounts to `SurvivalInv`.
  `LocalInv`: what was first saved here was not first stored there
  (`OriginsApart`), and a file nothing is about to send came from elsewhere or
  was let go (`FilesServed`). `RemoteInv`: the feed has been read up to `Heard`,
  the position of the listing being classified, otherwise the cursor; an item
  behind it was reported, is in the batch, or is carried by a decided action with
  the version it still has (`ItemsAccounted`), and as long as the new cursor
  is not saved the old one accounts for it as well (`CycleMayFail`). `classify`
  takes an equal digest for a version already seen, so a digest it may meet must
  belong to no other item that has not been reported: `HeldOnlyBy`, in the
  items, the rows, the batch, the decisions and the transfer.
- `EchoInvariant`, `NoEchoes` and `CopiesUnsent`: `EchoInv` adds what the decided
  actions can rely on. Names are unique on OneDrive and stay so; what was listed as deleted
  or as a folder is so for good; a local event is served alone; and no two
  decided transfers are about one path (`ClaimsApart`), which holds because the changes
  of one listing have different places. Then a content the cloud has had is in
  the folder only where the row says so (`RowsCurrent`), one it never had is in
  one place (`UnsentOnce`), and what is about to be sent or put aside is
  fresh (`SendsFresh`, `CopiesFresh`). The last three need that no call has
  failed: a lost answer leaves a file in the cloud that no row knows.
- `QuietInvariant` and `QuietInSync`: `QuietInv` adds that what was listed or
  decided about an item is still so, or the item has changed since and is ahead
  of what has been read (`DecisionsHeard`, `TransferHeard`); hence a row whose item is at its path
  knows the item's version, or the item is unheard of, in the batch or
  carried (`RowsHeard`, and `RowsMayFail` for a cycle that fails). `RowsTrue`:
  a row that knows the remote version is right about the local one. It uses that
  an item's content never returns to one it had: what is sent is fresh, and an
  id in a row, a decision or a transfer has been given out (`IdsTaken`). `FilesStay`: without folders,
  deletions and removals a file with a row is there, or was put aside by an
  action that is about to replace it and cannot fail. At rest nothing is unheard or carried,
  so the row knows what the item holds; and the file is as the row says
  or fresh (`RowsCurrent`), which `FilesServed` leaves only to the named reasons.
- `EngineImplementsMirror`: `Spec => ImplementsMirror`. `InitMirror` and
  `NextMirror` say that initial states map to initial states and that every
  step, from a state of `SurvivalInv`, maps to a step of `Mirror` or a stutter;
  the lemmas before them say when a step leaves the mirror's history alone
  (`HistoryKept`), that `Safe` is what `Mirror` calls vouched for
  (`SafeIsVouched`), and that finishing, failing or forgetting decisions puts
  nothing new at stake (`FewerStakes`). No bound on anything.
- `AccountInvariant` of `AccountProofs`: `IInv` is an invariant of `AccountManager`, with no bound on
  accounts, pairs, calls, failures or restarts. The four properties alone are not
  inductive: that a pair is added to a live account needs `LockInv`, which says
  that whoever keeps the lock is alone, is a call under way, and, if it adds a
  pair, has its account still there. `AccountsTyped`, `MemoryFollowsTable`, `OrphansExplained`,
  `UnwrapIsSafe` and `RequestsConcernActivePairs` follow.
- `RangesPartition` and `WholeVersions`: for every size of file, limit, chunk
  size, number of versions, buffer, debounce and failures. `SaveInv` adds to
  the two properties that a file between saves is whole and during one a prefix
  of a version (`FileInv`), and that an undisturbed transfer has sent the first `offset`
  pieces of what the file still is (`SentInv`). `CountBounds` and
  `ChunkAppended` are the arithmetic of a chunk.
- `FilesFollowFolders`: `FollowInv` says where the one report of a new folder is,
  and that it is ahead of all of the file's there: in `raw` it comes first, while
  pending it is at least as old, in `rx` it comes first. `FolderInFront` gives what
  the sort by depth contributes when both settle in one turn.
- `SavesTyped`, `EditsFollowed` and `OnlyRacesForget`: `ForgetInv` says that
  until a save is explained an event about the file is in `raw`, pending or in
  `rx`, or a transfer is under way (`Followed`); that a transfer nobody disturbed
  stored the file that is there; and that a row which no failure and no late digest
  left behind names what the drive holds. The last is why `IgnoreFile` is right
  to compare with the row, and needs the second where the row is written.
- `LoopIsAuthorized`, `RefreshTokensStayTrue`, `RemovalRevokes`, `TokensTyped`:
  for every lifetime, margin, interval and number of accounts, and without any
  assumption about how long anything takes. `TimeAt` weighs, for each account
  that is not waiting in `toRefresh`, the token's life at the provider against
  `expires_at`, `late` and the ticks since the last look, which only `BeginRefresh`
  resets. `WaitInv`
  bounds what an answer has lost on its way by the same count, since no poll
  begins while it is under way. `LiveToken` draws the conclusion for a watched
  account, and `CapIsEnough` says that `unseen` and `late` may stop counting at
  `Cap`. `AgreeInv` follows a refresh token through an exchange whose answer
  is not stored yet, `LockInv` says whose answer that is. `RemovalRevokes` needs
  all of them: a token that has run out unlapsed was not watched.

Every invariant and every action property the passing runs check is proved. Only
model-checked are the liveness properties `Settles`, `RequestServed`,
`SavesArrive` and `ExpiredIsReplaced`, since liveness under fairness is out of
the prover's reach.

## Not modelled

- `provider_config.rs` (a file and environment variables read once, one default
  per field), `main.rs`, packaging: no state of the synchronization.
- Requests, decoding, error mapping, URLs, PKCE and the loopback page of the
  adapters and OAuth flows; of them the models have what a call changes and
  whether it succeeds.
- `resolve_path`, `file_status`, the lists and the D-Bus signals only read. Two
  pairs that overlap in one folder: nothing keeps them apart, and each would be
  a `SyncEngine` of its own on one `LocalFolder`.
- The steps of the parent walk, its depth limit and cycle check: items that
  move between two of its requests give a path that never existed.
- The extension's status cache, in another process, on which the daemon does
  not depend.

## Plan

1. `ParentWalk`: `resolve_relative_path` request by request, against the paths an
   item had during the walk; it replaces `Resolves` and `PathsFor`.
2. `PathOwner`: `resolve_path` against the longest pair, and two engines on one
   folder.
