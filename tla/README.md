# A TLA+ model of ConnectHub

ConnectHub is a desktop SSH client: a React frontend (`src/src/`) talks over
Tauri commands to a Rust backend (`src/src-tauri/src/`) that owns an SQLite
database with an encrypted vault, SSH and SFTP sessions, OpenVPN connections,
a Google Drive backup and an AI assistant. This directory holds TLA+ modules
that model its stateful parts, TLC configurations that check them on small
instances, and TLAPS proofs for every size. `PROJECT.json` maps each definition
to the lines it models, each run to its properties, each hazard of the code to
the properties that watch it.

## 1. Inventory

| Component | State it keeps | Operations | What is hard | What makes it correct |
|---|---|---|---|---|
| OpenVPN manager (`vpn/mod.rs`, `vpn/setup.rs`) | `VpnMap` (profile → entry with status, control channel, device, routes), profile files, kernel routes, root-owned openvpn processes | connect, disconnect, disconnect_all, ensure_host_route, setup, exit, restart | concurrent connects, a task per attempt, cleanup racing a reconnect, exit and crash | no phantom, lost or overwritten entry; callers answered; a Disconnect takes effect; nothing left behind |
| VPN gate and panel (`vpnStore.ts`, `AppShell.tsx`, `VpnPanel.tsx`) | cached statuses, open tabs | ensureVpnUp, releaseIfUnused, connect, disconnect, disconnectAll, polling | every `await` lets other clicks in; statuses go stale; several hosts share a profile | every gate returns, every release ends |
| SSH terminal session (`ssh/session.rs`, `session_commands.rs`, `TerminalView.tsx`, `commandHistoryStore.ts`) | session table, command and event channels, retry timer, line buffer | connect, write, close, reconnect with back-off, broadcast | events racing closes, late connects, lost connections | no session nobody can close, no spinner for nothing, no secret in the history |
| Host key trust (`ssh/known_hosts.rs`) | `known_hosts` table | check-or-trust, delete | concurrent first connections on separate database connections | one key per endpoint |
| Vault (`vault/`, `vault_commands.rs`, `App.tsx`, `VaultLockOverlay.tsx`) | `vault_meta`, local secret, encrypted columns, key in memory | auto_unlock (create, unlock, legacy migration), lock | a migration in many steps, kills in between, a lock racing an unlock | the key opens everything; the disk suffices to get it back |
| Google Drive backup (`google/`, `GoogleBackupSection.tsx`) | Drive files, database file, secret file | backup, restore with rollback | two files that must match; a restore that replaces the open database | a restore happens completely or not at all; the copy survives |
| Google sign-in (`google/mod.rs`, `google/oauth.rs`) | cancel slot, token | login, cancel_login, logout | overlapping sign-ins share one slot | Cancel ends what is pending |
| Tabs, panes, workspaces (`paneTree.ts`, `sessionsStore.ts`, `AppShell.tsx`, `data/workspaces.rs`) | tabs with a split tree each, saved rows | open, split, close, drag, cycle, save, reopen, delete a host | handlers that wait for a gate and act on what they saw before | panes and tabs consistent; a workspace comes back as saved |
| AI assistant (`aiStore.ts`, `components/ai/`, `ai_commands.rs`, `SettingsPanel.tsx`) | conversation, pending command, providers' keys | send, run, skip, stop, clear, autonomous run | answers racing clicks, denylist asked after the choice of the terminal | nothing dangerous unconfirmed; a history the providers accept |
| Host library (`data/*.rs`, `hostsStore.ts`, forms, `HostTree.tsx`, CSV import) | hosts, groups, identities, keys, VPN profiles and the store that mirrors them | CRUD, duplicate, favourite, reorder, import, filter | reloads answered out of order, forms saved after a delete, several commands in a save | references valid, store true, every host shown |
| SFTP (`ssh/sftp.rs`, `SftpBrowser.tsx`, local file commands) | session, two panes, listings | connect, navigate, mkdir, rename, delete, upload, download | listings answered out of order, the tab closed at any moment | a pane shows the directory it names; no session lost |
| Remote execution, host statistics (`ssh/exec.rs`, `ssh/stats.rs`) | none between calls | exec with timeout | – | – |
| Settings, snippet and history stores | values written through | load, save | – | – |
| Updates (`UpdatePrompt.tsx`), icons, themes, layout | view state | – | – | – |

Components interact through Tauri commands (frontend → backend, several at once
on the runtime's threads), events of a session's channel (backend → frontend), the
shared SQLite database (one connection behind a mutex; host-key checks open
their own), and the files that back it.

## 2. Plan

The order was: what can lose data or secrets first (VPN processes, host keys, vault,
backup), then the parts of the frontend with awaits between check and use. All
modules of the plan are here. What is left:

* linking `VpnGate`'s summary of the backend (a status per profile) to
  `VpnConnections` by a refinement;
* the update prompt and remote execution with its timeout, should they grow state.

## 3. The modules

Every module reads the same way: constants and their assumptions, variables with
their source, one action per step of the code that other code can observe, the
next-state relation, and at the end the properties. A step of asynchronous Rust is
what runs between two awaits or between taking and releasing a mutex; a step of
JavaScript is what runs until the next await of a backend call or a timer. A
definition that precedes the one it resembles (`VacantRacy` before `Vacant`) is a
plausible mistake in that piece of code; no specification uses it, it is there to
show that the property listed for it in `PROJECT.json` would notice.

A *history variable* decides nothing; it remembers an event after which the code
promises less, so that a property can name its exception instead of the model leaving
the event out. Every exception is one the code really has (section 5).

### VpnConnections (`vpn/mod.rs`, `vpn/setup.rs`)

A *connection attempt* `c` goes through `phase[c]`: claimed → configured → authed →
(spawned) waiting for the management port → running → draining → cleaning → ended.
`vpnMap` is the `DashMap`; `status`, `ctl`, `ready`, `pub` (tun_iface) and `added`
are the `Arc`s and channels of the entry; `proc`, `lines`, `sigterm`, `iface` are
the openvpn process as seen through its management socket; `route` is the kernel's
table, `cfgFile` and `authFile` say whose files lie on disk. `connect()` is
`ConnectCheck`, then `TryClaimOccupied` or `TryClaimVacant`, then
`StartConfig/Auth/Spawn` or `StartFails`, then `ConnectReturns`; `run_vpn` is
`MgmtConnect`, `MgmtNeverUp`, `ReadLine`, `TakeControl`, `MgmtClosed`; `cleanup()` is
`CleanupUnmap`, `CleanupTakeRoutes`, `CleanupDelRoute`, `CleanupConfig`, `CleanupAuth`;
each background route task is a member of `adders`. The application may be asked to
exit, die at any moment (`ProcessGone`) and start again (`Restart`, with
`cleanup_stale_profile_files`); openvpn, being root's, goes on.

### TrustOnFirstUse, KnownHosts (`ssh/known_hosts.rs`, `check_server_key`)

`TrustOnFirstUse` is what a user expects: checks happen one at a time; the first key
of an endpoint is pinned, later ones are compared. `KnownHosts` has a transaction per
check on its own database connection: `Begin` (IMMEDIATE, the write lock), `Select`,
`Decide`, `Commit`, and `Rollback`, `Busy` for errors; deletions and the end of the
process in between. `ImplementsTOFU` says that the second implements the first. Its
specification is `TrustSpec`, with names apart from those of `TerminalSession`, whose
sessions it checks the keys for: one proof module extends both.

### Vault (`vault/store.rs`, `vault_commands.rs`, `App.tsx`, `VaultLockOverlay.tsx`)

A key is the pair of its secret and salt; a row is the key its ciphertext opens with.
`auto_unlock` runs in steps (`GetSecret`, `Create` or `Unlock` or `InvalidPassword`,
`StartMigration`, `MigrateRow`, `MigrateMeta`), the commands of the frontend queue up in
`calls`. The history variable `harmed` remembers that a migration stopped half-way or
that an existing secret file could not be read.

### DriveBackup (`google/mod.rs`, `google/drive.rs`, `GoogleBackupSection.tsx`)

A database is the secret it opens with plus a secret per row. The steps of
`backup_now` and `restore_from_drive` are actions of a task; `Edit`, `Lock`,
`AutoUnlock`, `Restart` and the backups of another device on the account fall in
between, and every step may fail. The history variable `harm` remembers a rollback
that fails too, a process killed inside a restore, a backup by the other device, and a
device that lost its database and its secret and goes on with new ones.

### GoogleLogin (`google/mod.rs`, `google/oauth.rs`)

Sign-ins that wait for redirect, cancel or timeout and share one `slot` for the
sender of the cancel channel. Its specification is `LoginSpec`: the names differ from
those of `DriveBackup`, the other half of `google/mod.rs`, so that one proof module
extends both.

### VpnGate (`vpnStore.ts`, `AppShell.tsx`, `VpnPanel.tsx`)

`flow` has the activations of gated handlers and of the panel's Connect, each with the
backend's answer on its way and its count of polls; `cache` is the store's statuses,
`snapshot` the list a reload is waiting for, `closing` and `all` the disconnect calls. Of
the backend only a status per profile is kept, a summary of `VpnConnections`.

### TerminalSession (`TerminalView.tsx`, `ssh/session.rs`, `session_commands.rs`)

Every `sessionConnect` is an attempt whose reply and whose events reach the pane
independently of each other. `held` is `sessionIdRef`, `timer` the retry timer, `line`
and `suppress` what the command recorder keeps. `Mount`, `TimerFires`, `Reconnect`
connect; `BackendConnects`, `ConnectionLost`, `ChannelEnds`, `TaskCommand` are the
session's task; `TakeReply` and `TakeEvent` the pane's handlers. One assumption is
about time: `Settled(p)`, where a pane connects again. The back-off (2 s and more)
and a person who reads a status before clicking are slower than messages already on
their way to the pane. Nothing else about speed is assumed.

### PaneTree, Workspaces (`paneTree.ts`, `sessionsStore.ts`, `AppShell.tsx`, `workspacesStore.ts`, `data/workspaces.rs`)

`PaneTree` has the recursive functions on split trees, in the spelling of the source.
`Workspaces` takes them (`CollectLeaves` for `collectLeaves`, …) as
constants and knows them by `PaneTreeEquations` only: what the code's recursion makes of a
leaf and of a split, a case at a time (`SplitEq`, `RemoveEq`, `SerializeEq`,
`DeserializeEq`, …). So the proofs meet no recursive operator, and TLC, which runs
`MCWorkspaces` with the functions of `PaneTree` in place of the constants, evaluates the
equations on all trees up to `MAX_PANES` leaves. Identifiers of tabs and panes, random
in the code, come from the sets `TabIds` and `PaneIds` and are different from every one
that is open or remembered. `Workspaces` has the tabs in
order, one handler of the user's that waits for the VPN gate (`click`), the opening of
a saved workspace with its own control point (`opening`), which goes row by row
through the same handlers, and hosts deleted in between. `Waits` says where events can
interrupt the opening: only where the code really waits. `goal` remembers what is
being opened while nobody interferes.

### Assistant, AiSettings (`aiStore.ts`, `components/ai/`, `ai_commands.rs`, `SettingsPanel.tsx`)

A *flow* is one chain of awaits: a turn asked of the provider (`chat`), the question
to the denylist (`check`), the way through a terminal (`write`) or through the VPN gate
and the exec channel (`gate`, `exec`). Whether the provider proposes a command and
whether the denylist matches it are left open. `ran` is what reached the server, checked,
confirmed or pasted. `cleared` remembers that the conversation was cleared under a flow.

`AiSettings`, which `Assistant` extends, has the providers' keys and the panel that saves,
clears and chooses among them. A *request* is one call of `handleSave` or `handleClear`:
the command (`Perform`), its answer, which acts on the provider that was active at the
click (`Replied`, `ActiveAfter`), and the `load()` that sets `status`, the panel's copy of
what is configured (`Load`, `Loaded`). Requests overlap as the buttons allow, are answered
in any order, and go on when the panel is left. `muddled` has the providers whose save and
clear overlapped, or that were chosen when `status` was out of date.

### HostLibrary (`data/*.rs`, `hostsStore.ts`, `HostForm.tsx`, `GroupForm.tsx`, `HostTree.tsx`, …)

`db` has the five tables with their foreign keys. An operation of the store is a list of
commands followed by `loadAll`, whose lists are read at different times
(`ReadGroups`, `ReadRest`) and used only if no later `loadAll` was started (`Loaded`).
One operation of a form and one of a list or a menu may be under way. `Drawn`, `InGrid`
and `InTree` are what `HostTree` and the grid show: the groups that `renderLevel` and
`groupHasMatch` reach by recursion are the least sets closed under one level of it.
Commands are not transactions: `LeftBy` has what one that fails may leave in the tables.
`missed` is the number of the last `loadAll` that failed or was followed by such a change:
the store need not be true until a later one. `db.fk` says whether the database declares
the foreign key of `hosts.vpn_profile_id`; a migrated one does not.

### SftpBrowser (`SftpBrowser.tsx`, `ssh/sftp.rs`, `sftp_commands.rs`, `local_fs_commands.rs`)

Two panes over two small disks, the list calls under way, one edit and one transfer, the
connect effect with its two calls (`effect`) and its clean-up, and the backend's session.
A pane's buttons work from the start, when its path is still empty (`None`): Up then goes to
`Root`, and a remote listing of the empty path is that of `Home`.
`stray` remembers a listing that was last asked for another path than the pane shows, or
changed by a transfer that failed.

## 4. Runs

Deadlock is checked where the system never stops (`vpn_claims`, `vault`, `drive`, `gate`).
The other instances end because the attempts, logins, checks or clicks are bounded.

| Run | Properties | Bounds, and why they are enough |
|---|---|---|
| `vpn_claims` | `EntryHasOwner`, `OpenvpnTracked`, `EndedAttemptAnswered`, `FilesRemoved`, `EntryNeverReplaced` | one profile, two callers, two attempts, crash and restart, sockets that drop; the races are about an entry and its successor |
| `vpn_live` | `RouteRetractable`, `DisconnectCompletes` | one attempt, one host to route; sockets do not drop (section 5) |
| `known_hosts` | `OneKeyPerEndpoint`, `ImplementsTOFU`, `PinsOnlyDeleted` | four checks, two endpoints, two keys, two deletions: two checks of an endpoint on each side of a deletion; symmetric |
| `vault` | `KeyOpensVault`, `UnlockedMeansUsable`, `SecretsRecoverable` | two rows in each migrated table and one in another, so that a migration can stop at every point; `MaxFresh` random values, hence several launches and migrations |
| `drive` | `RestoreAllOrNothing`, `KeyFitsDatabase`, `DriveRestorable` | two rows, so that a database can be mixed; one command at a time (section 5) |
| `google_login` | `NoStaleSender`, `CancelEnds` | three overlapping sign-ins: one more than share a sender |
| `gate` | `GateReturns`, `ReleaseEnds` | two gates on one profile, a tab, and the panel's buttons; one poll (`MaxPolls`) before the deadline. With the one tab gone no other keeps the VPN up, so that each close of it is a release; a second tab makes a release do nothing, which is not run (over 300 s) |
| `terminal` | `SessionsReachable`, `SpinnerMeansWork`, `NoSecretRecorded`, `DisposedEnds` | two panes, three connect calls, one retry: a retry and a manual reconnect of one pane beside the other |
| `workspaces` | `TabsWellFormed`, `ReopensWhatWasSaved`, `DropExact`, `PaneEditsLocal` | two hosts, one with a VPN; tabs full at three panes (nine in the code: what matters is the last free place); five clicks: build, save, change, reopen, interfere; more identifiers than five clicks use; before the first click nothing, an old row without a layout, or a nested layout is saved (`MCSavedBefore`) |
| `assistant` | `DangerConfirmed`, `HistoryWellFormed`, `ActiveHasKey`, `FlowsEnd` | two flows at once, six clicks, one autonomous iteration; two providers and three requests of the settings panel, so that a save, a clear and a reload overlap and another provider is there to choose (a click there counts twice) |
| `library` | `ReferencesKept`, `StoreFresh`, `AllShown`, `CredentialsKept` | a group in a group, a host with everything and a bare one, in a new and in a migrated database; three clicks, two of them overlapping; commands, which may have written part, and reloads may fail |
| `sftp` | `ListingTrue`, `SessionReachable`, `RenameInPlace`, `LoadingEnds` | two directories (the home and the root) and two names on each side, three clicks, also before the connection is up |

*Fairness.* `vpn_live`: the runtime polls a task that can go on; `select!` picks its branch
at random, so that neither starves; the polkit question is answered and the helper
started; openvpn exits after SIGTERM. Nothing says that a tunnel ever comes up.
`google_login`: woken tasks are polled and HTTP requests return; the timeout gets none,
since Cancel is there not to have to wait for it. `gate`: timers fire, the backend answers
(after 25 s at the latest), openvpn exits after SIGTERM; that it ever connects or fails
is not assumed. `terminal`: replies are delivered and a session's task takes its
commands; that a server answers is not assumed. `assistant`: the provider and the backend
answer, possibly with an error. `sftp`: the backend answers its list calls. The other
runs check safety only.

## 5. Where the code promises less

What the models show the code does not do, each an exception named in the property or a
note under `hazards`, or found with TLC while stating one:

* VPN: the clean-up of one attempt can delete the config the next has just written
  (`vpn/mod.rs:87` says the files exist only for one attempt); a route added by a late
  task outlives its connection; a failed start leaves its files until the next launch; the
  process may exit before any SIGTERM was sent; a profile connected while no host uses it
  publishes no device for later routes; a terminal status is shown before the child was
  awaited; when the management socket breaks under a living openvpn, `run_vpn` waits for
  the child without reading further Disconnects.
* Vault: a migration that stops half-way cannot be resumed, and the rows already
  rewritten are lost.
* Drive: the panel forgets a running command when it is left and opened again; two at
  once break all three properties of the run. Two devices on an account leave files
  that do not fit; a backup during a restore uploads an empty database; a secret stored
  between the two assignments at the end of a restore gets the old key; a rollback loses
  a change made while the restore began; a device whose `vault.db` and secret were both
  left empty by failures starts anew, and its first backup may stop between the two files.
* Gate: a cached "connected" is believed after the VPN was lost; a late status list
  overwrites a newer status; a VPN that comes up after the gate gave up stays up unused;
  the release looks at the hosts of tabs, so another tab's pane can lose its VPN.
* Terminal: a connection that the keepalive gives up reports Closed without Error and is
  not retried; a secret typed for a broadcast sibling's prompt is recorded.
* Tabs: two clicks while the VPN comes up open two tabs of one host; the first pane of a
  host's tab may be another host's; a workspace opened over an open tab replaces its
  panes; its rows are not written in one transaction.
* Assistant: in autonomous mode the proposal is refused by the guard against a running
  conversation, which then stays running; Clear under a flow leaves a result without its
  command. "Paste in server" is not checked against the denylist, and of a block of several
  lines all but the last run at once (`aiCommandActions.ts:16-19` says the text is inserted
  "without submitting it"). In the settings, Clear is not disabled while a Save of the same
  provider is under way (`SettingsPanel.tsx:437-445`), and the selector offers what an older
  `load()` found (`:340-344`, `:501-524`), for good if the last one failed: either way a
  provider without a key may end up active.
* Library: a form opened over another keeps the first one's fields; two edits make a
  group its own ancestor and hide what is below, though `host_csv.rs:41-43` says that "a
  cycle can't occur"; a host keeps a deleted VPN profile in the store until the next
  reload; a save that fails late is repeated from the start. `hosts::create`,
  `hosts::update` and `import_csv` have no transaction: what they wrote before they failed
  stays, and nothing reloads, so that the store does not show it (`hosts.rs:74-120`,
  `host_csv.rs:203-303`). A migrated database has no foreign key on
  `hosts.vpn_profile_id` (`data/mod.rs:142-149`): a form or a copy brings back a profile
  deleted since, where a new database refuses, though the comment there promises
  "behavior is identical on fresh and migrated databases".
* SFTP: a handler that ends when the user is elsewhere refreshes the path it was
  clicked in, and a rename from such a listing moves the file; a session that arrives
  after `localHomeDir` failed is closed by nobody; after a failed transfer the listing is
  not refreshed; a remote pane whose Up is clicked before the connection is up says "/" and
  "Empty directory" (`SftpBrowser.tsx:105-110`), for good if the connection fails.

## 6. Proofs

TLAPS checks all of these for every size of the constants, from the `ASSUME`s of the
modules only (distinct null values, natural-number bounds, booleans, in `SftpBrowser` a
home and a root directory, in `DriveBackup` three different secrets, in `Workspaces` a host
without a VPN and the equations of the pane trees).

* `VpnConnectionsProofs`. `TypeCorrect`. `EntriesOwned`, `ProcessesTracked` and
  `ClaimsExclusive` follow from `TableInv`: an entry has an owner
  (`EntryHasOwner`), an attempt in a phase that has not been unmapped holds its profile's entry
  (`AttemptHoldsEntry`), and a living process has a task (`ProcessHasTask`). The first
  alone is not inductive: removing one attempt's entry could take away another's, which the
  second excludes. `CallersAnswered` needs that the answer precedes the phases after it.
  `RoutesRetractable` needs `RouteInv`: tasks, published devices and routes belong to
  attempts that were launched, and a launched attempt never runs again once it ended
  (`LaunchedStays`). `FilesGone` needs `FileInv`, which relates the files to how far
  `cleanup()` is: the file on disk is that of an attempt which has written it and is not
  yet past removing it, and an `.auth` file exists only for a profile with credentials, whose
  clean-up removes it. The module also has the types of the frontend's gate
  (`GateTypes`, about its instance `Front`), among them that no gate polls past its
  deadline.
* `VaultProofs`. `VaultInv` (types of keys, rows of the tables outside the migration under no
  legacy key, key in memory fits, what is migrated is under the new key) gives
  `KeyFitsVault`, with all faults. `RecoveryInv` on top (unless `harmed`, the verifier
  and all rows are under a key that the secret file or the legacy password gives, and
  during a migration the rows still to do are under the old one) gives `DiskSuffices`.
  `FrontInv` (at most a lock and then an unlock are on their way, a lock only under the
  overlay, an auto_unlock that runs is the last of them) gives `WorkMeansKey`.
* `TerminalSessionProofs`. `SessionsKept` from `SessionInv`: a pane has one attempt at a
  time, the others are over and delivered; one that waits for its timer or shows Reconnect
  has none under way; nothing but a prompt is in a channel until its attempt ends. The
  property alone is not inductive, since a second attempt of a pane would displace the
  session it holds. `SpinnersWork` on top of it; `SecretsKept` from the recorder's own
  invariant `InputInv`. `Settled` is a guard of the model, hence an assumption of these
  theorems.
  For the host keys of those sessions, `LockInv` (whoever is in a transaction holds the lock, and what
  it read is still so) and `PinInv` (an acceptance not followed by a deletion is still
  the pinned key) give `NeverTwoKeys`, `PinsStay` and `Refinement`: `Commit` maps to
  the abstract check, `Rollback`, `Busy` and `Killed` to failures, the rest to stutters.
* `DriveBackupProofs`. `DriveTypes` for any number of commands at once. The three invariants are proved of every behaviour
  with `OneAtATime`, which is what the panel's disabled buttons are for; the hypothesis is
  needed, since two commands at once break all three (section 5). `RestoresWhole` and
  `KeyFits` follow from `RestoreInv`: what a restore has written so far is what it
  downloaded (`FilesFit`), and the originals in its memory fit each other, hence a rollback
  ends well from every step (`OriginalsFit`). The properties look only at the states in
  which no restore is at work and say nothing of the steps that lead there.
  `CopyRestorable` follows from `AllOwned`: on a device alone with its account (`Alone`:
  no other has backed up, and it has not begun anew under another secret) every database and secret, on the disk, on Drive or on its way, is the device's own. A killed
  restore may leave a new secret beside an old database; then the vault does not
  unlock and nothing is backed up, which is the conjunct that keeps the copy safe.
  `SenderGone`: the sender in the slot of `GoogleLogin` belongs to a login that has not
  taken the slot yet.
* `SftpBrowserProofs`. `ListingsTrue` from `ListInv`: the call whose answer will count lists
  the path the pane shows, and what it has read is still true, because whatever changed
  the disk since has made a later request. Before the session is there the remote pane has no
  path or is `stray` (`RemoteLater`), and a pane without a path has neither calls nor entries
  (`Blank`). `RenamesInPlace` uses it: the source of a
  rename was listed where its target is put. `SessionsReachable` from `SessionInv`, which
  follows the two calls of the connect effect: it stops waiting for `sftpConnect` only when
  `localHomeDir` has failed.
* `AssistantProofs`. `ActiveKeyed` from `KeyInv`: of a provider that is not `muddled`, saves and
  clears are not under way at one time (`Steady`); so its key is there as soon as a save has
  been performed and as long as no clear has, and whoever clears the active one saw it
  active at the click and will reset it.
  `DangersConfirmed` from `WriteAllowed`: what is on its way to a terminal was not matched
  by the denylist or was confirmed. `HistoriesWellFormed` from `Orderly`: unless cleared
  under it, a conversation has at most one flow, which waits for the provider when nothing
  is proposed and for the server when something is; a running conversation without a flow
  has an automatic proposal pending. The identifiers of messages and flows are the maximum
  so far plus one (`Fresh`); that a bounded set of naturals has a maximum is derived from
  the library's well-foundedness of `<` applied to a set (`LeastNat`, `MaxNat`).
* `HostLibraryProofs`. Every command of the backend keeps the tables in order (`InOrder`: types,
  foreign keys, numbers below the next one), one lemma per command, and so
  `ReferencesHold`, whichever operations overlap and fail: what a failing command leaves is in
  order too (one lemma for `LeftBy`). `StoreIsFresh` from `FreshInv`:
  what the latest `loadAll` has read is still what the tables hold, and once it is over it
  is what `hostsStore` shows, if it is later than `missed`. Two details make it inductive: a host in the store refers to no
  profile that is yet to be made, so that a deleted one cannot come back under its old
  number; and while a reorder sends its commands nothing need show its groups, since its end
  reloads. `CredentialsSaved` from `PledgeInv`: while the identity for what the user
  entered in `HostForm` is not there yet, a command still to be sent makes it before the
  host is saved. `HostsShown` follows from the two invariants before it and from what least
  sets are: `groupHasMatch` finds every group above a match, so that what is drawn
  without a filter and has a match below it is drawn with one; and a group that is not drawn has a
  parent which is not drawn either, hence leads to a loop.
* `WorkspacesProofs`. First the trees: `PaneTreeLaws` says what splitting, closing, saving
  and restoring do to the leaves from left to right, for trees of any size. It is proved
  from the equations, by induction on the number of leaves up to `MAX_PANES` (`UpTo`, from
  `LeastNat`; a set of sizes takes the place of the predicate that the provers cannot
  instantiate). A split's leaves are those of its sides one after the other, so that each law
  rests on one about joined sequences (`InsertLeft`, `RemoveRight`, `ThinnedJoin`, …). Then
  the handlers: `TabsStayWellFormed` from `Inv`, in which every tab has a good tree of its own
  panes (`Good`), the handlers that wait remember rows, hosts and panes of the right kind
  (`ClickOK`, `RowOK`, `TabOK`) and the saved rows are rows (`SavedOK`). `DropsAreExact` and
  `PaneEditsAreLocal` use it. `WorkspaceComesBack` needs `GoalOK` on top: while a
  workspace is opened undisturbed there is a tab, as it was saved, for each row that is
  behind, and the one at hand has as many panes as were split off so far; that two rows are
  never of one host and kind is what keeps the row at hand from finding an earlier tab.

Only model-checked: everything temporal with a `~>` (`DisconnectCompletes`, `CancelEnds`,
`GateReturns`, `ReleaseEnds`, `DisposedEnds`, `FlowsEnd`, `LoadingEnds`) and what needs
ENABLED, which this prover does not do; and that the recursive definitions of `PaneTree`
satisfy `PaneTreeEquations`, which TLC evaluates for trees up to three leaves. (Each
equation is one unfolding of the definition it is about.) Every safety property of the
runs is a theorem.

## 7. What is not modelled

Remote execution and host statistics open a connection per call and keep nothing between
calls (their callers, gate and host-key check are modelled). The settings, snippet and
history stores write values through. Updates are a thin wrapper of the updater plugin.
Icons, themes and layout have no state. Left out of the modelled parts: texts, names,
colours, sizes and ratios; the text of configs, scripts and requests; cryptography (ideal: a
ciphertext opens with its key and no other); SQLite and the file system beyond what the
code relies on (atomic transactions, writes that may stop short); what the terminal
displays.
