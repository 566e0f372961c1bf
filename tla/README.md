# INFRA-W in TLA+

This directory holds a verification development of INFRA-W, the web workspace
that opens SSH, telnet, Proxmox, RDP and VNC sessions for its users. The modules
are read from the server's source (`src/server`); `PROJECT.json` maps every
definition to the lines it stands for.

1. [Inventory](#1-inventory)
2. [Plan](#2-plan)
3. [Modules](#3-modules)
4. [Runs](#4-runs)
5. [Fairness](#5-fairness)
6. [Proofs](#6-proofs)
7. [Disagreements found](#7-disagreements-found)
8. [What is not modelled](#8-what-is-not-modelled)

## 1. Inventory

The server is one Node process: one callback runs at a time, and every `await`,
timer and socket event is a point where another callback may run. State lives in
maps of that process, in an SQL database (one query is atomic, a controller that
awaits several is not), in recording files, and in `guacd`, a process of its own.
A crash loses the maps and keeps the rest.

| Component | State | Operations | Talks to |
|---|---|---|---|
| **Terminal sessions and sharing** `lib/SessionManager.js`, `controllers/serverSession.js` | session table, share index, per session: connection, sockets, active socket, link with timer, pause flag, last activity, recording | create, install connection, hibernate, resume, share, change permissions, stop sharing, sweep, remove | everything that shows or ends sessions |
| **Dialling** `lib/ConnectionService.js`, `utils/sshClient.js`, `utils/connectionPrompts.js` | login stage, login timer, open question | resolve, log in, ask, open shell, fail, install | session manager, the servers |
| **Terminal sockets** `routes/term.js`, `hooks/*.js` | a waiting loop per socket, attached handlers | wait, attach as owner or viewer, type, close | session manager, browser |
| **WebSocket authentication** `middlewares/wsAuth.js` | none of its own; what it looked up before an await | authenticate owner or viewer | sessions, database |
| **Remote desktops** `lib/ClientConnection.js`, `lib/GuacdClient.js`, `hooks/guacamole.js` | a master connection per session, joined connections, activity clocks | create master, join, wait for master, close, expire | session manager, guacd, recordings |
| **Recordings and audit** `utils/recordingService.js`, `controllers/audit.js` | files raw and compressed, `details` of audit rows | start, finalise, compress, pick up after a crash, expire, delete | session manager, guacd |
| **SFTP** `routes/sftpWS.js`, `routes/sftp.js` | a channel per socket, transfers | list, read, write, move, close | session's SSH connection |
| **Scripts** `lib/ScriptLayer.js` | command queue, open dialog, event log | start, output line, answer, cancel, end | session's stream and sockets |
| **State pushes** `lib/StateBroadcaster.js` | sockets by account and by sign-in, pending broadcasts | register, unregister, broadcast, force logout | all controllers |
| **Sign-ins** `utils/sessionAuth.js`, `controllers/auth.js`, `utils/apiTokens.js` | sign-in rows with expiry, tokens | sign in, resolve, touch, sweep, revoke | accounts, sessions, pushes |
| **Accounts** `controllers/account.js` | accounts: role, lock, password, second factor | create, delete, lock, change role and password | sign-ins, sessions, organizations |
| **Organizations** `controllers/organization.js`, `utils/permission.js` | members with role and state | invite, answer, change role, hand over, leave, delete | entries, sessions, pushes |
| **Identity providers** `controllers/{ldap,oidc,passkey}.js` | providers, pending challenges | start and finish a sign-in | accounts, sign-ins |
| **Inventory** `controllers/{entry,folder,tag,identity}.js` | entries, folders, tags, identities and links between them | edit, move, import, delete | sessions, organizations |
| **Host keys** `utils/hostKeys.js` | known key per host and port | check, accept, forget | dialling |
| **Integrations** `utils/netboxSyncService.js`, `controllers/integration.js` | managed entries, status of the last sync | sync, dry run, apply held removals | inventory, notifications |
| **Backup** `utils/backupService.js` | settings, archives at providers, staged restore | run, apply retention, restore at start | database, recordings |
| **Migrations** `utils/migrationRunner.js` | applied migrations | apply, record, baseline | database |
| **Monitoring** `utils/statusChecker.js`, `utils/notifications.js` | status per entry, running round | check, write, notify | inventory |
| **Process start and stop** `index.js` | what the process is doing | migrate, serve, restore, stop, crash | everything |
| **Secrets**, **browser client**, **vendored guacd** | see section 8 | | |

What is hard about them, and what makes them correct:

* **Sessions.** `remove()` awaits a recording in its middle and may be called by
  five parties at once; sockets attach while it waits; the connection may come up
  after the session is gone. Correct means: nothing of a removed session stays
  open, the three places that describe a share agree, no entry stays in the table
  that nothing will remove, no timer outlives its share.
* **Dialling.** Every stage may fail, be hung up on or outlived by the session; the
  login times out, the way to it (jump hosts, a Proxmox cluster) does not. Correct means:
  every failure removes the session, every waiting browser is answered unless the
  server keeps asking for ever, one question asked of the user never stops the clock for good.
* **Remote desktops.** Several sockets must agree on one master; the last one ends
  the session. Correct means: one master, and the session ends with its last socket.
* **Recordings and audit.** Two callbacks read and write one JSON column; a stop
  leaves raw files. Correct means: a recording that exists can be replayed.
* **File managers.** Several share the connection of a terminal or hand one of their
  own to the session, and await an audit entry while they clean up. Correct means: a
  connection ends with the last thing that needs it, and no session keeps a dead one.
* **Accounts, sign-ins, organizations.** Checks are awaited before the writes they
  protect. Correct means: somebody can always administer the instance; a sign-in that is
  revoked, by locking its account or otherwise, keeps no state socket, and an account without
  sign-ins no connection; an organization has one owner. The code gives each of these up in
  some races, which the properties name and section 7 lists.
* **Integrations, backup, migrations, monitoring.** Work in several steps over
  data that others change, or that a crash interrupts. Correct means: rerunning
  converges, and nothing is lost that a step already reported.
* **Inventory and host keys.** Trees and rows are changed one query at a time by
  requests that overlap. Correct means: folders stay a tree, everything has the owner
  of its folder, and no connection trusts a key nobody decided on.

`PROJECT.json` lists the hazards one by one, each at its line.

## 2. Plan

In this order; each module is a component of its own unless a composition is named.

1. `TermSession` (done): sessions, dialling, terminal sockets, sharing. Abstract
   specification `SessionLifecycle` (done), refinement checked and proved.
2. `GuacSession` (done): remote desktops. One master connection and its joins,
   inactivity, viewers, the last socket, removal with a recording that several
   removals finalise. All its safety properties are proved.
3. `AuditRecording` (done): files and audit details under concurrent writers, with
   a stop of the process anywhere and the clean-up at the next start. Left: an
   abstract recording store to refine, which the code as it stands does not implement.
4. `Accounts` and `SignIns` (done): the table of accounts under overlapping requests;
   sign-ins, what is opened in their name, and what locking, revoking and deleting
   closes. They meet in the composed run `administration`; what a deletion hands over
   is in `Organizations`.
5. `Organizations` and `Inventory` (done): members and ownership; folders and entries.
6. `Backups` and `Startup` (done): retention under overlap and crashes; migrations,
   serving and restore with the process ended anywhere.
7. `HostKeys`, `StatusChecker`, `Integrations` (done), composed with 5 and 6 in the run
   `services`, and `FileSockets` (done), the file managers of a session.

Every invariant and every action property that a passing run checks is proved. Left: that
the abstract promises of more components are refined, beginning with a master connection
for `GuacSession` and a trusted key for `HostKeys`, and that the exceptions named by
properties are needed. Invariants are kept as conjunctions of named parts, and no module
declares a RECURSIVE operator.

## 3. Modules

| Module | What it is |
|---|---|
| `SessionLifecycle` | what sessions and share links promise, without sockets, timers, recordings and dialling stages |
| `TermSession` | terminal sessions, dialling, sharing, browser sockets; its properties and fairness |
| `MCTermSession` | constants for TLC |
| `MCTermClaims` | statements of the documentation about terminal sessions, with one history variable |
| `TermSessionProofs` | types, share index and expiry timers |
| `TermConnProofs` | connections, recordings, dialling, sockets |
| `TermLifecycleProofs` | `TermSession` implements `SessionLifecycle` |
| `GuacSession` | a remote desktop session, its sockets and its connections to guacd |
| `MCGuacSession` | constants for TLC |
| `GuacSessionProofs` | types, the master connection, sockets, the last socket |
| `AuditRecording` | the files of one recording and its audit entry |
| `MCAuditRecording` | what the documentation says of replay |
| `AuditRecordingProofs` | types, files, marks, the source |
| `FileSockets` | the file managers of one session and the connections they use |
| `Accounts` | the table of accounts and the requests that change it |
| `SignIns` | sign-in rows, the state sockets and connections opened in their name, revocation |
| `Inventory` | the tree of folders with its entries |
| `MCAdministration` | these four for TLC, one at a time |
| `InventoryProofs` | the tree and its owners |
| `AdministrationProofs` | sign-ins, accounts, file managers, and the types of all four |
| `Organizations` | one organization, its members and its owner |
| `HostKeys` | the trusted key of one address |
| `StatusChecker` | timers and cycles of the status checker |
| `Integrations` | one integration and the entries it manages |
| `Backups` | making backups and retention |
| `Startup` | migrations, serving, restore |
| `MCServices` | these six for TLC, one at a time |
| `ServiceProofs` | host keys, status checker, start-up, organizations, integrations, backups, and the types of all six |

### TermSession and the code

An action is what the process does between two awaits. A promise that rejects and
the `.catch` that removes the session run in one go and are one action.

| Variable | Code |
|---|---|
| `live`, `index` | `SessionManager.sessions`, `shareIndex` |
| `hib`, `idle` | `isHibernated`; `lastActivity` older than six hours |
| `conn` | `masterConnection` is set |
| `asking` | `awaitingInput` |
| `recording` | `session.recording`: set, taken by the `remove()` that awaits the file, on disk |
| `dial`, `remote` | how far `createConnectionForSession` got: loading, on the way to the login ("reach": jump hosts, requests to a Proxmox cluster), login, question, shell; whether the connection to the server is open |
| `shareId`, `writable`, `timers` | `shareId`, `shareWritable`, timers armed by `startSharing` and neither cleared nor fired |
| `owners`, `viewers`, `active` | `connectedWs`, `sharedWs`, `activeWs` |
| `pc`, `target`, `via`, `polls` | where a socket's handler stands, the session and link it found, its sleeps in `waitForConnection` |
| `net` | `readyState` of the browser socket |

| Actions | Code |
|---|---|
| `Create`, `ResolveOk`, `ResolveFails` | `createSession` up to the unawaited `createConnectionForSession`; its loads; its `.catch` |
| `Reached`, `LoginPrompt`, `PromptSettled`, `DialFail`, `Ready`, `ShellOpen`, `Install`, `RemoteClose` | the event handlers of the three protocols |
| `Delete`, `Cleanup`, `WaitTimeout`, `RemoveFinish` | the callers of `remove()`; the rest of `remove()` after its await |
| `Hibernate`, `Resume`, `GoIdle` | pausing; six hours pass |
| `StartSharing`, `UpdateShare`, `StopSharing`, `ShareExpires` | sharing and its timer |
| `OpenOwner`, `OpenViewer`, `AuthFails`, `AuthOwner`, `AttachViewer`, `Poll` | `wsAuth`, the term route, the hooks |
| `Input`, `PeerClose` | a keystroke; the close event |

`Remove(s, r, n)` is `remove()` up to its await or, without a recording, to its
end; `Drop` is what follows the await. They take the states of connections and
sockets as arguments because a caller may have changed them in the same step.
What happens to a session object after it left the table is kept: closures hold it.

The abstraction keeps all control and drops data: log buffers, tab and browser
ids, terminal sizes and the content of messages decide nothing here.
SFTP sockets take another path: `FileSockets`.

### GuacSession and the code

| Variable | Code |
|---|---|
| `live`, `hib`, `idle`, `owners`, `viewers`, `active` | as in `TermSession`, for one session |
| `prep` | `prepareGuacamoleSession` runs, set `guacReady`, or was rejected |
| `shared`, `writable` | `shareId` is set, `shareWritable` |
| `master`, `mid`, `masters` | the socket whose client is `masterConnection`; `guacdConnectionId` is set; sockets whose client has `isMaster` |
| `recording` | the master is recorded; its file is finalised by a `remove()`; the file is kept |
| `gd` | the `GuacdClient` of a socket: none, connected, closed |
| `pc`, `tries` | where `ClientConnection` or `handleSharedGuac` stands; looks of `checkMaster` |
| `net`, `deaf` | `readyState`; `removeAllListeners()` was called while the clock still runs |

| Actions | Code |
|---|---|
| `PrepareOk`, `PrepareFails` | `prepareGuacamoleSession`, the `.catch` of `createSession` |
| `OpenOwner`, `AuthFails`, `AuthOwner` | `wsAuth`, the guac route |
| `Settle`, `Look` | `initialize` after its await; `checkMaster` |
| `Message`, `Expire`, `PeerClose` | a message, the inactivity clock, the close event of an owner or viewer |
| `OpenViewer`, `AttachViewer`, `ViewerInput` | `authenticateSharedSession`, `handleSharedGuac` |
| `MasterReady`, `GuacdCloses` | `ready` from guacd; `handleClose` of a client |
| `Delete`, `Cleanup`, `GoIdle`, `Pause`, `Share`, `StopSharing`, `RemoveFinish` | the session manager |

Share links and timers are `TermSession`'s subject and a Boolean here. `masterConnectionPending`
is set and cleared in one callback and left out. guacd may get ready or close any connection
at any time, or never.

What the module keeps although it is awkward: a socket whose fifty looks ran out is
closed but stays in `connectedWs`; the leaving of the last viewer never ends a
session; a socket that awaits its settings is not counted, so the reload of a page
may end the session under it; one that arrives after the removal stays open and is
served by nobody; a joined connection that guacd closes leaves its socket open.
No documentation speaks of these.

### AuditRecording and the code

| Variable | Code |
|---|---|
| `kind` | a terminal's `.cast` or guacd's file |
| `session` | listed, being removed by a finalisation, off the table |
| `raw`, `gz` | the raw and the compressed file in `data/recordings` |
| `entry`, `has`, `old` | the audit row, its `details.hasRecording`, its age against the retention |
| `fin` | each `remove()` from `waitForStableFile` or `finish` to `markRecordingComplete` |
| `closing` | `updateAuditLogWithSessionDuration` of each closing socket |
| `service` | the recording service: down, its first ten seconds, pick-up, orphans, hourly sweep |

`details` is read and written back whole by three writers, and one flag of it decides
anything, so a duration written from details that were read before the mark is
`has' = FALSE`. Two finalisations are the normal case: `remove()` closes the sockets, and the
close handler of the last one removes again. `Check`, `Open`, `CopyDone` and `Unlink` are one
`compressRecording`: what it asks, what the thread pool does, the end of the write, what
follows its await. A stop between the last two leaves both files, a failed removal of the
source counts as a failed compression, and a copy that failed halfway stays in its place
(`gz = "failed"`). Two copies write the same bytes, so a file is whole when the last one ends.
Two assumptions about time: guacd ends its file within the five seconds that the code waits,
and the pick-up copies the at most ten seconds of a recording that it can meet faster
than the 600 ms a finalisation waits. The pick-up opens its files in one step; `PickUpDone`
and `PickUpUnlink` are the rest of it.

What the model shows about the code, and no property denies: a finalisation that opens its
files just as another removes their source empties the finished copy; a stop in
the same place loses it; the pick-up cuts a recording that began in the first ten
seconds; a socket's duration can undo the mark; terminals are marked although their
compression failed, and their raw files are never picked up.

### FileSockets and the code

One session, its terminal in four states, and the sockets of `routes/sftpWS.js`.

| Variable | Code |
|---|---|
| `listed`, `paused`, `taping` | the session is in the table; `isHibernated`; `recording`, or a `remove()` that awaits it |
| `master`, `handles` | whose connection is `masterConnection`; its `sftpHandles` |
| `term` | the SSH connection of the terminal |
| `sock` | per socket: where its handler is, `readyState`, `reuseExistingSsh`, its own connection, its channel, `isClosing` and how far `cleanup()` is |
| `installed` | history: the connections that were `masterConnection` |

| Actions | Code |
|---|---|
| `Delete`, `RemoveFinish`, `Pause`, `Unpause`, `ShellOpens`, `DialFails`, `ShellCloses` | the session manager and the terminal's connection |
| `OpenSocket`, `Refused`, `ShareConnection`, `DialOwn`, `CreateClient`, `CreateClientFails` | the handler up to its listeners |
| `OwnReady`, `OwnErrors`, `OwnEnds`, `ChannelOpens`, `ChannelFails`, `CloseEvent` | events |
| `FinishCleanup` | `cleanup()` after the audit log, and what its caller does then |

`FilesSound` names what the code lets happen: a socket that closes before its listeners
are attached leaves its own connection (`deaf`); a channel that opens after `cleanup()`
stays until the terminal ends (`late`); a session that was paused when its file manager left
keeps a connection that ended (`kept`). Reading and writing over a channel decide nothing.

### Accounts and the code

| Variable | Code |
|---|---|
| `role`, `locked`, `name` | the rows: `role`, `disabled`, `username` |
| `req` | per request: its step between two awaits, what it asks, the caller, the row and the role it read |
| `fresh` | history: what the request checked is still true |

`AskAbout`, `AskCreate`, `AskSetup` and `AskSignIn` begin a request behind the checks of
`routes/users.js` or of a directory; `CountSetup`, `LookName`, `LookRow`, `CountAdmins`,
`LookSignIn` and `DirectoryRole` are the reads of the handlers; `Insert`, `Destroy`,
`SetRole` and `SetLocked` the writes. `AccountsSound` says what one request may do to the
table, and excepts exactly those whose check another request made old.

### SignIns and the code

| Variable | Code |
|---|---|
| `account`, `deleting` | the lock; accounts whose deletion has closed their sockets |
| `signIn` | rows of `sessions`: credentials verified, there, ended |
| `use` | a state socket or a connection: `resolveSession` found the row, found the account, open |
| `byAccount`, `bySignIn` | `connections` and `sessionIndex` of `StateBroadcaster` |
| `rev`, `left` | each `revokeSessions` under way; the connections that it, or the deletion of an account, has listed and not removed yet |
| `late` | history: opened when nothing was left to close it |

`FindRow`, `FindAccount` and `Refuse` are `resolveSession` between its awaits; `Register`
and `SocketCloses` the state route; `FindRows`, `Lock`, `FindLocked`, `DestroyRows`,
`LogOutSockets`, `Count` and `RemoveConnections` a revocation; `BeginDeletion`,
`DeleteConnections` and `FinishDeletion` the deletion of an account. `removeAllByAccountId` lists
an account's connections at once and awaits the removal of one after the other. An account
is deleted by one request at a time. The table of connections is seen as open or
closed: `TermSession` and `GuacSession` have what a removal does. API tokens open
connections without a sign-in and are left out.

### Inventory and the code

`folder` and `entry` are the rows with parent and owner (the account or an organization),
`job` the requests with their step, and the recursive ones with a stack of tasks:
`TakeFolder`, `SetFolderOwner`, `SetEntryOwner` and `ListSubfolders` are
`updateFolderContext`, `DropEntries` and `DropFolder` are `deleteFolder`, one query each.
`ReadTarget` and `Walk` are the climb of a move; `SetParent`, `CreateFolder`, `CreateEntry`,
`DeleteEntry`, `EditEntry` and `Reposition` the last writes. A parent may be gone
(no foreign key); a folder of an entry may not.

`TreeSound` excepts what follows a write by a request whose reads are old. `stale` is the
history of that, and `Outdated` says what makes a request old: the owner of a folder that it read
and relies on changed (the folder it moves, the target, the folders on its list and their
parents: `OwnersRead`), or the parent of one that its climb has read (`seen`) or that is on
its list (`ParentsRead`); an entry it copies changed; an entry of its list moved
elsewhere. Deletions, and requests in another part of the tree, make nothing old.

### Organizations and the code

`rank` and `active` are the membership table, `call` the requests: `ReadMembership` and
`ReadOwner` are `effectiveRole`, `ReadTarget` the second read of a handler, `ReadOwn`,
`ReadOrganization`, `ReadJoin`, `ReadOwned` and `ReadOthers` those of requests about
oneself, of directory sign-ins and of `handOverOrganizations`; the others write.
`person` is the account, whose deletion drops its memberships last.

### HostKeys, StatusChecker, Integrations

`HostKeys`: `row` is the one row an address may have, `verify` the connections
(`ReadRow`, then `Trust`, `Mark` or nothing), `decision` the administrators (`ReadDecision`,
`Accept`, `Forget`). Updates are by id, so a row forgotten in between stays away.

`StatusChecker`: `handle` is `statusCheckInterval`, `timers` the intervals that fire,
`restart` the starts that await the settings, `cycle` the runs of `runStatusCheck` with what
they listed and found. Settings that cannot be read are the same as settings turned off:
a cycle clears every status, a start sets its interval. Results are written together; the code
writes them in batches between which nothing is read. When a write fails the cycle goes on,
and those still under way are `late`: `Land` puts each when it will, after the cycle
ended or the checker was turned off too. One cycle at a time leaves such writes.

`Integrations`: `managed` gives each entry its remote item, `sync` is each sync with what
it fetched and found. `Find` to `Synced` is NetBox with held removals, `DestroyAll` and
`CreateEntry` Proxmox, `Schedule` and `Finish` the flag that keeps out a second scheduled sync.

### Backups and Startup

`Backups` counts uploads, so that a larger number is newer; `job` is each backup from packing
to the last deletion. The archive that a failed backup leaves in the temporary
directory, and what an interrupted upload may leave at the provider, are not modelled.

`Startup`: `done` says how far each migration is applied to the database in place,
`recorded` is the table of migrations, `from` and `dir` say where database and directories
come from. Migrations look at each thing they add, or return early when the first is there
(`Guarded`: 0002, 0029 and 0041). 0006 drops a table and renames another; ended
between the two it goes on in a way that is not told apart from an early return.

### SessionLifecycle

A session is absent, connecting, connected or ended, and moves forward only. A link
is issued once, to a session that has not ended and has no other link, and dies for
good when it is revoked or in the same instant its session ends. The mapping:
`phase` from `dial`, `live` and `conn`; `issued` is `spent`; `opens` is `index`.

## 4. Runs

| Run | Instance | States | Shows |
|---|---|---|---|
| `term_session` | 1 session, 2 sockets, 2 links, 2 looks | 258,385 | types; every open attached socket is in the set that a removal beginning now goes through, and one left open by a removal came while it waited for the recording; the active socket is attached; no zombie entry; the installed connection is open and is closed with its session |
| `term_share` | 2 sessions, no sockets, 2 links | 236,643 | share index, links and timers agree; the lifecycle promise is kept |
| `term_live` | 1 session, 1 socket, 1 link, with fairness | 12,429 | a login whose server was reached ends and waiting browsers are answered, unless the server asks for ever; removals complete; idle sessions go from any stage |
| `guac_session` | 1 session, 3 sockets, 2 looks | 460,588 | types; one master connection at guacd, gone with its session; no joined connection without its socket; every open socket registered, and one left open by a removal came while it waited for the recording; a session is ended by its last socket only |
| `guac_live` | 2 sockets, 2 looks, with fairness | 40,660 | waiting sockets are served, dead ones found out, removals complete |
| `audit_recording` | 1 recording, 2 removals, 2 sockets, 2 stops, with fairness | 38,876 | types; a terminal's recording is never lost; desktops are marked only after a copy; a source goes only when a copy is there, or another call is writing or has spoilt it; finalisations end; expired recordings go |
| `administration` | accounts: 3 rows, 2 names, 2 requests; sign-ins: 1 account, 2 rows, 2 revocations, and 1 tab with 1 connection or 2 connections; inventory: 2 requests, and 2 folders with 2 entries or 3 folders with 1 entry; 2 file managers | 2,343,796 | but for the exceptions that the properties name: overlapping requests leave an administrator and distinct names; revoked sign-ins keep no socket and an account without any no connection; the folders stay a tree with one owner below each; file managers release what they opened and sessions hold no dead connection |
| `services` | organizations: 3 people, 2 requests; host keys: 2 keys, 3 connections, 2 decisions; checker: 2 hosts, 2 cycles, 2 restarts; integration: 3 entries, and 2 items with 2 syncs or 3 items with one sync at a time; backups: 2 jobs, 4 uploads, retention 1 or 2; start-up: 3 migrations, 2 of them guarded, 2 directories | 672,039 | but for the exceptions that the properties name: an organization keeps its owner; keys are pinned; nothing comes back once the checker is off, no host is told twice; syncs leave one entry per item and hold large removals; a backup goes only for enough newer ones; what serves is migrated and whole |
| `claim_share`, `claim_idle`, `claim_lock` | 1 session | | counterexamples to three statements of the documentation (section 7) |
| `claim_replay` | 1 recording, 1 stop | | counterexample to the documentation on replay (section 7) |

Why the bounds are enough. Sessions meet only in the share index, so sockets need
one session and the index needs two. Two sockets are an owner and a viewer, two
owners or two viewers: one to be active, one to take over or to leave. Two links
make a share, its end and a second share of the same session, which is what an old
timer could spoil; they are spent, never reused, as random ids are. `MaxPolls`
stands for the fifty looks of `waitForConnection`: two already give a first look, a
last look and the removal without a look. The timers counter is bounded because
the code clears before it arms, which `ShareSound` checks. Deadlock checking is
off: a session that ended and sockets that closed leave nothing to do.

A remote desktop session shares nothing with another one. Three sockets are the one
that makes the master connection, one that joins or waits, and one that watches or is
late; `MaxAttempts` is 50 in the code and 2 here, a look that goes on and the last one.

Two removals of a recording are one that finalises and one that finds the same
connection; two stops are one in the middle of anything and one in the clean-up
after it.

`administration` and `services` hold modules that share no variable. A variable `part`,
chosen at the start, names the one that runs while the others stay idle: the state
space is the sum of theirs, and every property is checked on all of it. The parts share
model values where that is harmless, which keeps the symmetry group small. What their
bounds give: two requests are one that reads and one that changes what was read; three
accounts are the two administrators that act on each other and a bystander; two folders
make a cycle and a subtree; two sign-ins of one account are the last and the one before
it; two revocations count each other's rows; two file managers are one whose connection the
session has and one that came second; three connections to one address are two
first ones and one with another key; three entries for two items are one entry too many;
with two connections a removal can be interrupted between them, and by a sign-in; three
folders are a path that a climb reads in two steps while another folder on it moves;
three items are needed for a removal that exceeds both limits of the review (`Limit` is 1 for
the 5 of the code, `Share` 2 for its 10: more than one entry and more than half) and still is
not of everything (one whose number is above the first limit only does not occur with three,
and is left to the theorem `SyncsSound`); four uploads are two jobs that each find something
to delete; three migrations are a guarded one first and last and a plain one between
them. An identifier of a request serves once (in `SignIns`, `StatusChecker`, `Integrations` and `Backups` again), and Init holds every
state that earlier requests may leave, so two at once are what a long history could
bring. Deadlock checking is off where requests run out.

Symmetry of sockets, links, sessions, requests and names is used in the safety runs only.

Each property of a passing run has a mutant in `PROJECT.json`, a bug this code could
have, under which TLC finds it violated.

## 5. Fairness

`Fairness` in `TermSession` names what the process does by itself. Weak fairness:
database answers (`ResolveOk` or `ResolveFails`, `Install`, the authentication of a
socket), the two minutes of a question (`PromptSettled`), a recording file that is
flushed (`RemoveFinish`), the sweep every thirty minutes (`Cleanup`), the
100 ms sleeps (`Poll` or `WaitTimeout`) and the thirty-second timer of a login
(`LoginOver`). Each question stops that timer and starts it again, and nobody limits the
number of questions: a server that keeps asking for ever (`AsksForever`) holds
its login, and whoever waits for it, and `LoginEnds` and `WaiterServed` except it. The way to the
login has no timer at all (`pve.js:19`, `pve.js:30`, `sshClient.js:35-46`): nothing is
assumed of the stage "reach", so `LoginEnds` speaks of logins whose server was reached, and
a session that never gets there is reaped by the sweep (`IdleReaped`, in any stage). Nothing is
assumed of users either, of the server's answer to the shell request, which has no timer in the
code, or of share expiry, which an owner may put off for ever.

`Fairness` in `GuacSession` assumes the same of database answers, the settings, the
100 ms looks, the recording file and the sweep, that a socket which was closed
reaches the closed state (the web socket library cuts it after thirty seconds), and
that the inactivity clock of a closed socket runs out: it can send nothing any more.
Nothing is assumed of guacd, of users, of viewers or of an open socket.

`Fairness` in `AuditRecording`: finalisations that began and the recording service go
on, guacd ends its file once cut off, and a process that stopped is started again
(the container is). Copies may fail for ever.

The modules of `administration` and `services` state safety only and
assume no fairness.

## 6. Proofs

Checked by TLAPS for all values of the constants that the modules' assumptions allow; TLC
evaluates those of its modules on every run. They say what ids are and no more: markers (`NoSession`,
`NoSocket`, `NoLink`, `Root`, `Nobody`, `Free`, `NoKey`, `Nothing`) are no ids, ids
of different kinds that meet in one set differ (`IdsApart`, `KeysApart`, `FilesApart`),
and counts and limits are numbers (`PollAssumption`, `AttemptAssumption`, `StopAssumption`,
`TimersAssumption`, `BackupsAssumption`, `IntegrationsAssumption`, `MigrationsAssumption`).
No theorem has another hypothesis.

| Theorem | States |
|---|---|
| `TermSessionProofs!TypeCorrect` | `Spec => []TypeOK` |
| `ShareExact` | `Spec => []ShareSound` |
| `NoZombies` | `Spec => []NoZombieSession` |
| `Usable` | `Spec => []ConnectionUsable` |
| `Released` | `Spec => []InstalledReleased` |
| `SocketsFound` | `Spec => []AttachedRegistered` |
| `TermConnProofs!ActiveServed` | `Spec => []ActiveAttached` |
| `LifecycleImplemented` | `Spec => ImplementsLifecycle` |
| `GuacSessionProofs!TypeCorrect` | `Spec => []TypeOK` |
| `MasterUnique` | `Spec => []OneMaster` |
| `JoinsReleased` | `Spec => []JoinsHeld` |
| `SocketsKept` | `Spec => []OpenRegistered` |
| `GuacSessionProofs!ActiveServed` | `Spec => []ActiveAttached` |
| `LastLeaves` | `Spec => LeavingSparesOthers` |
| `AuditRecordingProofs!TypeCorrect` | `Spec => []TypeOK` |
| `TerminalSafe` | `Spec => []TerminalKept` |
| `MarksEarned` | `Spec => []MarkedCopied` |
| `SourceSafe` | `Spec => SourceKept` |
| `SignInsTypeCorrect` | `SignInsSpec => []SignInsTypeOK` |
| `SocketsRevoked` | `SignInsSpec => []SocketsFollowSignIns` |
| `ConnectionsRevoked` | `SignInsSpec => []ConnectionsFollowSignIns` |
| `AccountsTypeCorrect` | `Accounts!Spec => []TypeOK` |
| `AccountsKept` | `Accounts!Spec => AccountsSound` |
| `FilesKept` | `FileSocketsSpec => []FilesSound` |
| `TreeKept` | `InventorySpec => []TreeSound` |
| `AdministrationTypeCorrect` | `AdministrationSpec => []AdministrationTypeOK` |
| `KeyPinned` | `HostKeysSpec => PinnedKey` |
| `CheckerKept` | `StatusCheckerSpec => []CheckerSound` |
| `StartupKept` | `StartupSpec => []StartsWhole` |
| `OwnersKept` | `OrganizationsSpec => OwnerKept` |
| `SyncsSound` | `IntegrationsSpec => SyncSound` |
| `BackupsKept` | `BackupsSpec => BackupKept` |
| `ServicesTypeCorrect` | `MCServices!Spec => []ServicesTypeOK` |

*Types.* `TypeOK` is not inductive: `WaitTimeout` removes the session `target[k]`,
which must exist, and `Look` counts up `polls[k]`. `SocketsAimed` adds that a socket
past its opening has a session and that a socket being authenticated has not slept
yet; the conjunction is `TypeInv`.

*Sharing.* `ShareInv` adds to the two invariants that a session outside the table
has no link and that every link in the index was handed out before. The first is needed where a
timer fires after the removal, the second where `startSharing` puts a new link into
the index: only an unspent link is certain not to lead elsewhere. `remove()` is one
lemma (`RemoveShareInv`), used by every action that removes.

*Connections.* `ConnInv` describes each session by its dialling stage: what
`recording`, `conn` and `remote` may be in it. `RemoveEffect` says what `remove()`
does to that description; each caller then starts from a description it knows.

*Sockets.* `RegInv` adds to `AttachedRegistered` and `ActiveAttached` that only owners wait
for a connection (a viewer that waited would be attached as an owner), and that a session
nobody created has no sockets: a session that is created must begin with empty sets.
`AttachedRegistered` also says which sockets a removal may miss: those of a session that is
gone are open only if a recording was awaited (`recording = "kept"`). Most
actions open, attach and detach no socket (`Quiet`) and are one lemma.

*Refinement.* Every action is matched with `Begin`, `Connect`, `End`, `Issue`,
`Revoke` or a stutter. The invariants above are what makes the steps match: `End`
must take every link of the session with it, which `Drop` does for one link only,
and `Issue` must find a fresh link.

*Remote desktops.* `OneMaster` is not inductive: it says nothing of a session that
has no master yet, of which a socket made before might still hold one. `MasterInv` says that
a live session has at most one socket that ever made a master connection, and which.
`SocketInv` is the conjunction, per socket, of being held, registered and heard;
`RemoveSocket` and `LeaveSocket` carry it through `remove()` and `close()`, which may
run in the middle of another action. `LastLeaves` needs it: `close()` counts
registered sockets, and only `OpenRegistered` makes that a count of the open ones.

*Recordings.* `TerminalInv` adds to `TerminalKept` that a terminal's recording is finalised
once and never picked up, so that nobody else touches its files, and what is there at each
stage: the source until the copy ended, the copy from then on. `MarkInv` extends `MarkedCopied` to finalisations that are about to
mark. `SourceSafe` (`MayGo`: what allows a source to go) needs `DeleteInv`: a compressed file that vanished while somebody
copies into it was deleted by retention or as an orphan, so the copier that then
removes the source may.

*Sign-ins.* `SignInsInv` adds to both properties that every row that was made has its
account, that what is asked, open or being revoked names such a row (a revocation counts the
owners of its rows, who must exist), and that the deletion of an account closed everything,
or has it on its list (`left`), that was not opened too late. `Removed` and `RemovalShape` say what
one step of a removal does, to whichever list it works on.

*Accounts.* `AccountsSound` speaks of steps; `Checked` says what a request that is still
fresh has checked and found, and so why its write is harmless. Three lemmas carry
it: reads keep what others checked (`ChecksKept`), a fresh write leaves administrators and
distinct names (`WriteSound`), and a request ends at "write" only by writing (`EndsByWriting`).

*File managers.* `FilesInv` is `FilesSound` read per socket (`Held`), what each stage of a
handler may hold (`Staged`), and what the session holds (`MasterKnown`: the terminal's
connection, once installed and open, is the session's). `Near` says what `remove()` and the
end of a shared connection do to a socket, so that one lemma (`RemoveKeeps`) covers every
caller of `remove()`, inside `cleanup()` too.

*Services.* `HostKeysInv`: what a check read is what is there, unless it is known to be old,
and a key that waits is one a connection was refused with. `CheckerInv`: one cycle is at work when
`isRunning` is set, what it listed and what was told before agree with the statuses as far as no
late write is to come or has landed, and the timers are those the handle names. `MigrationsInv` and
`RestoreInv`: what is recorded is applied or partial, in order; which directories are
replaced already.

*Folders and entries.* `TreeSound` is far from inductive: while a move between owners works
through a subtree, owners differ on purpose. `InventoryInv` says what each request knows
(`JobSound`: which owner it read, where its climb has been, that the entries and subfolders of a folder still to be changed are
on its list too), and that each difference of owners is explained by a
move that will still settle it (`FoldersExplained`, `EntriesExplained`). A climb is described
without recursion (`Traced`): the folders it has read hold the target and not the folder that
moves, and are closed under parents but for the one it reads next. At its end they are closed,
and so the move makes no cycle; `NoCycle` is stated by closed sets likewise. What a request knows may be wrong once another
changed what it read (`stale`); a write it makes then is the exception that
`TreeSound` names, and until that write comes a stale move explains nothing (`Doomed`).
The lists of a move are sequences; `AwaitFirst`, `AwaitFolder` and their like say what is
left on one after a query, and no proof looks at positions.

*Organizations.* `OrganizationsInv` says what each step of a request checked (`StillTrue`), if no
request that wrote since made it old (`recent`), and that nobody is a member before the organization
exists. `OwnerKept` excepts the requests whose checks are old; that one owner
stays one (`OneOwner`) it asks only of a step that finds one.

*Integrations.* For a sync that nothing overlapped, `Applying` relates half of its work to the
whole: what is shown is what it found and what it has made by now, and it
removes either nothing or all that is outdated, which is then harmless (within the limits) or
allowed. `OneEach` makes counting entries the same as counting items (`AsMany`).

*Backups.* A backup that is planned to be deleted has `least` newer ones (`BackupsInv`), which
no other deletion takes away since each job spares the newest. That undisturbed
jobs leave no more than the retention needs the last one to list: either somebody has still to list,
or all that is too many is planned already.

*Side by side.* `PartsAlone` (one for `MCAdministration`, one for `MCServices`): a step of the
composition is a step of one part and none of the others, so each part's theorems hold
there.

Only model-checked: liveness, which with fairness and ENABLED is beyond the prover; and that
the four statements of section 7 do not hold. No
recursive definition and no induction over data occurs in these modules; that the
numbers are well-founded is used once, for the oldest of the backups.

## 7. Disagreements found

* `ViewerHasLink` (`docs/workspace.md:70`, links stop working): a viewer whose
  entry is still being loaded when its link dies is attached afterwards and is
  closed by nobody while the session lives.
* `OnlyInactiveCleaned` (`docs/workspace.md:81`, six hours without activity):
  typing in a terminal does not count as activity.
* `RemovedDisconnected` (`docs/administration.md:32`, locking closes connections):
  a session removed while it dials leaves the connection that comes up open.
* `ReplayOffered` (`docs/organizations-and-audit.md:84`, entries with a recording have
  a replay button): what the pick-up after a stop compresses is never marked, so it
  is neither offered nor deleted by the retention.

Some properties of passing runs except races that the code has. No run shows these
as violations, and each exception is written in the property, so that what is not excepted is
shown. A reader should know them:

* `AccountsSound` excepts a request whose check another one made old.
  `docs/administration.md:36` says that one cannot lock the own account, "so at least one
  administrator always stays active". Two administrators who lock each other at once leave
  none, and so does an administrator who deletes the own account while the others are locked
  (`deleteAccount` counts those). Two requests, or a request and a directory sign-in, that look at
  one user name at once both create it.
* `ConnectionsFollowSignIns` excepts a connection that is listed after the last sign-in of its account
  went, or while the account is deleted: `createSession` awaits several queries after the
  sign-in was resolved (`serverSession.js:88`), and the removal works from a list it made
  earlier. It stays open until somebody ends it or the sweep does, although
  `docs/administration.md:32` says that locking closes connections.
* `SocketsFollowSignIns` excepts a state socket that was registered after its row went
  (`state.js:14`): it was resolved before, and stays open.
* `AttachedRegistered` and `OpenRegistered` except a socket that attaches while the removal of its
  session awaits the recording (`SessionManager.js:253-256` and `:270`): nobody closes it.
* `OwnerKept` excepts a request that writes after another changed the owners, created or deleted
  the organization, or ended a membership (`recent`): a successor who left or whose account was
  deleted after it was read leaves an organization without owner (`organization.js:298`), a
  transfer during the hand-over of a deleted account leaves two, and a directory sign-in
  writes back the rank it read (`organization.js:325`), over a transfer into a second owner.
* `TreeSound` excepts what follows a write by a request whose reads are old (`Outdated`, section 3): a
  folder moved behind a climb that has already read it closes a cycle (`folder.js:240`), in which the
  recursive requests that come later never end; a target that changes its owner between the read
  and the write leaves a folder or entry of another owner in it (`entry.js:592`).
* `PinnedKey` excepts a key that a connection marked again after it was accepted (`moved`).
* `CheckerSound` excepts the writes that a cycle with failed writes left behind (`landed`:
  they put a status back after all were cleared, `statusChecker.js:80-91`), and two
  starts that cross, of which one leaves an interval nobody can stop (`crossed`,
  `statusChecker.js:174`).
* `SyncSound` speaks of syncs that nothing overlapped and that did not fail (`alone`): two that overlap
  give an item two entries (`netboxSyncService.js:135`), a Proxmox sync that fails leaves what it
  had built so far (`integration.js:406`).
* `StartsWhole` excepts a restore that was cut off (`cut`) and a migration that returns early
  after it was (`partial`).
* `FilesSound` names a close that came before the listeners, a channel that came after
  `cleanup()`, and a session paused meanwhile (section 3).

## 8. What is not modelled

The modules cover the server's decisions, which are a small part of its text. Most of the
repository is the browser client (its messages are the inputs of the modules),
vendored C code (guacd's answers are the environment of `GuacSession`), tables of settings,
validation, formatting and migrations that add columns.

Of the server:

* *Scripts* (`lib/ScriptLayer.js`): one object between a terminal and its socket, driven by
  synchronous callbacks. What it types, finds in the output and shows is text; answers
  carry no identity; nothing runs beside it.
* *HTTP file transfers* (`routes/sftp.js`): one request, one connection or channel, opened and
  ended in the same handler. What they write is I/O.
* *OIDC and passkeys* beyond what they do to accounts: a challenge is a row or an entry of a map
  that is taken once.
* *Tags, identities, assignments, preferences, monitoring data*: single updates of rows on
  which no other decision rests.
* *Secrets and encryption*: no state. *Notifications, probes, reading remote inventories,
  backup providers*: I/O, a choice of outcomes in the modules that call them.
* *Broadcasts* of `StateBroadcaster`: debounced pushes of data read afresh; nobody
  decides on them.

A component is *partly* modelled in `PROJECT.json` when such data or I/O of its files is left out;
its note says what.
