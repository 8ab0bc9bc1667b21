# A TLA+ model of ssh-control

ssh-control is a terminal program that keeps SSH servers, credentials and
scripts in one encrypted file, the *vault*, and connects to them: shells (full
screen or in a pane), scripts over exec channels, port forwards, file transfer
over SFTP. This directory holds TLA+ modules translated from its source, the
configurations that check them with TLC, and theorems checked by TLAPS.
Paths below are relative to the crate (`src/...`); "README" means the
repository's own.

## 1. Inventory

| Part | State it keeps | Operations | What is hard | What makes it correct |
|---|---|---|---|---|
| Vault life cycle (`app.rs`, `config/store.rs`, `config/keyslot.rs`) | `config.enc`, the `Unlocked` image of each running copy, the screen | start-up, setup, password / silent / code unlock, lock, edit and save, change of password or mode, migration of a "TOTP only" vault | two copies, crashes, a failing save or keyring between two effects | no lost edit, a way in always exists, memory and disk agree |
| Vault lock (`config/lock.rs`) | the flock on `config.enc.lock` | claim (never waits), release by process end | two copies | one copy at a time has a vault open |
| Keyring entry (`config/device.rs`) | device key, TOTP secret, replay step, failures, last password check | read, write, delete: each may fail | read-modify-write, entry lost, two copies | the entry is the other half of the device slot |
| One-time-code gate (`totp.rs`, `app.rs`) | the counters in the entry | code accepted, replayed, invalid; escalation | restarts, crashes, a clock set back, a lost entry | a code is spent once under one entry, guesses are bounded |
| Atomic write (`config/store.rs`) | file, `.tmp`, directory | create, write, sync, rename, sync directory | crash or power failure between two calls | all or nothing |
| Envelope, slots, schema (`config/format.rs`, `keyslot.rs`, `migrate.rs`) | none | encode, decode, migrate | truncated or newer input | round trip, newer is refused |
| Config data (`config/model.rs`, the edit handlers of `app.rs`) | servers, scripts, forwards, preferences | add, edit, delete, import | a failed save, dangling jump references | memory = disk or undone, references resolve |
| Setup and settings wizards (`tui/setup.rs`, `tui/settings.rs`) | step, typed secrets | keys, submit | retry after a failed submit | a wizard can be finished or left |
| Connect and jump chain (`ssh/session.rs`, `ssh/client.rs`, `session.rs`) | handles of the hops, host-key outcome | build chain, dial, authenticate, record | cycles, time limits, Esc, edits during awaits | every hop checked, the record goes to the right entry |
| SFTP client (`ssh/sftp`) | stream, next request id | request / reply | late replies, desynchronisation | a reply answers its own request |
| Transfer (`ssh/transfer.rs`, `tui/overwrite.rs`, `app.rs`) | plan, `.part` files | walk, resolve conflicts, copy, replace, cancel | failure of one step of several | no file lost, no `.part` left, honest summary |
| Script runner (`ssh/script_runner.rs`, `app.rs`) | results of the steps | run, skip, time out, several targets | early end of a channel | a step runs only when its condition held |
| Forwards (`ssh/forward.rs`, `forward/socks.rs`, `ssh/client.rs`) | listeners, tasks, routes | start, accept, tunnel, drop | life times of tasks | no listener outlives the session, only asked-for routes |
| Session pane, PTY bridge (`tui/session_pane.rs`, `ssh/pty_bridge.rs`) | prefix state, emulator, stdin mode | key, tick, data, exit | a key racing the tick, exit racing output and unread keys | every key that is read sent once and in order |
| Terminal guard (`terminal.rs`) | screen mode, `primary_dirty` | suspend, resume, restore | fatal signal against Drop | the terminal is restored |
| Probe, ssh_config import, command line | none of their own | exec and parse; parse; drive `App` | | |
| Screens, theme, i18n, help, forms | typed text, selection | edit text, wrap, scroll | a focus that is off the screen | the field typed into is shown, its edit is saved |

How they interact. `App::run` is one task: it polls the keyboard, calls one
handler, and waits for it. Handlers of the vault are synchronous, so within one
process they never interleave; between *processes* they do, through the file,
the flock and the keyring. Connection flows are `async`: while they await, the
screen is redrawn and Esc cancels, but no other key handler runs; what they
learn (host keys, probe results) is saved into the vault afterwards. Forwards
and remote routes run as tokio tasks beside the session.

`PROJECT.json` lists every component with its status, and the hazards at their
lines, including those no property covers.

## 2. Modules

| Module | Role |
|---|---|
| `Vault` | the file, flock, keyring entry and old secret file, shared by any number of running copies; every vault handler of `app.rs` |
| `Ledger` | abstract: a growing set of edits with one owner at a time; what `Vault` implements |
| `MCVault`, `VaultProofs` | symmetry for TLC; theorems about `Vault`: who owns it and what is kept, and that it can be opened |
| `AtomicFile` | `write_file_atomic`, one system call per step, over inodes and names |
| `Register` | abstract: a register with whole contents; what `AtomicFile` implements |
| `MCAtomicFile`, `AtomicFileProofs` | its TLC instance and its theorems |
| `TotpGate`, `TotpGateProofs` | the counters of mode 4 and the code handlers, with a clock; theorems |
| `SftpClient` | one request in flight over a server that may be late or silent |
| `FileTree` | a directory tree and what a server does with one request |
| `Files`, `FilesProofs`, `CopyProofs` | the file browser and its transfers, over `SftpClient` and two `FileTree`s; theorems about the client and the flows, and about what a transfer leaves on the two sides |
| `SshConfig`, `Roster` | the parser of `~/.ssh/config`; the config in memory, the rows of the menu, jump candidates, the chain of hops |
| `Desk` | the unlocked app between sessions: menu, forms, lists, settings, import, each with its save |
| `Pane` | the prefix keys of the session pane, and the figures in its title |
| `Session` | connecting, forwards, scripts, both kinds of shell, runs on several servers |
| `App`, `AppProofs`, `RunProofs`, `ScreenProofs` | `Desk` and `Session` as `App::run` has them: a key, or a step of the flow it waits in; theorems about the vault, about the flows, and about the screens and what they edit |
| `Envelope` | the bytes of the vault file, key slots, the schema gate |
| `Wire` | the SFTP packets and replies, the listing loop |
| `Wizard`, `Locks` | the setup and settings screens; the lock screens and the command line's prompts |
| `Forms`, `RunLog`, `Keys`, `Tty` | the three forms; the log of a run; the bytes of a key; the terminal guard |
| `Panels`, `Socks`, `Probe` | what of a form or a dialog is on the terminal; the SOCKS5 handshake byte by byte; what is read of a host's probe |
| `MCFiles`, `MCApp`, `MCScreens`, `MCPanels`, `MCTotpGate` | instances for TLC, and the assumptions on the pure modules |

`Vault` saves in one step because `AtomicFile` shows that a save under the
flock is one step of a register. `Vault` leaves the counters of the keyring
entry out (an escalation may happen whenever the code screen is built);
`TotpGate` leaves out whether the device key fits and has the counters. In
`Vault` an edit is one action with its save; `Desk` has one action for each
handler that edits, and leaves the lock and the keyring to `Vault`. `App` goes
into the file browser and out of it in one step each; `Files` is what happens
in between.

The modules from `Envelope` on are pure: operators over a state, with no
VARIABLES. What they promise is assumed in an MC module for every input within
small bounds (`ASSUME`), which TLC evaluates whenever it runs that module.

### Vault

One state of `Vault` is the disk (`vault`, `entry`, `secretFile`), the flock
(`lock`), and for each copy its screen (`ui`, from `AppState`), its open image
(`mem`, from `UnlockedState`) and the handler it is in: `pc[i]` is the next
effect of that handler, `work[i]` and `held[i]` its local variables (the
`Unlocked` value and the `DeviceState`). A handler is split exactly at its
effects on shared things: the claim of the lock with the read that follows it,
each save, each keyring call, the removal of the old secret file. Between two
such steps another copy may act and a crash may fall.

An envelope is a record of what the properties can tell apart: format v1 or
v2, a schema newer than the build, the secret behind the password slot, the key
behind the device slot, whether TOTP is enrolled, and the set of edits. The
master key never changes and every slot wraps it, so it is not represented: a
secret or device key opens the vault iff it is the one in the slot on disk.

| Action | Code |
|---|---|
| `Launch`, `Lock`, `Resolve`, `ResolveEntry`, `ResolveOpen` | `App::new`, `auto_lock_if_idle`, `resolve_initial_state`, `device_backed_initial_state` |
| `TryUnlock`, `Reconcile`, `RecordCheck`, `ReenrolSave`, `ReenrolUndo` | `try_unlock`, `ConfigStore::load` with `upgrade_v1`, `reconcile_device_state` |
| `SubmitCode`, `CodeAccepted`, `CodeRefused`, `CodeOpen` | `try_totp_daily_unlock` |
| `CreateVault`, `CreateInit`, `CreateTotp`, `CreateUndo` | `create_vault`, `init_slots` |
| `MigrateLoad` ... `MigrateUndo` | `migrate_totp_only` |
| `Edit`, `ChangePassword`, `ChangeMode`, `ModeSave`, `ModeClean`, `ModeUndo` | every handler that edits and saves, `change_master_password`, `change_security_mode` |
| `Quit`, `Crash`, `EntryLost` | the end of the process, a cleared keyring or a vault carried to another machine |

`Faults` says which failures the environment may produce: a save, a keyring
read, write or delete, the removal of the secret file, a crash, a lost entry.
The state space starts from nothing (`FreshInit`) or from a vault of any shape
an earlier run can have left (`ExistingInit`).

### AtomicFile

Files are inodes; `config.enc` and `config.enc.tmp` name inodes, a descriptor
keeps its inode. `onDisk` is the set of inodes the name may have after a power
failure: a rename adds one, flushing the directory leaves one. `flushed` says
whether a content survives a power failure; what does not comes back `Torn`.
A process may be killed between any two calls. Every error path of the code is
a disjunct, with the ignored errors of `remove_file` and of the directory flush.

### TotpGate

Time is counted in TOTP steps and the code of a step is its number. `held` is
the `DeviceState` a handler has read and changed in memory and will write back
whole. `Faults` adds crashes, a lost entry, a clock set back; `"race"` lets two
copies be between a read and its write together, `"write"` lets the write of
the entry fail (the code ignores its error). `spent`, `forgotten` and `answers` are
history variables no action reads. `spent` has the codes that were accepted under the
present entry; when `reconcile_device_state` makes a new one for a lost entry it takes
over the vault's TOTP secret and starts from replay step 0, so the codes of the old
one are not void: `Enrol` moves them to `forgotten`.

### SftpClient, FileTree and Files

A request has an id and a ghost number; a reply is matched by its id alone, as
in `SftpClient::request`. A call that hits its time limit leaves its reply on
the way, or the stream cut inside a reply (`torn`). A server may answer late,
in any order, or not at all.

`Files` drives it: `pc` names what the flow awaits, `job` is the plan and the
summary of a transfer, `lister` a listing. Each of the two sides is a tree with
its `.part` files. The server carries out requests one at a time, and may
refuse any of them; the connection may be lost at any step.

| Action | Code |
|---|---|
| `OpenFiles`, `Login`, `FallBack`, `FirstListing`, `Back` | `open_files_flow`, `FileBrowserState::new`, `remember_browser_dirs` |
| `Opendir`, `Readdir`, `Closedir`, `ListingShown` | `list_dir`, `list_remote_flow`, `drop_remote_if_fatal` |
| `SwitchPane` ... `Refresh` | the keys of `file_browser.rs` |
| `Transfer`, `Visit...`, `Sized`, `ExistsAnswered` | `transfer_flow`, `plan`, `walk_local`, `walk_remote`, `push_file` |
| `Decide`, `AllDecided` | `resolve_conflicts` |
| `EnsureDir` ... `Renamed`, `CleanUp` | `run`, `ensure_dir`, `copy_file`, `upload`, `download`, `cleanup` |

### Desk, Session and App

`mem` is the config in memory and `disk` the one the next unlock reads; every
edit saves the whole config, and `\E ok \in BOOLEAN` says whether that worked.
`Keep` is a handler that keeps the change when it did not, `KeepIfSaved` one
that takes it back. `screen` and `menu` are the screen that is shown.

| Action | Code |
|---|---|
| `MoveSelection` ... `EscapeFilter`, `CycleServerSort` | `main_menu.rs`, `cycle_server_sort` |
| `SubmitForm`, `ConfirmDelete`, `SubmitScriptForm`, `ConfirmDeleteScript`, `ToggleForward`, `SubmitForwardForm`, `ConfirmDeleteForward` | the edit handlers of `app.rs` |
| `SaveSetting`, `ImportSshHosts` | `set_auto_lock`, `set_connect_mode`, `import_ssh_hosts` |
| `Back`, `FilesBack` | `back_to_menu` |
| `Connect`, `Dial`, `Authenticate`, `ConnectTick` | `connect_flow`, `pane_connect_flow`, `Target::from_entry`, `open_hop`, `authenticate`, the tick of `await_redrawing` |
| `StartForward` ... `CloseConn`, `PushedChannel` | `forward::start`, `socks::handshake`, `server_channel_open_forwarded_tcpip` |
| `SkipStep` ... `ScriptsDone` | `run_script` |
| `StartShell` ... `RemoteEnds`, `Tick` | the loop of the pane, `poll_pane_keys`, `run_interactive`, the probe and the poll |
| `RunScript`, `NextTarget`, `RunEnds`, `RunTick` | `run_script_flow`, `poll_run_keys` |
| `TypeKeys`, `BridgeKeys`, `ReadKey`, `IgnoreKey` | the terminal's queue of keys; the stdin of `run_interactive`; the key `App::run` reads next |

`HandleKey1` and `SessionNext` exclude each other by `pc`: `App::run` waits in
one handler at a time. Within a flow the far end, the tick and the keys of the
pane interleave freely. `typed`, `shown` and `conns` carry what the properties
need to remember.

`kb` is what the terminal holds and nobody has read. While a flow waits, its tick drains
it: all of it, for Esc, for the pane or for the run screen; during a fleet's connect,
between a full-screen connect and its shell, and while that connect still waits for the
probe, nothing does. A flow that ends
by itself (the exit status, EOF or close of a channel, a refusal, a connect that
returns before the next tick) leaves what is in it, and the screen the flow goes back
to reads it key by key: every action of `Desk` that is a key (`DeskKey`), `Connect` and
`RunScript` take the oldest key that waits, and `IgnoreKey` is one the screen does
nothing with. Which key does what on a menu is not told apart, so a key that waits may
be any of them, as may one typed now. `Reset` is what goes with the flow's frame (the
handle, the forwards, the pane, the job); the keys, the buffer on screen and `App.live`
are not part of it, and each way out of a flow says what becomes of them.

## 3. Runs

| Run | Instance | Question and answer |
|---|---|---|
| `vault_pair` | 2 copies, 2 passwords, 1 edit, 4 keys, every fault, existing vault | Is the flock enough? `OpenVaultHoldsLock`, `NoLostEdit`, `PasswordSlotStays`, `NewerVaultUntouched` hold and the copies implement `Ledger`. |
| `vault_migrate` | 2 copies, 5 keys, every fault but a crash and a failing discard, from nothing or from anything | `MigrationCanFinish`: while the old secret file is there, the migration screen opens the vault, whatever failed. |
| `vault_reach` | 2 copies, 3 keys, writes succeed, fair | `NeverStranded`: a password slot, or a device slot whose key is in the keyring; `HandlersReturn`: no handler waits for the other copy. |
| `vault_calm` | 1 copy, 2 passwords, 2 edits, writes succeed | Over long sessions `SlotsMatchDisk` (the slots in memory are those on disk) and `EntryMatchesVault` (the entry fits the device slot and the mode). |
| `file_write` | 2 processes, 3 contents, 4 inodes | `OldUntilRenamed`, `SavedOnceRenamed`, and `AtomicFile` implements `Register`, through kills and power failures. |
| `totp_gate` | 2 copies, limit 2, age 1, skew 1, clock 2 to 4; crash, lost entry, clock back | `CodeSpentOnce` (while the keyring keeps the entry), `GuessesBounded`, `NothingBurned`. |
| `files` | 6 pairs of trees, 2 chunks, 5 ids, 2 keys, 1 fault, fair | Whatever is late, refused or lost: `OwnReply`, `DesyncEnds` (a listing on a stream out of step fails for the stream, and the session goes with it), `CountedIsWhole`, `AskedBeforeReplacing`, `ReplacedNotLost`, `PartsAccounted`, `FlowReturns`. |
| `app` | no server, or a server behind a bastion; forwards, scripts, 2 edits or one session | No edit, screen or session spoils what another relies on; see below. |
| `vault_mode_save` | 1 copy, failing saves | expected violation of `NeverStranded` (see 6) |
| `vault_migrate_crash` | 1 copy, crashes | expected violation of `MigrationCanFinish` (see 6) |
| `totp_stale` | 1 copy, no fault | expected violation of `RecentPassword` (see 6) |
| `cursor` | as `app` | expected violation of `CursorStaysOnServer` (see 6) |

What `app` checks, with failing saves everywhere:

- vault: `JumpsSound` (no edit makes a loop or a dangling jump),
  `OnlyShownIsTouched` (a screen changes the server it was opened on),
  `UnsavedWasTold`, `PrefsMatchDisk`, `ImportAddsEachOnce`;
- screens: `ScreensStayValid` (what a screen was opened on is there, cursors are
  on rows), `BackOnSameServer`;
- sessions: `PinIsOwnKey` (no hop gets the host key of another),
  `ScreenMatchesSession` (figures are shown as now only in the pane of the server they
  are of; the terminal is handed over from the first forward of a full-screen session to
  its end and never else), `ConnsWereAsked` (a bastion cannot push a connection,
  a rule that is off has none), `StepsFollow`, `RunLogComplete`, `KeysInOrder`
  and `DetachIsHeard` (the pane's prefix and the held Esc against the tick).

Each property is also run against a mutated definition (`mutants` in
`PROJECT.json`; the mutated operators stand beside the originals, marked
`mutant`): a lock that does not exclude, a flush that is left out, a reply whose
id is not compared, and so on. Each is found.

Assumed, and so evaluated by every run of the module:

| Module | Pure module | What holds, over every input within the bounds |
|---|---|---|
| `MCAtomicFile` | `Envelope` | a file is read back whole or refused, also when cut anywhere; no change of a header goes unseen; a slot opens with its own secret; one slot per kind after any changes; a newer schema is refused |
| `MCFiles` | `Wire` | requests are frames; names are read whatever attributes precede them; a cut reply is an error; no changed byte reads past the end; a listing that never ends is ended |
| `MCTotpGate` | `Wizard`, `Locks` | every state of the setup and settings screens: a vault is only asked for with what its mode needs; a password is sent once; a code stands for its newest step; the command line asks no more once no answer can help; a name means one server |
| `MCApp` | `SshConfig`, `Roster`, `Pane` | parsing line by line is reading as a whole; jump candidates are exactly the servers that close no loop; the figures never step back |
| `MCScreens` | `Forms`, `RunLog`, `Keys`, `Tty` | the focus is on a shown field and every field within reach; an edit that changes nothing gives back the entry; the log has all the output in order; a view that was scrolled up stays; keys are told apart; whoever quits, panics or is killed gets the terminal back; the lines of a form are in the order of its fields |
| `MCPanels` | `Panels`, `Socks`, `Probe` | wrapping loses no character and breaks a row only where it must; a form or dialog that is drawn shows the row of its focus, and its arrows say what is hidden; a SOCKS client goes where its bytes say, refused only for a command or type there is none of, and the tunnel has what it sent early; a handshake that is cut short gets no reply; what a host said is read |

**Bounds.** The flock has one holder, so a second copy shows every conflict and
a third adds only another loser of the same race; the theorems hold for any
number. `Keys` bounds the device keys *in use at one time*, because a key that
is nowhere in the system may be drawn again: with two copies at most one in the
vault, one in the entry, and one in each memory, work and held variable; runs
with fewer keys block only a further enrolment, and the passing runs still fire
every action. Two passwords distinguish "changed" from "kept"; two edits make a
lost one visible. In `TotpGate` the limits 5 failures and 30 days become 2 and
1, the skew is the code's 1, and the clock has enough steps for a code to
expire, be replayed and for the password check to become due. Four inodes
cover path, tmp, one only the disk knows, and a new one.

In `Files` two chunks make a copy that is half done; the trees have a directory
with two files and a link, files, directories and links that lead nowhere in each
other's way; a hidden file; five ids make them start again within one transfer. One fault is a
time limit, a refusal, a loss or an error of a local call, at any step. In `App`
an edit costs one unit of work and a session two, out of two: two edits in a row
(a second form after a failed save, a delete after an add), or one session that
starts from the vaults given. `MaxInput` 2 lets two of these happen during a
session: a paste of up to two keys, a poll, a forwarded connection, a switch of
the alternate screen. Where a key can do no more than cancel, one waits at a time, and
it is one that cancels or one that does not (`Presses`); pastes are for the shell of the
pane. A machine has two keys, and one without a pin shows the first, since any is
accepted. With its work used up the app still opens every screen, but chooses no jump and
ticks no box, as nothing could be submitted. `app` has about 450,000 states. One jump is the least in which a hop could get another's
key, and the limit of eight is reached with `MaxJumps` 1 by a chain of two.

**Symmetry** is used in safety runs over values that are only compared; the
runs that check liveness use none.

**Fairness.** `vault_reach` and `files` need it. In `vault_reach`: weak fairness of `Step(i)`, the
steps a handler takes on its own after a key started it. The code justifies it:
handlers are synchronous calls, and the lock is taken with a non-blocking
flock, so each step is enabled as soon as it is reached. Nothing is assumed of
the user: no key need ever be pressed. Crashes are excluded there, since a
crashed handler has returned only in the sense that its process is gone. In
`files`: weak fairness of `FlowStep` (a flow goes on when its call returned), of
`ReplyRead` (a reply that came is read) and of `ServerStep`. The last stands for
the time limit of a request (`ssh/sftp/client.rs:315`): a call that is not
answered ends with an error, so it is enough that a call ends in one of the two
ways, and the model lets faults take either. `App` assumes no fairness: a server
may stay silent at every step of a connect, and only Esc ends that.

**Deadlock** is checked in every run but `app` and `cursor`, where the app may
be closed for good with its work used up. `Files` has an action `Rest` for the
same end.

## 4. Proofs

`VaultProofs` proves, for any set of copies, passwords, edits and keys and any
set of faults (the assumptions are the two ASSUMEs of `Vault`, that the special
values are different from the ordinary ones):

- `Typed`: `TypeOK` always. It is not inductive alone: a handler uses `work[i]`
  and `held[i]` as an image and an entry, which is only right at the program
  counters where they are set. `TypeInv` adds `ImagesInHand`, which says where.
- `Exclusive`: `OpenVaultHoldsLock`. `LockInv` strengthens it: a copy holds the
  lock not only while a vault is open but in the middle of every handler that
  will save or open one (`Holding`); only its holder can free the lock.
- `EditsStay`, `PasswordStays`, `NewerStays` (over an existing vault):
  `KeepInv` says what every image a copy may still write has in common with the
  file: the image in `mem` or `work` of a lock holder *covers* the file (it has
  all its edits, has a password if the file has one, and the file is not of a
  newer schema). A save by the holder therefore only grows the file, and
  another copy cannot change it meanwhile because of `LockInv`.
- `Refinement`: every step of the copies is a step of `Ledger` or leaves it
  alone, from the same invariants.

The second half of `VaultProofs` goes on from there: what keeps a vault openable. None of it survives
every failure, so each theorem names the failures it excludes, and section 6 has
what happens with them.

- `MigrationNeverStuck`: `MigrationCanFinish`, for any copies, without a crash and
  without a failing removal of the secret file (finding 2). `MigrateInv`: while the
  file is there every copy is at the migration screen or off, and the file opens the
  vault unless one copy is between its save and the removal.
- `AWayIn`: `NeverStranded`, for any copies that share an existing vault, when saves
  and keyring writes succeed, nothing is killed and the entry is not lost
  (`Lossless`; finding 1 is what a failing save does). `StrandInv`: while the vault
  has no password, the entry has the key of its slot or the settings are just
  between the write of the entry and the save, and no other copy is in a handler that
  would take or replace the entry (`Harmless`).
- `SlotsStayEven`: `SlotsMatchDisk`, for any copies over an existing vault that
  needs no migration, killed ones included, when saves and keyring writes succeed and
  the entry is not lost (`EntrySafe`). `EvenInv` says of each program counter which
  of the slots in hand are those of the disk.
- `EntryStaysPaired`, `SlotsStayEvenAlone`: `EntryMatchesVault` and
  `SlotsMatchDisk` for one copy whose writes succeed (`Steady`: reads of the entry
  and the removal of the secret file may fail), from a first launch, a vault of an
  earlier run or one to be migrated. `CalmInv` follows the entry, the slot and what
  is in hand through all handlers, set-up and migration included. With two copies
  `EntryMatchesVault` fails (section 6), so there is nothing more to prove.

`AtomicFileProofs` proves, for any numbers of writers, contents and inodes:

- `NothingBeforeRename`: `OldUntilRenamed`, and `SavedAfterRename`:
  `SavedOnceRenamed`. The invariant adds `DiskWhole` (every inode the name may have after a power failure is
  flushed and whole, and `tmp` names none of them) and `TmpOwned` (a writer in
  the middle of a save holds the flock and has open the inode `tmp` names, which
  carries its content once written and is flushed before the rename).
- `Refinement`: `AtomicFile` implements `Register`.

`FilesProofs` begins with `SftpClient`, for any number of ids, requests and replies:

- `AnswersAreOwn`: `OwnReply`, of `ClientSpec`. A reply is matched by an id that
  starts again after `MaxId`, so the ids alone do not do. `OnTheWay` keeps, for
  every request and reply of the session still on the way, how many requests ago
  its id was given, and that this is less than a full turn; `CallInStep` says the
  same of the call that waits. That nothing on the way is older than a full turn
  (`RoomForId`) is a guard of `Issue`: it stands for 2^32 - 1 requests within one
  session. The invariant (`InvOver`) is stated over any sets of requests and answers,
  so that `Files`, whose requests no constant bounds, can take it over.
- `ClientTyped`: `ClientTypeOK`.

and goes on with `Files`, for any trees, names, chunks, ids and bounds, over a server
that answers late, refuses, is cut off inside a reply or goes away:

- `FlowsGetTheirAnswer`: `OwnReply`, of `Files`. Every action of `Files` is a step of
  the client or leaves it alone (`ClientStep`), and `StreamInv` adds what the one
  server in order gives: the replies come in the order of the requests (`InTurn`),
  and an answer that was taken was the last thing on the way (`AnsweredLast`).
- `OutOfStepEndsSession`: `DesyncEnds`, from `AnsweredLast`.
- `ReplacingIsAgreed`: `AskedBeforeReplacing`. A table (`Steps`) says of each of the
  actions what it asks of the server, what it changes and where it leads; the
  invariant `FlowInv` is then kept row by row. `Moving`: the flow is at an item of
  the plan that fits its direction. `Serving`: an answer tells what the server
  found, until the flow has used it (`Tells`), and nothing that changes a file is on
  its way when no flow knows of it (`QuietWhen`). `Deciding`: while the plan is made
  the destination is what it was when the transfer began (`BeforeKnown`); what the
  plan takes for new was not there (`NewHere`); every file it found is asked about
  before the first item (`AskedAbout`); and the server is only asked to remove what
  was agreed (`RemovesAgreed`). The part about the plan is an induction over its
  items, by the least one that would break it (`LeastNumber`).

`CopyProofs` proves what a transfer leaves on the two sides, under the same conditions:

- No two items of a plan have one destination (`Apart`): every answer to a readdir
  has its names once, so the rows of a pane and what is ticked of them have different
  names; what is still to be visited has no entry above another; and so what it puts
  into the plan has destinations of its own. All that follows needs it, since a second
  item would undo what is said of the first.
- `NothingReplacedIsLost`: `ReplacedNotLost`, and `CountedFilesAreWhole`:
  `CountedIsWhole`. `CopyInv` says at each `pc` of a copy what its part has: of an
  upload the chunks that were answered for (`UpStages`), of a download those that were
  read (`DownStages`), so that only whole parts are renamed. `Pending` looks at what was
  asked of the server and is still to be served, in whatever order the faults leave it:
  a request for an item that is done changes nothing of it (`Settled`), and a rename
  or a remove is for a part that is whole and with nothing before it that would
  shorten it (`NotLost`). `CountedDone`: a counted file is behind the flow and is
  what its source is. `NoPiece` and `OffIsZero` say that no tree has half a file and
  that every copy starts at its first chunk.
- `FilesTyped`: `TypeOK`, where the requests and the replies of the client are those
  of `Files`. A part has at most the chunks of its file because of `CopyInv`.
- `PartsAreAccounted`: `PartsAccounted`. `Tally`: every item the flow has left behind is
  in the summary, counted or failed. `Smooth` is what holds as long as there was no
  fault: every request is answered before the next is sent (`Prompt`), what changes
  something is about the item under way (`Owned`), and a part is only where that item
  is or where a directory or a link has its name (`Placed`). So a part that is left has
  a fault or such a name to account for it. The attempt to prove the property as it
  was first stated showed that it failed: a directory nested in a directory of the
  same name can lie beside the part an earlier transfer left, which is not the
  directory's own. It now speaks of the files of the plan.

`TotpGateProofs` proves, for any finite set of copies, any limits and any bound
of the clock, with crashes, lost entries and a clock set back, but with writes
that succeed and no two copies between a read and a write together (`Orderly`;
without it the properties fail, see 6):

- `OnlySpentStored` and `SpentOnce`: `NothingBurned` and `CodeSpentOnce`, the latter for
  as long as the keyring keeps the entry (6 has what happens after that). `Alone`
  says that at most one handler is in the middle; `InEntry` that the entry
  counts the answers since a password and has the newest code spent; `HeldBy`
  says, for each place a handler can be at, how what it holds will fit the
  history when it is written.
- `Bounded`: `GuessesBounded`. `Counted` is the reason: a code screen is built
  only below the limit, so from the limit on each wrong answer takes one of the
  screens still up away, and none comes back.

`AppProofs` proves, for any vaults, drafts, filters, config files and bounds of
`App`:

- `PrefsAgree`: `PrefsMatchDisk`, from the shape of a config (`DeskAssumption`). The
  proof sorts some eighty actions by what they can do to `mem` and `disk`: nothing, an edit
  of the servers, a change of the order, a preference, forgetting, opening, or
  saving again. `DeskAssumption` is what a vault file always is: every entry with all
  of its fields and, as ids are UUIDs drawn when an entry is made, no id twice
  (`IsVault`); the parser gives a list.
- `FailureIsShown`: `UnsavedWasTold`, handler by handler: each that keeps a change
  reports the result of its save (`Unhidden`), and a session changes no server while
  the app is idle.
- `OthersAreLeftAlone`: `OnlyShownIsTouched`. `VaultInv` keeps `IsVault` for memory
  and disk; `OpenInv` that a screen is on the server it was opened on and what the
  rows of the import say of the vault (`RowsInv`). `DeskEdit` and `SessionEdit` then
  list what a step can make of the servers: the same but for the one on the screen
  (`SameBut`), new ones behind (`Extended`), one less, with the jumps to it cleared
  (`Shorter`), or the pins and times of `record_session` (`Recorded`). The lemmas
  about lists (`PlacesRanked`, `ChosenEntries`, ...) are what filtering, mapping and
  appending keep of one.
- `ImportsAreNew`: `ImportAddsEachOnce`, since no ticked row is of a host in the
  vault for as long as the screen is up.
- `ScreenIsTrue`: `ScreenMatchesSession`. No handler sets the buffer and the figures
  for all flows: a refused channel, an Esc, the end of a run and a failed connect leave
  both alone, and it is right because of where they can happen. `LeavesInv` adds which
  flow waits where: an idle app has no flow, no listener and no event in the channel, and only
  a run on several servers is between two targets. So a step is either beside the point
  (`Beside`), an end that leaves no figures and the app's own buffer (`SessionOver`), a
  further step of the same flow (`Onward`), or to a next target (`Target`).

`RunProofs` goes on from there:

- `StepsInOrder`: `StepsFollow`. `StepsInv` adds that a step is only under way in
  the script flow and that it is one that may run, so what it ends with is put
  behind the result its condition was asked of.
- `LogComplete`: `RunLogComplete`. `LogInv` looks at the log with what is still in
  the channel behind it: while a step runs, at most the last start has no end and
  only output follows it (`OneOpen`); otherwise every start has one (`Closed`). So
  it does not matter when events are applied, only that none is left. It needs
  `PrefsInv`, since a way to connect that is neither of the two would make a session
  look like a run, and `LeavesInv` for where a run may wait.
- `PinsAreTheirOwn`: `PinIsOwnKey`. `PinsInv` pairs what was learnt with the chain of
  hops and destination (`Chain`), one for each hop already open, and the rest of the
  chain is what is left to dial (`Learning`); a key is learnt only from a server
  without a pin and is that server's. That the walk along the jumps ends, so that the
  hops are a list at all, is `HopsAreList`, for any `MaxJumps`.
- `ConnsAreAsked`: `ConnsWereAsked`. `ConnsInv` adds that nothing listens or is
  forwarded unless a session is served, that the rules still to be started and the
  listeners are of rules that are on, and that recording the session changes none of
  them (`RulesStay`).

- `KeysAreInOrder`: `KeysInOrder`, and `DetachesAtOnce`: `DetachIsHeard`. `KeyboardInv`
  looks at what was sent with the Esc that is held back behind it (`Written`): its keys
  are among those typed, in their order, and for each Ctrl+B at most two are missing,
  itself and the key behind it (one, while that key is still to come). A poll reads
  any number of keys; `PolledWell` shows it key by key, by the first key after which it
  would not be so. A detach stays one for the rest of the poll (`PolledMore`).

`ScreenProofs` has the invariant of the whole of `App` (`AppWhole`), the parts above
with those that follow:

- `ScreensAreSound`: `ScreensStayValid`. `ScreensInv` says of each screen what it is
  on (`ScreenOK`) and that the cursor of the menu is on a row of what the filter
  leaves (`MenuOK`); `FleetInv` where a run on several servers returns to. Every
  handler that deletes something leaves for a screen that does not show it.
- `AppTyped`: `TypeOK`. `ConfigInv` and `KeysInv` are for the values in the vault and
  for the keys a session learns; `TargetsInv` and `SidInv` for the servers a flow is on,
  which are in the vault for as long as it lasts; `WorkInv`, `DeskTyped` and `FlowTyped`
  for the rest. What is typed into a form and what a config file says are of the
  texts given (`DeskAssumption`).
- `BackWhereItWas`: `BackOnSameServer`. The n-th row is the one with n - 1 above it;
  since the order of the rows is total (`AboveOrders`, `RowsRanked`), every server that passes the
  filter has exactly one row, and `reanchor` finds it. That the menu has no
  filter then is from `back_to_menu`.
- `JumpsAreSound`: `JumpsSound`, of vaults that start with jumps which come to an end
  (`JumpsEnd`; a first launch starts with no server, and `MCApp` evaluates this for
  the vaults of the run). `JumpsInv` adds that no choice of a form leads back to the
  server it edits (`Avoids`), which has to survive a failed save of the same form.
  `reaches` takes at most as many steps as there are servers: that this is far enough
  (`NeverReached`) is a counting of the servers on the way, which are all different if
  it ends. A form that moves one jump to such a choice keeps every way ending, since
  each comes to the server or passes it by; a deleted server only ends some earlier;
  new ones are at the start of a way, not on it. And a way that ends is walked by
  `Target::from_entry` to its end or to the limit of hops (`WalkEnds`).

The proof of the last one found a mistake in the model: the reason for which a walk is
refused was a CASE whose conditions overlap, where TLA+ does not say which arm is
taken, though TLC takes the first. It is now what the code is, one condition
after the other, and so are the other definitions that were written that way.

TLC checked each invariant before its proof or, for those of `ScreenProofs`, over all
the states of `app` beside it. Only model-checked:

- liveness, which is out of the prover's reach, as is ENABLED: `HandlersReturn`,
  `FlowReturns`;
- what a recursive definition computes for every input (induction over data is
  out of reach too): the assumptions on the pure modules. The two recursive functions
  that the theorems above need, in `Hop` and in `PollKeys`, are no exception: that there
  is such a function, and what it has in common with another, is argued by the least
  number at which it would be wrong (`HopIs`, `PollKeysIs`).

## 5. What is left out

Abstracted, in what is modelled:

- Cryptography: a slot opens with its own secret and with no other. Wrong
  secrets, damaged files and I/O errors while reading are one outcome in
  `Vault`; `Envelope` tells them apart.
- Reading the vault file is atomic (`Register`). The window between
  `read_file` and its decoding has no effect.
- `vault_id`: every copy finds the same keyring entry. The race of two first
  launches over the id file is listed as a hazard.
- The wording of everything that is drawn, its colours and columns, and the help overlay,
  which takes the next key and changes nothing else. In the screens whose keys
  are modelled one by one (`Wizard`, `Locks`, `Forms`) the characters typed into
  a field, with Backspace, are one key that sets what the field holds; in
  `Desk` a form is what it submits.
- A log line is one row; the log that is kept is that of a run on the run
  screen, not what a session prints before its shell. A chunk of output is only
  whether the next step's text is in it.
- Usage readings are numbered in `Session`; `Probe` has how they are read. Their
  units are left out.
- In `Panels` a dialog is drawn as `wrap_text` counts it; that ratatui wraps the
  same way is taken from its comment. Dialogs are at least 10 columns wide
  instead of 44, so that texts of a few words need scrolling.
- In `SshConfig` a line is a keyword and a value. In `Keys` characters are one
  byte.
- In `Files` a name is a model value, `.part` names are not listed, links point
  at nothing (so a stat of one finds nothing), and the server answers in order (any
  order in `SftpClient`).
- `App` has one session for each behaviour (`SessionCost`), so a session starts
  from a vault as given, and an edit from any. A tunnel is dropped from the
  model when its session ends.
- Fatal signals are in `Tty` alone; failing writes to the terminal and changes
  of the window's size are nowhere.

Not modelled:

- The command line's own connect (`cli/mod.rs`), which drives the flows of
  `app.rs` without the screens; its unlock and its resolution of names are in
  `Locks`. Its arguments and its listing are formats.
- The cells of the terminal emulator, and the threads behind the PTY bridge:
  stdin is one queue of keys.
- `theme`, `i18n`, the lists and the other drawing of each screen.

## 6. Where the code and its comments part

Shown by runs, listed as findings:

1. *A failed change of mode can strand a vault* (`vault_mode_save`). In a vault
   with only a device slot, choosing mode None again overwrites the keyring
   entry; if the save then fails, the undo deletes the entry (`app.rs:2099`).
   The slot on disk is still wrapped by the old key, which is gone.
2. *A crash strands a migrated vault* (`vault_migrate_crash`). After the
   migrated vault is saved and before the secret file is removed
   (`app.rs:977`), a crash leaves a vault whose start-up always chooses the
   migration screen, which tries the old secret only. A failing removal, which
   the code ignores, has the same effect at the next launch.
3. *The age of the password check is only asked when the screen is built*
   (`totp_stale`). A code screen that was up when the 30 days passed keeps
   accepting codes.
4. *The cursor is on another server after a session* (`cursor`). `record_session`
   writes `last_connected`, by which the menu may be ordered, and keeps the
   cursor as an index (`app.rs:2557`); every other way back to the menu looks for
   the server it left.

Met while modelling, reproducible by changing a configuration, and recorded
here so that they are not mistaken for properties that hold:

- With `"entryLost"` in `VaultCalm.cfg`, `SlotsMatchDisk` fails: re-enrolment
  saves a clone of the slots (`app.rs:926`) and the session keeps the old
  device slot, which its next save writes back.
- With `Spec` in `VaultPair.cfg`, `NoLostEdit` fails: `init_slots` does not look
  whether a vault exists by now (`store.rs:183`), so a copy still on the setup
  screen replaces one that was created, edited and closed meanwhile. A copy
  refused the lock there also deletes the entry it had overwritten
  (`app.rs:746`).
- With a second copy and `ExistingSpec` in `VaultCalm.cfg`, `EntryMatchesVault`
  fails: the code handler writes a whole device state back without the lock (`app.rs:812`).
- With the invariant `KeysStayInFlow` in `App.cfg`, TLC shows a key typed into a session
  that acts on the server list. Comments at `app.rs:621` and `2304` give just this as the
  reason for draining the keyboard, but only the ticks drain it: the pane's loop breaks
  at the exit status, EOF or close (`app.rs:2485`), a connect that returns is preferred
  to a tick that is due (`app.rs:618`), and the connects of a run have no tick at
  all. What is in the terminal then is read by `App::run` (`app.rs:427`). The properties
  of `app` hold with such keys about.
- With the property `AcceptedOnce` in `TotpGate.cfg`, TLC shows a code accepted twice,
  while README:230 says that a code is accepted once. `reconcile_device_state` replaces a
  lost entry by one with the same TOTP secret and replay step 0 (`app.rs:913`), so
  for as long as its window is open a code from before is fresh. `CodeSpentOnce`
  says what holds: once under one entry.
- With `"race"` or `"write"` in `TotpGate.cfg`, `CodeSpentOnce` fails: two
  copies can both read the entry before either writes it, and a failed write of
  the spent step is ignored (`app.rs:784`).
- `GuessesBounded` allows one more guess for every further copy: a code screen
  that is already up does not ask `must_escalate` again. A right code at any of
  them resets the counter.
- `verify_totp_prompt` (mode 3) keeps no replay step, so `CodeSpentOnce` is a
  property of mode 4 alone, while the README speaks of codes in general.

From the connection flows:

- A run of scripts cannot be left while it connects (`app.rs:2648` awaits
  `ssh::connect` without the screen), and authentication has no time limit. Nor
  do runs and the file browser record host keys.
- The full-screen connect runs its scripts without reading keys (`app.rs:2264`);
  the pane reads them.
- In the pane a channel, PTY or shell that is refused ends the app
  (`app.rs:2342`, `2346`, `2430`); the full-screen flow reports it.
- Keys that arrive in the tick of a detach are dropped, and an Esc held or a
  prefix armed during the scripts is still there when the shell starts. Ctrl+B
  right after a held Esc is sent and does not arm the prefix
  (`session_pane.rs:253`), while a comment there says that Ctrl+B d always works.
- The task of an accepted connection holds the handle of its session
  (`forward.rs:115`), so an authenticated connection outlives the session, and
  the lock of the vault, for as long as the client keeps it. One failing accept
  ends the listener of a rule that is still shown as started (`forward.rs:116`).
  A remote rule whose request was denied stays in the table of routes, and
  nothing bounds the wait for that request.
- A step whose channel closes without a status counts as having succeeded
  (`script_runner.rs:243`). A session ends at the exit status or at EOF although
  output may follow.
- An add whose save failed stays in memory with the form open: submitting again
  adds the server twice (`app.rs:1772`), while the import takes its servers back.
- Editing the host of a server keeps its pinned key. Editing one whose jump is
  no candidate any more makes it direct. Two aliases of one machine in one
  config file are both imported.
- Failures to save what a session or the file browser learnt are not told, and
  "saved" may stay on the status bar through a failed save and a cancelled form.

From the file transfer:

- A download also ends at an empty DATA, while a comment says that only a status
  of EOF ends the file (`sftp/client.rs:206`).
- `DirEntry::metadata` does not follow links, while a comment in
  `file_browser.rs` says so of what it calls.
- `push_file` asks `Path::exists` (`transfer.rs:290`), which follows links: a download
  over a link that leads nowhere replaces it and asks nobody. Therefore
  `AskedBeforeReplacing` leaves such links out. An upload over one fails at the
  rename and leaves its `.part`.
- After a failed rename of an upload the destination is gone and `.part` is whole
  and stays. A handle of the server is left open by every error after its
  opening. An error inside `run` that ends the connection does not drop the
  session; the next listing does. The directory remembered for the next time may
  be "/" after a lost connection.

From the pure modules:

- A file of nine bytes with version 2 is read past its end (`format.rs:180`), a
  panic instead of an error. An unknown kind of slot is skipped, as the comment
  says (`format.rs:14`), but one with an unknown KDF refuses the whole file.
- Settings and the lock screens measure a new password in bytes, setup in
  characters. After a failed creation of a vault with a code, the setup screen has
  given its secret away and only leaving it works.
- `verify_totp_prompt` accepts, after the password, a code that was just refused
  as replayed (`app.rs:2119`), since it takes the check meant for enrolment
  (`totp.rs:107`).
- Alt is lost on PageUp, PageDown, Insert, Delete, BackTab and F1 to F12
  (`vt_input.rs:84`, `115`).
- `expand` misses a placeholder right behind a third brace
  (`script_runner.rs:44`). The log decodes each chunk alone, so a character cut by
  two chunks is lost (`script_run.rs:122`). Home on a log shorter than the view
  stops following it (`script_run.rs:298`).
- A conditional step moved to the first place keeps a condition the runner never
  asks, and loses it when it is edited.
- A form with a footer is drawn on a terminal of 7 rows, and again from 8 rows and
  those of its footer on, but not between: the bands come in at 8
  (`chrome.rs:45`, `BandsTakeAway`).
- A SOCKS request that is refused is answered and dropped with its address still
  unread (`socks.rs:113`, `SocksTakesNoOther`); a system that resets such a
  connection may take the answer back, which the comment at the top of the file
  counts on.
- A probe ends at the exit status (`sysinfo.rs:119`). If output follows, a figure
  whose digits were cut is read as a smaller one (`CutOnlyWithin`); a first line
  that is blank hides a later one of the same marker.
- A fatal signal in the middle of suspend and resume can leave the terminal on
  its alternate screen; raw mode is always off.

## 7. Plan

Done: all modules and runs of sections 2 and 3, and the theorems of section 4: no
property of a passing run is without one but the two of liveness. What is left, in
this order:

1. `VaultId`: two first launches over one `.tmp` without the lock.
2. The command line's connect, as a second user of the flows of `Session`.
3. More than one session in a behaviour of `App`: an edit between two sessions
   that share a hop. It needs about ten times the states.
